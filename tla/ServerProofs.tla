---------------------------- MODULE ServerProofs ----------------------------
(***************************************************************************)
(* Proofs about Server, for every set of nodes and streams, every          *)
(* assignment of nodes to workers and every capacity.                      *)
(***************************************************************************)
EXTENDS Server, TLAPS

\* An item belongs to the node of the stream it came in on.
Items == {x \in [stream : Streams, node : Nodes, kind : {"stats", "probe"},
                 id : Nat, ts : Nat] : x.node = NodeOf[x.stream]}
Entries == [status : Statuses, seen : 0 .. MaxTime + MaxAhead, stats : Nat]
Rows == [status : Statuses, seen : 0 .. MaxTime]

\* Who has an item to work on has a real one.
HandlerTypes ==
  /\ now \in 0 .. MaxTime
  /\ msgs \in 0 .. MaxMsgs
  /\ handler \in [Streams -> [next : {"recv", "enqueue", "broadcast"},
                              item : Items \cup {NoItem}]]
  /\ \A h \in Streams : handler[h].next # "recv" => handler[h].item \in Items

WorkTypes ==
  /\ queue \in [Workers -> Seq(Items)]
  /\ \A w \in Workers : Len(queue[w]) <= QueueCap
  /\ worker \in [Workers -> [next : {"recv", "upsert", "insert", "push", "probe"},
                             item : Items \cup {NoItem}]]
  /\ \A w \in Workers : worker[w].next # "recv" => worker[w].item \in Items
  /\ vmInFlight \in 0 .. VmPermits

StoreTypes ==
  /\ snaps \in [Nodes -> Seq(Items)]
  /\ probeRows \in [Nodes -> Nat] /\ dropped \in [Nodes -> Nat]
  /\ dbErrors \in [Nodes -> Nat] /\ arrived \in [Nodes -> Nat]
  /\ restarts \in 0 .. MaxRestarts

RegistryTypes ==
  /\ registry \in [Nodes -> Entries]
  /\ nodeRows \in [Nodes -> Rows]
  /\ lookup \in [next : {"idle", "query", "insert"}, node : Nodes \cup {"none"},
                 found : Entries]
  /\ lookup.next # "idle" => lookup.node \in Nodes
  /\ lookups \in 0 .. MaxLookups

CheckerTypes ==
  /\ checker \in [next : {"tick", "upsert", "broadcast"}, todo : Seq(Nodes)]
  /\ checker.next # "tick" => checker.todo # <<>>

Types == HandlerTypes /\ WorkTypes /\ StoreTypes /\ RegistryTypes /\ CheckerTypes

\* Node n has a row, or an upsert on its way: in an item of one of its
\* streams, or noted by the checker.
Coming(n) ==
  \/ \E h \in Streams : /\ handler[h].next = "enqueue"
                        /\ handler[h].item.kind = "stats"
                        /\ handler[h].item.node = n
  \/ \E w \in Workers : \E i \in DOMAIN queue[w] : queue[w][i].kind = "stats"
                                                  /\ queue[w][i].node = n
  \/ \E w \in Workers : worker[w].next = "upsert" /\ worker[w].item.node = n
  \/ \E i \in DOMAIN checker.todo : checker.todo[i] = n

\* A node is registered before anything of it can reach the table, and a
\* lookup never carries an absent entry.
Registered ==
  /\ loadFailed \/ \A n \in Nodes : HasRow(n) \/ Coming(n) => registry[n].status # "absent"
  /\ lookup.next = "insert" => lookup.found.status # "absent"

-----------------------------------------------------------------------------
(* What each task leaves alone.                                            *)

\* A stream handler touches the registry, the queues and its own state.
LEMMA HandlerFrame ==
  ASSUME NEW h \in Streams, Handler(h)
  PROVE  UNCHANGED <<now, worker, vmInFlight, dbErrors, checker, lookup, lookups,
                     nodeRows, snaps, probeRows, restarts, loadFailed>>
<1> USE DEF workVars, apiVars, dbVars, startVars
<1>1. ASSUME NEW ts \in Timestamps, StatsReceived(h, ts)
      PROVE  UNCHANGED <<now, worker, vmInFlight, dbErrors, checker, lookup, lookups,
                         nodeRows, snaps, probeRows, restarts, loadFailed>>
  BY <1>1, Zenon DEF StatsReceived
<1>2. ASSUME NEW ts \in Timestamps, HeartbeatReceived(h, ts)
      PROVE  UNCHANGED <<now, worker, vmInFlight, dbErrors, checker, lookup, lookups,
                         nodeRows, snaps, probeRows, restarts, loadFailed>>
  BY <1>2, Zenon DEF HeartbeatReceived
<1>3. CASE ProbeReceived(h)
  BY <1>3, Zenon DEF ProbeReceived
<1>4. CASE SendToWorker(h)
  BY <1>4, Zenon DEF SendToWorker
<1>5. CASE BroadcastStats(h)
  BY <1>5, Zenon DEF BroadcastStats
<1> QED
  BY <1>1, <1>2, <1>3, <1>4, <1>5, Zenon DEF Handler

\* A handler that does not enqueue leaves queues and counters alone.
LEMMA ReceiverFrame ==
  ASSUME NEW h \in Streams, Handler(h), ~SendToWorker(h)
  PROVE  UNCHANGED <<queue, dropped, arrived>>
<1> USE DEF memVars
<1>1. ASSUME NEW ts \in Timestamps, StatsReceived(h, ts)
      PROVE  UNCHANGED <<queue, dropped, arrived>>
  BY <1>1, Zenon DEF StatsReceived
<1>2. ASSUME NEW ts \in Timestamps, HeartbeatReceived(h, ts)
      PROVE  UNCHANGED <<queue, dropped, arrived>>
  BY <1>2, Zenon DEF HeartbeatReceived
<1>3. CASE ProbeReceived(h)
  BY <1>3, Zenon DEF ProbeReceived
<1>4. CASE BroadcastStats(h)
  BY <1>4, Zenon DEF BroadcastStats
<1> QED
  BY <1>1, <1>2, <1>3, <1>4, Zenon DEF Handler

\* A worker touches its queue, the database and its own state, each at a step
\* of its own.
LEMMA WorkerFrame ==
  ASSUME NEW w \in Workers, Worker(w)
  PROVE  /\ UNCHANGED <<now, msgs, handler, arrived, heard, registry, dropped, checker,
                        lookup, lookups, restarts, loadFailed>>
         /\ WorkerTakes(w) \/ queue' = queue
         /\ WorkerUpserts(w) \/ nodeRows' = nodeRows
         /\ WorkerInserts(w) \/ snaps' = snaps
<1> USE DEF netVars, memVars, dbVars, apiVars, startVars
<1>1. CASE WorkerTakes(w)
  BY <1>1, Zenon DEF WorkerTakes
<1>2. CASE WorkerUpserts(w)
  BY <1>2, Zenon DEF WorkerUpserts
<1>3. CASE WorkerInserts(w)
  BY <1>3, Zenon DEF WorkerInserts
<1>4. CASE WorkerPushes(w)
  BY <1>4, Zenon DEF WorkerPushes
<1>5. CASE WorkerProbes(w)
  BY <1>5, Zenon DEF WorkerProbes
<1> QED
  BY <1>1, <1>2, <1>3, <1>4, <1>5, Zenon DEF Worker

\* The checker touches the registry, the table nodes and its own state.
LEMMA CheckerFrame ==
  ASSUME Checker
  PROVE  UNCHANGED <<now, msgs, handler, arrived, heard, queue, dropped, worker,
                     vmInFlight, dbErrors, lookup, lookups, snaps, probeRows,
                     restarts, loadFailed>>
<1> USE DEF netVars, memVars, workVars, apiVars, dbVars, startVars
<1>1. CASE CheckerScans
  BY <1>1, Zenon DEF CheckerScans
<1>2. CASE CheckerUpserts
  BY <1>2, Zenon DEF CheckerUpserts
<1>3. CASE CheckerBroadcasts
  BY <1>3, Zenon DEF CheckerBroadcasts
<1> QED
  BY <1>1, <1>2, <1>3, Zenon DEF Checker

\* A lookup touches the registry and its own state.
LEMMA LookupFrame ==
  ASSUME Lookup
  PROVE  UNCHANGED <<now, msgs, handler, arrived, heard, queue, dropped, worker,
                     vmInFlight, dbErrors, checker, nodeRows, snaps, probeRows,
                     restarts, loadFailed>>
<1> USE DEF netVars, memVars, workVars, dbVars, startVars
<1>1. ASSUME NEW n \in Nodes, LookupMisses(n)
      PROVE  UNCHANGED <<now, msgs, handler, arrived, heard, queue, dropped, worker,
                         vmInFlight, dbErrors, checker, nodeRows, snaps, probeRows,
                         restarts, loadFailed>>
  BY <1>1, Zenon DEF LookupMisses
<1>2. CASE LookupQueries
  BY <1>2, Zenon DEF LookupQueries
<1>3. CASE LookupInserts
  BY <1>3, Zenon DEF LookupInserts
<1> QED
  BY <1>1, <1>2, <1>3, Zenon DEF Lookup

\* The clock and the end of a push touch nothing else.
LEMMA OtherFrame ==
  ASSUME VmPushEnds \/ Tick \/ UNCHANGED vars
  PROVE  UNCHANGED <<msgs, handler, arrived, heard, registry, queue, dropped, worker,
                     dbErrors, checker, lookup, lookups, nodeRows, snaps, probeRows,
                     restarts, loadFailed>>
<1> USE DEF netVars, memVars, workVars, apiVars, dbVars, startVars
<1>1. CASE VmPushEnds
  BY <1>1, Zenon DEF VmPushEnds
<1>2. CASE Tick
  BY <1>2, Zenon DEF Tick
<1>3. CASE UNCHANGED vars
  BY <1>3, Zenon DEF vars
<1> QED
  BY <1>1, <1>2, <1>3, Zenon

-----------------------------------------------------------------------------
(* What the longer steps do.                                               *)

\* Handler h gives item x of node n to worker w, or drops it.
Sends(h, x, n, w) ==
  /\ handler[h].next = "enqueue" /\ x = handler[h].item
  /\ n = x.node /\ w = ShardOf[n]
  /\ arrived' = [arrived EXCEPT ![n] = @ + 1]
  /\ \/ /\ Len(queue[w]) < QueueCap
        /\ queue' = [queue EXCEPT ![w] = Append(queue[w], x)]
        /\ dropped' = dropped
     \/ /\ queue' = queue
        /\ dropped' = [dropped EXCEPT ![n] = @ + 1]
  /\ handler'[h].next # "enqueue"
  /\ \A g \in Streams \ {h} : handler'[g] = handler[g]

LEMMA SendEffect ==
  ASSUME Types, NEW h \in Streams, SendToWorker(h)
  PROVE  /\ \E x \in Items, n \in Nodes, w \in Workers : Sends(h, x, n, w)
         /\ registry' = registry /\ msgs' = msgs
<1>1. handler \in [Streams -> [next : {"recv", "enqueue", "broadcast"},
                              item : Items \cup {NoItem}]]
  BY Zenon DEF Types, HandlerTypes
<1>2. PICK x \in Items : x = handler[h].item
  BY Zenon DEF SendToWorker, Types, HandlerTypes
<1>3. PICK n \in Nodes, w \in Workers : n = x.node /\ w = ShardOf[n]
  BY ServerAssumption, Zenon DEF Items
<1>4. handler'[h].next # "enqueue" /\ \A g \in Streams \ {h} : handler'[g] = handler[g]
  BY <1>1, Zenon DEF SendToWorker
<1>5. Sends(h, x, n, w)
  BY <1>2, <1>3, <1>4, Zenon DEF SendToWorker, Sends
<1> QED
  BY <1>5, Zenon DEF SendToWorker

\* A lookup that asks the database gives up, or has found an entry.
LEMMA LookupEffect ==
  ASSUME LookupQueries
  PROVE  /\ UNCHANGED <<registry, nodeRows, lookups>>
         /\ \/ lookup' = NoLookup
            \/ /\ HasRow(lookup.node)
               /\ \E e \in LoadNode(lookup.node) :
                    lookup' = [lookup EXCEPT !.next = "insert", !.found = e]
BY Zenon DEF LookupQueries, memVars, dbVars

-----------------------------------------------------------------------------
(* Types.                                                                  *)

\* The bounds are numbers.
LEMMA Bounds ==
  /\ MaxTime \in Nat /\ MaxAhead \in Nat /\ MaxMsgs \in Nat /\ MaxLookups \in Nat
  /\ MaxRestarts \in Nat /\ LastEvent \in Nat /\ VmPermits \in Nat
  /\ QueueCap \in Nat /\ QueueCap >= 1 /\ OfflineAfter \in Nat
  BY ServerAssumption

\* The server starts with nothing.
LEMMA InitTypes == Init => Types
<1> SUFFICES ASSUME Init PROVE Types
  BY Zenon
<1> USE Bounds
<1>1. Absent \in Entries /\ [status |-> "absent", seen |-> 0] \in Rows
  BY DEF Absent, Entries, Rows, Statuses
<1>2. HandlerTypes
  BY DEF Init, HandlerTypes
<1>3. WorkTypes
  BY DEF Init, WorkTypes
<1>4. StoreTypes
  BY DEF Init, StoreTypes
<1>5. RegistryTypes
  BY <1>1 DEF Init, RegistryTypes, NoLookup
<1>6. CheckerTypes
  BY DEF Init, CheckerTypes
<1> QED
  BY <1>2, <1>3, <1>4, <1>5, <1>6, Zenon DEF Types

\* What a handler has received is an item of its stream.
LEMMA HandlerStep == Types /\ [Next]_vars => HandlerTypes'
<1> SUFFICES ASSUME Types, [Next]_vars PROVE HandlerTypes'
  BY Zenon
<1> USE Bounds
<1>0. HandlerTypes
  BY Zenon DEF Types
<1>1. ASSUME NEW h \in Streams, NEW ts \in Timestamps, StatsReceived(h, ts)
      PROVE  HandlerTypes'
  <2> DEFINE x == [stream |-> h, node |-> NodeOf[h], kind |-> "stats",
                   id |-> msgs + 1, ts |-> ts]
  <2>1. x \in Items
    BY <1>0, ServerAssumption DEF HandlerTypes, Items, Timestamps
  <2>2. /\ handler' = [handler EXCEPT ![h] = [next |-> "enqueue", item |-> x]]
        /\ msgs < MaxMsgs /\ msgs' = msgs + 1 /\ now' = now
    BY <1>1, Zenon DEF StatsReceived, CanReceive
  <2> HIDE DEF x
  <2> QED
    BY <1>0, <2>1, <2>2 DEF HandlerTypes
<1>2. ASSUME NEW h \in Streams, ProbeReceived(h) PROVE HandlerTypes'
  <2> DEFINE x == [stream |-> h, node |-> NodeOf[h], kind |-> "probe",
                   id |-> msgs + 1, ts |-> now]
  <2>1. x \in Items
    BY <1>0, ServerAssumption DEF HandlerTypes, Items
  <2>2. /\ handler' = [handler EXCEPT ![h] = [next |-> "enqueue", item |-> x]]
        /\ msgs < MaxMsgs /\ msgs' = msgs + 1 /\ now' = now
    BY <1>2, Zenon DEF ProbeReceived, CanReceive
  <2> HIDE DEF x
  <2> QED
    BY <1>0, <2>1, <2>2 DEF HandlerTypes
<1>3. ASSUME NEW h \in Streams, NEW ts \in Timestamps, HeartbeatReceived(h, ts)
      PROVE  HandlerTypes'
  BY <1>0, <1>3 DEF HeartbeatReceived, CanReceive, HandlerTypes
<1>4. ASSUME NEW h \in Streams, SendToWorker(h) PROVE HandlerTypes'
  BY <1>0, <1>4, Zenon DEF SendToWorker, HandlerTypes
<1>5. ASSUME NEW h \in Streams, BroadcastStats(h) PROVE HandlerTypes'
  BY <1>0, <1>5, Zenon DEF BroadcastStats, HandlerTypes
<1>6. CASE Restart
  BY <1>0, <1>6, Zenon DEF Restart, HandlerTypes
<1>7. CASE Tick
  BY <1>0, <1>7 DEF Tick, netVars, HandlerTypes
<1>8. CASE UNCHANGED <<now, msgs, handler>>
  BY <1>0, <1>8, Zenon DEF HandlerTypes
<1>9. CASE (\E w \in Workers : Worker(w)) \/ Checker \/ Lookup
  BY <1>8, <1>9, WorkerFrame, CheckerFrame, LookupFrame, Zenon
<1>10. CASE VmPushEnds \/ UNCHANGED vars
  <2>1. now' = now
    BY <1>10, Zenon DEF VmPushEnds, vars
  <2> QED
    BY <1>8, <1>10, <2>1, OtherFrame, Zenon
<1> QED
  BY <1>1, <1>2, <1>3, <1>4, <1>5, <1>6, <1>7, <1>8, <1>9, <1>10, Zenon DEF Next, Handler

\* Queues and workers hold items, within the capacities.
LEMMA WorkStep == Types /\ [Next]_vars => WorkTypes'
<1> SUFFICES ASSUME Types, [Next]_vars PROVE WorkTypes'
  BY Zenon
<1> USE Bounds
<1>0. WorkTypes /\ HandlerTypes
  BY Zenon DEF Types
<1>1. ASSUME NEW h \in Streams, SendToWorker(h) PROVE WorkTypes'
  <2>1. PICK x \in Items, n \in Nodes, w \in Workers : Sends(h, x, n, w)
    BY <1>1, SendEffect, Zenon
  <2>2. UNCHANGED <<worker, vmInFlight>>
    BY <1>1, HandlerFrame, Zenon DEF Handler
  <2>3. CASE queue' = queue
    BY <1>0, <2>2, <2>3, Zenon DEF WorkTypes
  <2>4. CASE queue' # queue
    <3>1. queue[w] \in Seq(Items)
      BY <1>0, Zenon DEF WorkTypes
    <3>2. Len(queue[w]) < QueueCap /\ queue' = [queue EXCEPT ![w] = Append(queue[w], x)]
      BY <2>1, <2>4, Zenon DEF Sends
    <3>3. Append(queue[w], x) \in Seq(Items) /\ Len(Append(queue[w], x)) <= QueueCap
      BY <3>1, <3>2
    <3> QED
      BY <1>0, <2>2, <3>2, <3>3, Zenon DEF WorkTypes
  <2> QED
    BY <2>3, <2>4, Zenon
<1>2. ASSUME NEW w \in Workers, WorkerTakes(w) PROVE WorkTypes'
  <2>1. queue[w] \in Seq(Items) /\ queue[w] # <<>>
    BY <1>0, <1>2, Zenon DEF WorkTypes, WorkerTakes
  <2>2. /\ Head(queue[w]) \in Items /\ Tail(queue[w]) \in Seq(Items)
        /\ Len(Tail(queue[w])) <= Len(queue[w])
    BY <2>1
  <2>3. /\ queue' = [queue EXCEPT ![w] = Tail(queue[w])]
        /\ \E p \in {"upsert", "probe"} :
             worker' = [worker EXCEPT ![w] = [next |-> p, item |-> Head(queue[w])]]
        /\ vmInFlight' = vmInFlight
    BY <1>2, Zenon DEF WorkerTakes
  <2>4. PICK k \in Items : k = Head(queue[w])
    BY <2>2, Zenon
  <2>5. \A v \in Workers : Len(queue'[v]) <= QueueCap
    BY <1>0, <2>1, <2>2, <2>3 DEF WorkTypes
  <2>6. queue' \in [Workers -> Seq(Items)]
    BY <1>0, <2>2, <2>3, Zenon DEF WorkTypes
  <2> QED
    BY <1>0, <2>3, <2>4, <2>5, <2>6 DEF WorkTypes
<1>3. ASSUME NEW w \in Workers, WorkerUpserts(w) PROVE WorkTypes'
  BY <1>0, <1>3, Zenon DEF WorkerUpserts, memVars, WorkTypes
<1>4. ASSUME NEW w \in Workers, WorkerInserts(w) PROVE WorkTypes'
  BY <1>0, <1>4, Zenon DEF WorkerInserts, memVars, WorkTypes
<1>5. ASSUME NEW w \in Workers, WorkerPushes(w) PROVE WorkTypes'
  BY <1>0, <1>5 DEF WorkerPushes, memVars, WorkTypes
<1>6. ASSUME NEW w \in Workers, WorkerProbes(w) PROVE WorkTypes'
  BY <1>0, <1>6, Zenon DEF WorkerProbes, memVars, WorkTypes
<1>7. CASE VmPushEnds
  BY <1>0, <1>7 DEF VmPushEnds, memVars, WorkTypes
<1>8. CASE Restart
  BY <1>0, <1>8 DEF Restart, WorkTypes
<1>9. CASE UNCHANGED <<queue, worker, vmInFlight>>
  BY <1>0, <1>9, Zenon DEF WorkTypes
<1>10. ASSUME NEW h \in Streams, Handler(h), ~SendToWorker(h) PROVE WorkTypes'
  BY <1>9, <1>10, HandlerFrame, ReceiverFrame, Zenon
<1>11. CASE Checker \/ Lookup
  BY <1>9, <1>11, CheckerFrame, LookupFrame, Zenon
<1>12. CASE Tick \/ UNCHANGED vars
  <2>1. vmInFlight' = vmInFlight
    BY <1>12, Zenon DEF Tick, workVars, vars
  <2> QED
    BY <1>9, <1>12, <2>1, OtherFrame, Zenon
<1> QED
  BY <1>1, <1>2, <1>3, <1>4, <1>5, <1>6, <1>7, <1>8, <1>10, <1>11, <1>12, Zenon
     DEF Next, Worker

\* The tables hold items and the counters count.
LEMMA StoreStep == Types /\ [Next]_vars => StoreTypes'
<1> SUFFICES ASSUME Types, [Next]_vars PROVE StoreTypes'
  BY Zenon
<1> USE Bounds
<1>0. WorkTypes /\ HandlerTypes /\ StoreTypes
  BY Zenon DEF Types
<1>1. ASSUME NEW h \in Streams, SendToWorker(h) PROVE StoreTypes'
  <2>1. PICK x \in Items, n \in Nodes, w \in Workers : Sends(h, x, n, w)
    BY <1>1, SendEffect, Zenon
  <2>2. UNCHANGED <<snaps, probeRows, dbErrors, restarts>>
    BY <1>1, HandlerFrame, Zenon DEF Handler
  <2>3. arrived' = [arrived EXCEPT ![n] = @ + 1]
    BY <2>1, Zenon DEF Sends
  <2>4. dropped' = dropped \/ dropped' = [dropped EXCEPT ![n] = @ + 1]
    BY <2>1, Zenon DEF Sends
  <2>5. arrived' \in [Nodes -> Nat]
    BY <1>0, <2>3 DEF StoreTypes
  <2>6. dropped' \in [Nodes -> Nat]
    BY <1>0, <2>4 DEF StoreTypes
  <2> QED
    BY <1>0, <2>2, <2>5, <2>6, Zenon DEF StoreTypes
<1>2. ASSUME NEW w \in Workers, WorkerInserts(w) PROVE StoreTypes'
  <2> DEFINE x == worker[w].item
  <2>1. x \in Items
    BY <1>0, <1>2, Zenon DEF WorkerInserts, WorkTypes
  <2>n. PICK n \in Nodes : n = x.node
    BY <2>1, Zenon DEF Items
  <2>2. /\ UNCHANGED <<probeRows, dropped, arrived, restarts>>
        /\ snaps' = [snaps EXCEPT ![n] = Append(@, x)] \/ snaps' = snaps
    BY <1>2, <2>n, Zenon DEF WorkerInserts, netVars, memVars, startVars
  <2>e. dbErrors' = [dbErrors EXCEPT ![n] = @ + 1] \/ dbErrors' = dbErrors
    BY <1>2, <2>n, Zenon DEF WorkerInserts
  <2> HIDE DEF x
  <2>3. snaps[n] \in Seq(Items)
    BY <1>0, <2>1, Zenon DEF StoreTypes
  <2>4. Append(snaps[n], x) \in Seq(Items)
    BY <2>1, <2>3
  <2>5. snaps' \in [Nodes -> Seq(Items)]
    BY <1>0, <2>1, <2>2, <2>4, Zenon DEF StoreTypes
  <2>6. dbErrors' \in [Nodes -> Nat]
    <3>1. dbErrors \in [Nodes -> Nat]
      BY <1>0, Zenon DEF StoreTypes
    <3> QED
      BY <2>e, <3>1
  <2> QED
    BY <1>0, <2>2, <2>5, <2>6, Zenon DEF StoreTypes
<1>3. ASSUME NEW w \in Workers, WorkerProbes(w) PROVE StoreTypes'
  <2>1. PICK n \in Nodes : n = worker[w].item.node
    BY <1>0, <1>3, Zenon DEF WorkerProbes, WorkTypes, Items
  <2>2. /\ UNCHANGED <<snaps, dropped, arrived, restarts>>
        /\ \/ probeRows' = [probeRows EXCEPT ![n] = @ + 1]
           \/ probeRows' = probeRows
    BY <1>3, <2>1, Zenon DEF WorkerProbes, netVars, memVars, startVars
  <2>3. dbErrors' = [dbErrors EXCEPT ![n] = @ + 1] \/ dbErrors' = dbErrors
    BY <1>3, <2>1, Zenon DEF WorkerProbes
  <2>4. probeRows' \in [Nodes -> Nat]
    BY <1>0, <2>2 DEF StoreTypes
  <2>5. dbErrors' \in [Nodes -> Nat]
    <3>1. dbErrors \in [Nodes -> Nat]
      BY <1>0, Zenon DEF StoreTypes
    <3> QED
      BY <2>3, <3>1
  <2> QED
    BY <1>0, <2>2, <2>4, <2>5, Zenon DEF StoreTypes
<1>4. CASE Restart
  <2>1. \A n \in Nodes : Len(snaps[n]) + probeRows[n] \in Nat
    BY <1>0 DEF StoreTypes
  <2> QED
    BY <1>0, <1>4, <2>1 DEF Restart, dbVars, StoreTypes
<1>5. CASE UNCHANGED <<snaps, probeRows, dropped, dbErrors, arrived, restarts>>
  BY <1>0, <1>5, Zenon DEF StoreTypes
<1>6. ASSUME NEW h \in Streams, Handler(h), ~SendToWorker(h) PROVE StoreTypes'
  BY <1>5, <1>6, HandlerFrame, ReceiverFrame, Zenon
<1>7. ASSUME NEW w \in Workers, WorkerTakes(w) \/ WorkerUpserts(w) \/ WorkerPushes(w)
      PROVE  StoreTypes'
  <2>1. UNCHANGED <<dropped, arrived, restarts>>
    BY <1>7, WorkerFrame, Zenon DEF Worker
  <2>2. UNCHANGED <<snaps, probeRows, dbErrors>>
    BY <1>7, Zenon DEF WorkerTakes, WorkerUpserts, WorkerPushes, dbVars
  <2> QED
    BY <1>5, <2>1, <2>2, Zenon
<1>8. CASE VmPushEnds \/ Tick \/ UNCHANGED vars
  BY <1>5, <1>8, OtherFrame, Zenon
<1>9. CASE Checker \/ Lookup
  BY <1>5, <1>9, CheckerFrame, LookupFrame, Zenon
<1> QED
  BY <1>1, <1>2, <1>3, <1>4, <1>6, <1>7, <1>8, <1>9, Zenon DEF Next, Worker

\* What is loaded from the database is an entry; it is known when it has a row.
LEMMA LoadedIsEntry ==
  ASSUME RegistryTypes, StoreTypes, NEW n \in Nodes, NEW e \in LoadNode(n)
  PROVE  e \in Entries /\ (HasRow(n) => e.status # "absent")
<1> USE Bounds
<1>1. CASE ~HasRow(n)
  BY <1>1 DEF LoadNode, Absent, Entries, Statuses
<1>2. CASE HasRow(n)
  <2>1. snaps[n] \in Seq(Items) /\ nodeRows[n] \in Rows
    BY Zenon DEF StoreTypes, RegistryTypes
  <2>2. \A x \in Range(snaps[n]) : x.id \in Nat
    <3>1. \A x \in Range(snaps[n]) : x \in Items
      BY <2>1 DEF Range
    <3> QED
      BY <3>1, Zenon DEF Items
  <2>3. PICK st \in Nat : e = [status |-> nodeRows[n].status, seen |-> nodeRows[n].seen,
                               stats |-> st]
    <3> DEFINE latest == {x \in Range(snaps[n]) : \A y \in Range(snaps[n]) : y.ts <= x.ts}
               ids == IF snaps[n] = <<>> THEN {0} ELSE {x.id : x \in latest}
    <3>1. ids \subseteq Nat
      BY <2>2
    <3>2. e \in {[status |-> nodeRows[n].status, seen |-> nodeRows[n].seen, stats |-> st] :
                   st \in ids}
      BY <1>2, Zenon DEF LoadNode
    <3> HIDE DEF ids
    <3> QED
      BY <3>1, <3>2, Zenon
  <2> QED
    BY <1>2, <2>1, <2>3 DEF Rows, Entries, HasRow
<1> QED
  BY <1>1, <1>2, Zenon

\* Rows and entries keep their types: times are those of the clock, or a
\* message's, and a lookup holds what it has read.
LEMMA RegistryStep == Types /\ [Next]_vars => RegistryTypes'
<1> SUFFICES ASSUME Types, [Next]_vars PROVE RegistryTypes'
  BY Zenon
<1> USE Bounds
<1>0. WorkTypes /\ HandlerTypes /\ StoreTypes /\ RegistryTypes /\ CheckerTypes
  BY Zenon DEF Types
<1>t. now \in 0 .. MaxTime /\ msgs \in Nat
  BY <1>0 DEF HandlerTypes
<1>a. Absent \in Entries
  BY DEF Absent, Entries, Statuses
<1>1. ASSUME NEW h \in Streams, NEW ts \in Timestamps, StatsReceived(h, ts)
      PROVE  RegistryTypes'
  <2>1. [status |-> "online", seen |-> ts, stats |-> msgs + 1] \in Entries
    BY <1>t DEF Timestamps, Entries, Statuses
  <2>2. registry' \in [Nodes -> Entries]
    BY <1>0, <1>1, <2>1, Zenon DEF StatsReceived, RegistryTypes
  <2> QED
    BY <1>0, <1>1, <2>2, Zenon DEF StatsReceived, RegistryTypes, dbVars, apiVars
<1>2. ASSUME NEW h \in Streams, NEW ts \in Timestamps, HeartbeatReceived(h, ts)
      PROVE  RegistryTypes'
  <2>1. PICK n \in Nodes : n = NodeOf[h]
    BY ServerAssumption, Zenon
  <2>2. ts \in 0 .. MaxTime + MaxAhead
    BY <1>t DEF Timestamps
  <2>3. [registry[n] EXCEPT !.seen = ts, !.status = "online"] \in Entries
    <3>1. registry[n] \in Entries
      BY <1>0, Zenon DEF RegistryTypes
    <3> QED
      BY <2>2, <3>1, Zenon DEF Entries, Statuses
  <2>4. \/ registry' = registry
        \/ registry' = [registry EXCEPT ![n] = [registry[n] EXCEPT !.seen = ts, !.status = "online"]]
    BY <1>2, <2>1, Zenon DEF HeartbeatReceived
  <2>5. registry \in [Nodes -> Entries]
    BY <1>0, Zenon DEF RegistryTypes
  <2>6. registry' \in [Nodes -> Entries]
    BY <2>3, <2>4, <2>5, Zenon
  <2> QED
    BY <1>0, <1>2, <2>6, Zenon DEF HeartbeatReceived, RegistryTypes, dbVars, apiVars
<1>3. ASSUME NEW n \in Nodes, NEW st \in {"online", "offline"}, UpsertNode(n, st),
             UNCHANGED <<registry, lookup, lookups>>
      PROVE  RegistryTypes'
  <2>1. [status |-> st, seen |-> now] \in Rows
    BY <1>t, Zenon DEF Rows, Statuses
  <2> QED
    BY <1>0, <1>3, <2>1, Zenon DEF UpsertNode, RegistryTypes
<1>4. CASE UNCHANGED <<registry, nodeRows, lookup, lookups>>
  BY <1>0, <1>4, Zenon DEF RegistryTypes
<1>5. ASSUME NEW w \in Workers, WorkerUpserts(w) PROVE RegistryTypes'
  <2>1. PICK n \in Nodes : n = worker[w].item.node
    BY <1>0, <1>5, Zenon DEF WorkerUpserts, WorkTypes, Items
  <2> QED
    BY <1>3, <1>4, <1>5, <2>1, Zenon DEF WorkerUpserts, memVars, apiVars
<1>6. CASE CheckerUpserts
  <2>1. PICK n \in Nodes : n = Head(checker.todo)
    BY <1>0, <1>6 DEF CheckerUpserts, CheckerTypes
  <2> QED
    BY <1>3, <1>4, <1>6, <2>1, Zenon DEF CheckerUpserts, memVars, apiVars
<1>7. CASE CheckerScans
  <2>1. \A n \in Nodes : /\ registry[n] \in Entries
                         /\ [registry[n] EXCEPT !.status = "offline"] \in Entries
    BY <1>0, Zenon DEF RegistryTypes, Entries, Statuses
  <2>2. registry' \in [Nodes -> Entries]
    BY <1>7, <2>1, Zenon DEF CheckerScans
  <2> QED
    BY <1>0, <1>7, <2>2, Zenon DEF CheckerScans, RegistryTypes, dbVars, apiVars
<1>8. CASE Restart
  <2>1. registry' \in [Nodes -> Entries]
    <3>1. CASE registry' \in {r \in [Nodes -> UNION {LoadNode(n) : n \in Nodes}] :
                                \A n \in Nodes : r[n] \in LoadNode(n)}
      <4>1. \A n \in Nodes : registry'[n] \in Entries
        BY <1>0, <3>1, LoadedIsEntry, Zenon
      <4> QED
        BY <3>1, <4>1, Zenon
    <3>2. CASE registry' = [n \in Nodes |-> Absent]
      BY <1>a, <3>2, Zenon
    <3> QED
      BY <1>8, <3>1, <3>2, Zenon DEF Restart
  <2> QED
    BY <1>0, <1>a, <1>8, <2>1, Zenon DEF Restart, RegistryTypes, dbVars, NoLookup
<1>9. ASSUME NEW n \in Nodes, LookupMisses(n) PROVE RegistryTypes'
  BY <1>0, <1>a, <1>9 DEF LookupMisses, RegistryTypes, memVars, dbVars
<1>10. CASE LookupQueries
  <2>1. CASE lookup' = NoLookup
    BY <1>0, <1>a, <1>10, <2>1, LookupEffect, Zenon DEF RegistryTypes, NoLookup
  <2>2. CASE lookup' # NoLookup
    <3>1. PICK n \in Nodes : n = lookup.node
      BY <1>0, <1>10, Zenon DEF LookupQueries, RegistryTypes
    <3>2. PICK e \in LoadNode(n) : lookup' = [lookup EXCEPT !.next = "insert", !.found = e]
      BY <1>10, <2>2, <3>1, LookupEffect, Zenon
    <3>3. e \in Entries
      BY <1>0, LoadedIsEntry, Zenon
    <3> QED
      BY <1>0, <1>10, <3>1, <3>2, <3>3, LookupEffect, Zenon DEF RegistryTypes
  <2> QED
    BY <2>1, <2>2, Zenon
<1>11. CASE LookupInserts
  <2>1. lookup.found \in Entries
    BY <1>0, Zenon DEF RegistryTypes
  <2> QED
    BY <1>0, <1>a, <1>11, <2>1, Zenon DEF LookupInserts, RegistryTypes, dbVars, NoLookup
<1>12. ASSUME NEW h \in Streams, BroadcastStats(h) \/ ProbeReceived(h) \/ SendToWorker(h)
       PROVE  RegistryTypes'
  <2>1. UNCHANGED <<nodeRows, lookup, lookups>>
    BY <1>12, HandlerFrame, Zenon DEF Handler
  <2>2. registry' = registry
    BY <1>12, Zenon DEF BroadcastStats, ProbeReceived, SendToWorker, memVars
  <2> QED
    BY <1>4, <2>1, <2>2, Zenon
<1>13. ASSUME NEW w \in Workers, Worker(w), ~WorkerUpserts(w) PROVE RegistryTypes'
  BY <1>4, <1>13, WorkerFrame, Zenon DEF Worker
<1>14. CASE VmPushEnds \/ Tick \/ UNCHANGED vars
  BY <1>4, <1>14, OtherFrame, Zenon
<1>15. CASE CheckerBroadcasts
  BY <1>4, <1>15, Zenon DEF CheckerBroadcasts, memVars, dbVars, apiVars
<1> QED
  BY <1>1, <1>2, <1>5, <1>6, <1>7, <1>8, <1>9, <1>10, <1>11, <1>12, <1>13, <1>14,
     <1>15, Zenon
     DEF Next, Handler, Worker, Checker, Lookup

\* The checker works through a list of nodes.
LEMMA CheckerStep == Types /\ [Next]_vars => CheckerTypes'
<1> SUFFICES ASSUME Types, [Next]_vars PROVE CheckerTypes'
  BY Zenon
<1>0. CheckerTypes
  BY Zenon DEF Types
<1>1. CASE CheckerScans
  <2> DEFINE S == {n \in Nodes : TimedOut(n)}
  <2>1. PICK order \in Orders(S) : checker' = [next |-> "upsert", todo |-> order]
    BY <1>1, Zenon DEF CheckerScans
  <2>2. S # {} /\ S \subseteq Nodes
    BY <1>1, Zenon DEF CheckerScans
  <2> HIDE DEF S
  <2>3. PICK k \in Nat : order \in Bijection(1 .. k, S)
    BY DEF Orders
  <2>4. order \in [1 .. k -> S] /\ \A n \in S : \E i \in 1 .. k : order[i] = n
    BY <2>3, Zenon DEF Bijection, Injection, Surjection
  <2>5. order \in Seq(Nodes) /\ Len(order) = k
    BY <2>2, <2>4
  <2>6. order # <<>>
    BY <2>2, <2>4, <2>5
  <2> QED
    BY <2>1, <2>5, <2>6, Zenon DEF CheckerTypes
<1>2. CASE CheckerUpserts
  BY <1>0, <1>2, Zenon DEF CheckerUpserts, CheckerTypes
<1>3. CASE CheckerBroadcasts
  BY <1>0, <1>3 DEF CheckerBroadcasts, CheckerTypes
<1>4. CASE Restart
  BY <1>4 DEF Restart, CheckerTypes
<1>5. CASE UNCHANGED checker
  BY <1>0, <1>5, Zenon DEF CheckerTypes
<1>6. CASE (\E h \in Streams : Handler(h)) \/ (\E w \in Workers : Worker(w)) \/ Lookup
  BY <1>5, <1>6, HandlerFrame, WorkerFrame, LookupFrame, Zenon
<1>7. CASE VmPushEnds \/ Tick \/ UNCHANGED vars
  BY <1>5, <1>7, OtherFrame, Zenon
<1> QED
  BY <1>1, <1>2, <1>3, <1>4, <1>6, <1>7, Zenon DEF Next, Checker

\* Every step keeps the types.
LEMMA TypesHold ==
  /\ Init => Types
  /\ Types /\ [Next]_vars => Types'
BY InitTypes, HandlerStep, WorkStep, StoreStep, RegistryStep, CheckerStep, Zenon DEF Types

\* Every variable of the server keeps its type, queues their capacity and the
\* pushes to VictoriaMetrics their permits.
THEOREM TypeCorrect == Spec => []TypeOK
<1>1. Types => TypeOK
  <2> SUFFICES ASSUME Types PROVE TypeOK
    BY Zenon
  <2>1. \A n \in Nodes : registry[n] \in Entries /\ nodeRows[n] \in Rows
    BY Zenon DEF Types, RegistryTypes
  <2>2. \A n \in Nodes : /\ registry[n].status \in Statuses
                         /\ registry[n].seen \in 0 .. MaxTime + MaxAhead
                         /\ nodeRows[n].status \in Statuses
                         /\ nodeRows[n].seen \in 0 .. MaxTime
    BY <2>1, Zenon DEF Entries, Rows
  <2>3. /\ now \in 0 .. MaxTime /\ msgs \in 0 .. MaxMsgs
        /\ \A h \in Streams : handler[h].next \in {"recv", "enqueue", "broadcast"}
    BY Zenon DEF Types, HandlerTypes
  <2>4. /\ \A w \in Workers : /\ Len(queue[w]) <= QueueCap
                             /\ worker[w].next \in {"recv", "upsert", "insert", "push", "probe"}
        /\ vmInFlight \in 0 .. VmPermits
    BY Zenon DEF Types, WorkTypes
  <2>5. /\ checker.next \in {"tick", "upsert", "broadcast"}
        /\ lookup.next \in {"idle", "query", "insert"}
        /\ lookups \in 0 .. MaxLookups /\ restarts \in 0 .. MaxRestarts
    BY Zenon DEF Types, StoreTypes, RegistryTypes, CheckerTypes
  <2> QED
    BY <2>2, <2>3, <2>4, <2>5, Zenon DEF TypeOK
<1> QED
  BY <1>1, TypesHold, PTL DEF Spec

-----------------------------------------------------------------------------
(* Nodes of the database are known.                                        *)

\* Only a restart makes a known node unknown.
LEMMA KnownStaysKnown ==
  ASSUME Types, Registered, [Next]_vars, ~Restart, NEW n \in Nodes,
         registry[n].status # "absent"
  PROVE  registry'[n].status # "absent"
<1>0. registry \in [Nodes -> Entries]
  BY Zenon DEF Types, RegistryTypes
<1>1. ASSUME NEW h \in Streams, NEW ts \in Timestamps, StatsReceived(h, ts)
      PROVE  registry'[n].status # "absent"
  BY <1>0, <1>1, Zenon DEF StatsReceived
<1>2. ASSUME NEW h \in Streams, NEW ts \in Timestamps, HeartbeatReceived(h, ts)
      PROVE  registry'[n].status # "absent"
  BY <1>0, <1>2, Zenon DEF HeartbeatReceived, Entries
<1>3. ASSUME NEW h \in Streams, ProbeReceived(h) PROVE registry' = registry
  BY <1>3, Zenon DEF ProbeReceived, memVars
<1>4. ASSUME NEW h \in Streams, SendToWorker(h) PROVE registry' = registry
  BY <1>4, Zenon DEF SendToWorker
<1>5. ASSUME NEW h \in Streams, BroadcastStats(h) PROVE registry' = registry
  BY <1>5, Zenon DEF BroadcastStats, memVars
<1>6. CASE CheckerScans
  <2>1. registry'[n] = IF TimedOut(n) THEN [registry[n] EXCEPT !.status = "offline"]
                       ELSE registry[n]
    BY <1>6, Zenon DEF CheckerScans
  <2> QED
    BY <1>0, <2>1, Zenon DEF Entries
<1>7. CASE CheckerUpserts \/ CheckerBroadcasts
  BY <1>7, Zenon DEF CheckerUpserts, CheckerBroadcasts, memVars
<1>8. CASE LookupInserts
  <2>1. registry' = [registry EXCEPT ![lookup.node] = lookup.found]
        /\ lookup.found.status # "absent"
    BY <1>8, Zenon DEF LookupInserts, Registered
  <2> QED
    BY <1>0, <2>1, Zenon
<1>9. CASE LookupQueries \/ \E m \in Nodes : LookupMisses(m)
  BY <1>9, LookupEffect, Zenon DEF LookupMisses, memVars
<1> QED
  BY <1>1, <1>2, <1>3, <1>4, <1>5, <1>6, <1>7, <1>8, <1>9, WorkerFrame, OtherFrame, Zenon
     DEF Next, Handler, Checker, Lookup

\* What has a row or comes to have one did so before, or was just registered.
LEMMA RowsAreAnnounced ==
  ASSUME Types, [Next]_vars, ~Restart, NEW n \in Nodes, (HasRow(n) \/ Coming(n))'
  PROVE  HasRow(n) \/ Coming(n) \/ registry'[n].status # "absent"
<1>0. WorkTypes /\ HandlerTypes /\ RegistryTypes /\ CheckerTypes
  BY Zenon DEF Types
<1>1. ASSUME NEW h \in Streams, NEW ts \in Timestamps, StatsReceived(h, ts)
      PROVE  HasRow(n) \/ Coming(n) \/ registry'[n].status # "absent"
  <2>1. CASE n = NodeOf[h]
    BY <1>0, <1>1, <2>1, Zenon DEF StatsReceived, RegistryTypes
  <2>2. CASE n # NodeOf[h]
    <3>1. UNCHANGED <<nodeRows, worker, checker, queue>>
      BY <1>1, Zenon DEF StatsReceived, workVars, dbVars
    <3>2. \A g \in Streams : handler'[g] = handler[g] \/ handler'[g].item.node # n
      BY <1>0, <1>1, <2>2, Zenon DEF StatsReceived, HandlerTypes
    <3> QED
      BY <3>1, <3>2, Zenon DEF HasRow, Coming
  <2> QED
    BY <2>1, <2>2, Zenon
<1>2. ASSUME NEW h \in Streams, NEW ts \in Timestamps, HeartbeatReceived(h, ts)
      PROVE  HasRow(n) \/ Coming(n)
  BY <1>2, Zenon DEF HeartbeatReceived, workVars, dbVars, HasRow, Coming
<1>3. ASSUME NEW h \in Streams, ProbeReceived(h) PROVE HasRow(n) \/ Coming(n)
  <2>1. UNCHANGED <<nodeRows, worker, checker, queue>>
    BY <1>3, Zenon DEF ProbeReceived, memVars, workVars, dbVars
  <2>2. \A g \in Streams : handler'[g] = handler[g] \/ handler'[g].item.kind # "stats"
    BY <1>0, <1>3, Zenon DEF ProbeReceived, HandlerTypes
  <2> QED
    BY <2>1, <2>2, Zenon DEF HasRow, Coming
<1>4. ASSUME NEW h \in Streams, SendToWorker(h) PROVE HasRow(n) \/ Coming(n)
  <2>1. PICK x \in Items, m \in Nodes, w \in Workers : Sends(h, x, m, w)
    BY <1>4, SendEffect, Zenon
  <2>2. UNCHANGED <<nodeRows, worker, checker>>
    BY <1>4, HandlerFrame, Zenon DEF Handler
  <2>3. handler[h].next = "enqueue" /\ x = handler[h].item
    BY <2>1, Zenon DEF Sends
  <2>4. \A g \in Streams : handler'[g] = handler[g] \/ handler'[g].next # "enqueue"
    BY <2>1, Zenon DEF Sends
  <2>5. queue' = queue \/ queue' = [queue EXCEPT ![w] = Append(queue[w], x)]
    BY <2>1, Zenon DEF Sends
  <2>6. \A v \in Workers : \A i \in DOMAIN queue'[v] :
          (i \in DOMAIN queue[v] /\ queue'[v][i] = queue[v][i]) \/ queue'[v][i] = x
    <3>1. queue \in [Workers -> Seq(Items)]
      BY <1>0, Zenon DEF WorkTypes
    <3>2. CASE queue' = queue
      BY <3>2, Zenon
    <3>3. CASE queue' = [queue EXCEPT ![w] = Append(queue[w], x)]
      <4>1. \A i \in DOMAIN Append(queue[w], x) :
              \/ i \in DOMAIN queue[w] /\ Append(queue[w], x)[i] = queue[w][i]
              \/ Append(queue[w], x)[i] = x
        BY <3>1, SMTT(30)
      <4> QED
        BY <3>1, <3>3, <4>1, Zenon
    <3> QED
      BY <2>5, <3>2, <3>3, Zenon
  <2>7. ASSUME NEW v \in Workers, NEW i \in DOMAIN queue'[v],
               queue'[v][i].kind = "stats", queue'[v][i].node = n
        PROVE  Coming(n)
    <3>1. CASE queue'[v][i] = x
      BY <2>3, <2>7, <3>1, Zenon DEF Coming
    <3> QED
      BY <2>6, <2>7, <3>1, Zenon DEF Coming
  <2> QED
    BY <2>2, <2>4, <2>7, Zenon DEF HasRow, Coming
<1>5. ASSUME NEW h \in Streams, BroadcastStats(h) PROVE HasRow(n) \/ Coming(n)
  <2>1. UNCHANGED <<nodeRows, worker, checker, queue>>
    BY <1>5, Zenon DEF BroadcastStats, memVars, workVars, dbVars
  <2>2. \A g \in Streams : handler'[g] = handler[g] \/ handler'[g].next # "enqueue"
    BY <1>0, <1>5, Zenon DEF BroadcastStats, HandlerTypes
  <2> QED
    BY <2>1, <2>2, Zenon DEF HasRow, Coming
<1>6. ASSUME NEW w \in Workers, WorkerTakes(w) PROVE HasRow(n) \/ Coming(n)
  <2>1. UNCHANGED <<nodeRows, handler, checker>>
    BY <1>6, Zenon DEF WorkerTakes, netVars, dbVars
  <2>2. queue[w] \in Seq(Items) /\ queue[w] # <<>>
    BY <1>0, <1>6, Zenon DEF WorkerTakes, WorkTypes
  <2>3. queue' = [queue EXCEPT ![w] = Tail(queue[w])]
    BY <1>6, Zenon DEF WorkerTakes
  <2>4. ASSUME NEW v \in Workers, NEW i \in DOMAIN queue'[v]
        PROVE  \E j \in DOMAIN queue[v] : queue'[v][i] = queue[v][j]
    <3>1. \A k \in DOMAIN Tail(queue[w]) :
            k + 1 \in DOMAIN queue[w] /\ Tail(queue[w])[k] = queue[w][k + 1]
      BY <2>2
    <3> QED
      BY <1>0, <2>3, <2>4, <3>1, Zenon DEF WorkTypes
  <2>5. ASSUME NEW v \in Workers, worker'[v].next = "upsert", worker'[v].item.node = n
        PROVE  Coming(n)
    <3>1. CASE v # w
      BY <1>0, <1>6, <2>5, <3>1, Zenon DEF WorkerTakes, WorkTypes, Coming
    <3>2. CASE v = w
      <4>1. 1 \in DOMAIN queue[w] /\ Head(queue[w]) = queue[w][1]
        BY <2>2
      <4>2. Head(queue[w]).kind = "stats" /\ Head(queue[w]).node = n
        BY <1>0, <1>6, <2>5, <3>2, Zenon DEF WorkerTakes, WorkTypes
      <4> QED
        BY <4>1, <4>2, Zenon DEF Coming
    <3> QED
      BY <3>1, <3>2, Zenon
  <2> QED
    BY <2>1, <2>4, <2>5 DEF HasRow, Coming
<1>7. ASSUME NEW w \in Workers, WorkerUpserts(w) PROVE HasRow(n) \/ Coming(n)
  <2>1. UNCHANGED <<handler, checker, queue>>
    BY <1>7, Zenon DEF WorkerUpserts, netVars, memVars
  <2>2. \A v \in Workers : worker'[v] = worker[v] \/ worker'[v].next # "upsert"
    BY <1>0, <1>7, Zenon DEF WorkerUpserts, WorkTypes
  <2>3. CASE n = worker[w].item.node
    BY <1>7, <2>3, Zenon DEF WorkerUpserts, Coming
  <2>4. CASE n # worker[w].item.node
    <3>1. nodeRows'[n] = nodeRows[n]
      BY <1>0, <1>7, <2>4, Zenon DEF WorkerUpserts, UpsertNode, RegistryTypes
    <3> QED
      BY <2>1, <2>2, <3>1, Zenon DEF HasRow, Coming
  <2> QED
    BY <2>3, <2>4, Zenon
<1>8. ASSUME NEW w \in Workers, WorkerInserts(w) \/ WorkerPushes(w) \/ WorkerProbes(w)
      PROVE  HasRow(n) \/ Coming(n)
  <2>1. UNCHANGED <<handler, checker>>
    BY <1>8, WorkerFrame, Zenon DEF Worker
  <2>2. UNCHANGED <<nodeRows, queue>>
    BY <1>8, Zenon DEF WorkerInserts, WorkerPushes, WorkerProbes, memVars, dbVars
  <2>3. \A v \in Workers : worker'[v] = worker[v] \/ worker'[v].next # "upsert"
    <3>1. CASE WorkerInserts(w)
      BY <1>0, <3>1, Zenon DEF WorkerInserts, WorkTypes
    <3>2. CASE WorkerPushes(w)
      BY <1>0, <3>2, Zenon DEF WorkerPushes, WorkTypes
    <3>3. CASE WorkerProbes(w)
      BY <1>0, <3>3, Zenon DEF WorkerProbes, WorkTypes
    <3> QED
      BY <1>8, <3>1, <3>2, <3>3, Zenon
  <2> QED
    BY <2>1, <2>2, <2>3, Zenon DEF HasRow, Coming
<1>9. CASE CheckerScans
  <2>1. UNCHANGED <<handler, worker, queue, nodeRows>>
    BY <1>9, Zenon DEF CheckerScans, netVars, workVars, dbVars
  <2>2. ASSUME NEW i \in DOMAIN checker'.todo, checker'.todo[i] = n
        PROVE  registry'[n].status # "absent"
    <3>1. PICK order \in Orders({m \in Nodes : TimedOut(m)}) :
            checker' = [next |-> "upsert", todo |-> order]
      BY <1>9, Zenon DEF CheckerScans
    <3>2. TimedOut(n)
      BY <2>2, <3>1, Zenon DEF Orders, Bijection, Injection
    <3> QED
      BY <1>0, <1>9, <3>2, Zenon DEF CheckerScans, RegistryTypes, Entries
  <2> QED
    BY <2>1, <2>2, Zenon DEF HasRow, Coming
<1>10. CASE CheckerUpserts
  <2>1. UNCHANGED <<handler, worker, queue>> /\ checker'.todo = checker.todo
    BY <1>0, <1>10, Zenon DEF CheckerUpserts, netVars, memVars, workVars, CheckerTypes
  <2>2. 1 \in DOMAIN checker.todo /\ Head(checker.todo) = checker.todo[1]
    BY <1>0, <1>10 DEF CheckerUpserts, CheckerTypes
  <2>3. CASE n = Head(checker.todo)
    BY <2>2, <2>3, Zenon DEF Coming
  <2>4. CASE n # Head(checker.todo)
    <3>1. nodeRows'[n] = nodeRows[n]
      BY <1>0, <1>10, <2>4, Zenon DEF CheckerUpserts, UpsertNode, RegistryTypes
    <3> QED
      BY <2>1, <3>1, Zenon DEF HasRow, Coming
  <2> QED
    BY <2>3, <2>4, Zenon
<1>11. CASE CheckerBroadcasts
  <2>1. UNCHANGED <<handler, worker, queue, nodeRows>>
    BY <1>11, Zenon DEF CheckerBroadcasts, netVars, memVars, workVars, dbVars
  <2>2. \A i \in DOMAIN checker'.todo : \E j \in DOMAIN checker.todo :
          checker'.todo[i] = checker.todo[j]
    <3>1. checker.todo \in Seq(Nodes) /\ checker.todo # <<>>
      BY <1>0, <1>11, Zenon DEF CheckerBroadcasts, CheckerTypes
    <3>2. \A k \in DOMAIN Tail(checker.todo) :
            k + 1 \in DOMAIN checker.todo /\ Tail(checker.todo)[k] = checker.todo[k + 1]
      BY <3>1
    <3>3. checker'.todo = Tail(checker.todo)
      BY <1>11, Zenon DEF CheckerBroadcasts
    <3> QED
      BY <3>2, <3>3, Zenon
  <2> QED
    BY <2>1, <2>2, Zenon DEF HasRow, Coming
<1>12. CASE Lookup \/ VmPushEnds \/ Tick \/ UNCHANGED vars
  <2>1. UNCHANGED <<handler, worker, queue, nodeRows, checker>>
    BY <1>12, LookupFrame, OtherFrame, Zenon
  <2> QED
    BY <2>1, Zenon DEF HasRow, Coming
<1> QED
  BY <1>1, <1>2, <1>3, <1>4, <1>5, <1>6, <1>7, <1>8, <1>9, <1>10, <1>11, <1>12, Zenon
     DEF Next, Handler, Worker, Checker

\* The registry stays ahead of the table nodes.
LEMMA RegisteredHolds ==
  /\ Init => Registered
  /\ Types /\ Registered /\ [Next]_vars => Registered'
<1>1. Init => Registered
  BY DEF Init, Registered, NoLookup, Coming, HasRow
<1>2. ASSUME Types, Registered, [Next]_vars PROVE Registered'
  <2>0. RegistryTypes /\ StoreTypes
    BY <1>2, Zenon DEF Types
  <2>1. CASE Restart
    <3>1. lookup'.next # "insert"
      BY <2>1, Zenon DEF Restart, NoLookup
    <3>2. \A n \in Nodes : Coming(n)' = FALSE
      BY <2>1 DEF Restart, Coming
    <3>3. ASSUME ~loadFailed', NEW n \in Nodes, HasRow(n)' PROVE registry'[n].status # "absent"
      <4>1. HasRow(n)
        BY <2>1, <3>3, Zenon DEF Restart, dbVars, HasRow
      <4>2. registry'[n] \in LoadNode(n)
        BY <2>1, <3>3, Zenon DEF Restart
      <4> QED
        BY <2>0, <4>1, <4>2, LoadedIsEntry, Zenon
    <3> QED
      BY <3>1, <3>2, <3>3, Zenon DEF Registered
  <2>2. CASE ~Restart
    <3>1. loadFailed' = loadFailed
      BY <1>2, <2>2, HandlerFrame, WorkerFrame, CheckerFrame, LookupFrame, OtherFrame, Zenon
         DEF Next
    <3>2. ASSUME ~loadFailed, NEW n \in Nodes, (HasRow(n) \/ Coming(n))'
          PROVE  registry'[n].status # "absent"
      BY <1>2, <2>2, <3>2, RowsAreAnnounced, KnownStaysKnown, Zenon DEF Registered
    <3>3. lookup'.next = "insert" => lookup'.found.status # "absent"
      <4>1. CASE LookupQueries
        <5>1. CASE lookup' = NoLookup
          BY <5>1, Zenon DEF NoLookup
        <5>2. CASE lookup' # NoLookup
          <6>0. lookup.node \in Nodes
            BY <2>0, <4>1, Zenon DEF LookupQueries, RegistryTypes
          <6>1. PICK n \in Nodes : n = lookup.node /\ HasRow(n)
            BY <4>1, <5>2, <6>0, LookupEffect, Zenon
          <6>2. PICK e \in LoadNode(n) : lookup' = [lookup EXCEPT !.next = "insert", !.found = e]
            BY <4>1, <5>2, <6>1, LookupEffect, Zenon
          <6>3. e.status # "absent"
            BY <2>0, <6>1, LoadedIsEntry, Zenon
          <6> QED
            BY <2>0, <6>2, <6>3, Zenon DEF RegistryTypes
        <5> QED
          BY <5>1, <5>2, Zenon
      <4>2. CASE LookupInserts \/ \E n \in Nodes : LookupMisses(n)
        BY <4>2 DEF LookupInserts, LookupMisses, NoLookup
      <4>3. CASE UNCHANGED lookup
        BY <1>2, <4>3, Zenon DEF Registered
      <4> QED
        BY <1>2, <2>2, <4>1, <4>2, <4>3, HandlerFrame, WorkerFrame, CheckerFrame, OtherFrame, Zenon
           DEF Next, Lookup
    <3> QED
      BY <3>1, <3>2, <3>3, Zenon DEF Registered
  <2> QED
    BY <2>1, <2>2, Zenon
<1> QED
  BY <1>1, <1>2, Zenon

\* A node of the database is in the registry, however handlers, workers, the
\* checker, lookups and restarts interleave, unless loading it failed.
THEOREM DatabaseNodesKnown == Spec => []DatabaseNodesAreKnown
<1>1. Registered => DatabaseNodesAreKnown
  BY Zenon DEF Registered, DatabaseNodesAreKnown
<1> QED
  BY <1>1, TypesHold, RegisteredHolds, PTL DEF Spec

=============================================================================
