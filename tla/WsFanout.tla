----------------------------- MODULE WsFanout -----------------------------
(***************************************************************************)
(* The WebSocket fan-out of pulse-server (ws.rs): a handler subscribes to  *)
(* the broadcast channel, reads the registry for the init message and then *)
(* forwards updates.  Two kinds of task publish: a stream handler, which   *)
(* first replaces the registry entry, and the liveness checker, which      *)
(* republishes what it found when it marked a node offline.  A third kind  *)
(* writes the registry without publishing: GET /nodes/:id (api.rs), which  *)
(* fills a missing entry with the node's row in the database.              *)
(*                                                                         *)
(* A snapshot is the number it has among the snapshots this process has    *)
(* received from its node; 0 stands for anything older: the statistics of  *)
(* a row written before the process started, or no statistics at all.  The *)
(* channel (tokio::sync::broadcast, external) keeps the last ChanCap       *)
(* updates; a receiver that falls behind is told so once and continues     *)
(* with the oldest one kept.                                               *)
(***************************************************************************)
EXTENDS Integers, Sequences

CONSTANTS
  Nodes,
  Clients,
  Requests,     \* GET /nodes/:id requests that may be served at a time
  Interest,     \* the nodes a client's filter lets through
  ChanCap,      \* capacity of the broadcast channel; 256 in state.rs
  MaxSnapshots, \* bound: snapshots of each node
  MaxUpdates    \* bound: updates broadcast

ASSUME WsAssumption ==
  /\ Interest \in [Clients -> SUBSET Nodes]
  /\ ChanCap \in Nat \ {0}
  /\ MaxSnapshots \in [Nodes -> Nat]
  /\ MaxUpdates \in Nat

VARIABLES
  registry,   \* snapshot in each node's entry
  status,     \* status in it; "absent" if there is no entry
  latest,     \* history: newest snapshot received from each node
  unsent,     \* snapshot registered but not yet broadcast; 0 for none
  noted,      \* what the checker is about to republish
  log,        \* everything broadcast; the channel holds the end of it
  unloaded,   \* nodes with a row that the start failed to load
  lookup,     \* what each GET /nodes/:id request is doing
  task,       \* what each client's tasks are doing
  cursor,     \* index in log of the receiver's next update
  unread,     \* registry entries still to be read for the init message
  init,       \* the init message being built
  shown,      \* the snapshots each client has been sent
  since,      \* history: index in log at which the client subscribed
  missed,     \* history: snapshots the receiver skipped, overwritten unread
  hidden      \* history: newest snapshot, if the init message read an older one

clientVars == <<task, cursor, unread, init, shown, since, missed, hidden>>
serverVars == <<registry, status, latest, unsent, noted, log, unloaded, lookup>>
vars == <<serverVars, clientVars>>

None == -1
Snapshots == Nat
Lookups ==
  [next : {"idle"}] \cup [next : {"query"}, node : Nodes]
    \cup [next : {"insert"}, node : Nodes, snapshot : Snapshots, status : {"online", "offline"}]

TypeOK ==
  /\ registry \in [Nodes -> Snapshots]
  /\ status \in [Nodes -> {"absent", "online", "offline"}]
  /\ latest \in [Nodes -> Snapshots]
  /\ unsent \in [Nodes -> Snapshots]
  /\ noted \in [Nodes -> Snapshots \cup {None}]
  /\ log \in Seq([node : Nodes, snapshot : Snapshots])
  /\ unloaded \in SUBSET Nodes
  /\ lookup \in [Requests -> Lookups]
  /\ task \in [Clients -> {"none", "init", "open", "detached", "ended"}]
  /\ cursor \in [Clients -> 1 .. Len(log) + 1]
  /\ unread \in [Clients -> SUBSET Nodes]
  /\ init \in [Clients -> [Nodes -> Snapshots]]
  /\ shown \in [Clients -> [Nodes -> SUBSET Snapshots]]
  /\ since \in [Clients -> 1 .. Len(log) + 1]
  /\ missed \in [Clients -> [Nodes -> SUBSET Snapshots]]
  /\ hidden \in [Clients -> [Nodes -> Snapshots \cup {None}]]

\* The rows of the nodes table are loaded, or none is because the query fails.
Init ==
  /\ \/ unloaded = {} /\ status \in [Nodes -> {"absent", "online", "offline"}]
     \/ unloaded \in SUBSET Nodes /\ status = [n \in Nodes |-> "absent"]
  /\ registry = [n \in Nodes |-> 0]
  /\ latest = [n \in Nodes |-> 0]
  /\ unsent = [n \in Nodes |-> 0]
  /\ noted = [n \in Nodes |-> None]
  /\ log = <<>>
  /\ lookup = [r \in Requests |-> [next |-> "idle"]]
  /\ task = [c \in Clients |-> "none"]
  /\ cursor = [c \in Clients |-> 1]
  /\ unread = [c \in Clients |-> {}]
  /\ init = [c \in Clients |-> [n \in Nodes |-> 0]]
  /\ shown = [c \in Clients |-> [n \in Nodes |-> {}]]
  /\ since = [c \in Clients |-> 1]
  /\ missed = [c \in Clients |-> [n \in Nodes |-> {}]]
  /\ hidden = [c \in Clients |-> [n \in Nodes |-> None]]

-----------------------------------------------------------------------------
(* Publishers.                                                             *)

\* The bound on broadcasts, and so on what leads to one.
Room == Len(log) < MaxUpdates

\* A stream handler replaces the entry ...
Register(n) ==
  /\ unsent[n] = 0
  /\ latest[n] < MaxSnapshots[n]
  /\ Room
  /\ latest' = [latest EXCEPT ![n] = @ + 1]
  /\ registry' = [registry EXCEPT ![n] = latest[n] + 1]
  /\ status' = [status EXCEPT ![n] = "online"]
  /\ unsent' = [unsent EXCEPT ![n] = latest[n] + 1]
  /\ UNCHANGED <<noted, log, unloaded, lookup, clientVars>>

\* ... and then broadcasts it.
Publish(n) ==
  /\ unsent[n] # 0
  /\ Room
  /\ log' = Append(log, [node |-> n, snapshot |-> unsent[n]])
  /\ unsent' = [unsent EXCEPT ![n] = 0]
  /\ UNCHANGED <<registry, status, latest, noted, unloaded, lookup, clientVars>>

\* A heartbeat puts an entry back online; it broadcasts nothing.
Heartbeat(n) ==
  /\ unsent[n] = 0
  /\ status[n] # "absent"
  /\ status' = [status EXCEPT ![n] = "online"]
  /\ UNCHANGED <<registry, latest, unsent, noted, log, unloaded, lookup, clientVars>>

\* A tick of the checker marks the nodes that timed out offline and notes
\* their snapshots ...
MarkOffline ==
  /\ \A n \in Nodes : noted[n] = None
  /\ Room
  /\ \E timedOut \in (SUBSET {n \in Nodes : status[n] = "online"}) \ {{}} :
       /\ status' = [n \in Nodes |-> IF n \in timedOut THEN "offline" ELSE status[n]]
       /\ noted' = [n \in Nodes |-> IF n \in timedOut THEN registry[n] ELSE None]
  /\ UNCHANGED <<registry, latest, unsent, log, unloaded, lookup, clientVars>>

\* ... and broadcasts each after a database call.
Republish(n) ==
  /\ noted[n] # None
  /\ Room
  /\ log' = Append(log, [node |-> n, snapshot |-> noted[n]])
  /\ noted' = [noted EXCEPT ![n] = None]
  /\ UNCHANGED <<registry, status, latest, unsent, unloaded, lookup, clientVars>>

-----------------------------------------------------------------------------
(* get_node for request r.                                                 *)

\* The registry has no entry of n.  (A request that finds one changes nothing.)
LookupMisses(r, n) ==
  /\ lookup[r].next = "idle"
  /\ status[n] = "absent"
  /\ lookup' = [lookup EXCEPT ![r] = [next |-> "query", node |-> n]]
  /\ UNCHANGED <<registry, status, latest, unsent, noted, log, unloaded, clientVars>>

\* The query finds the row, which the worker may have written since the miss,
\* joined with a stored snapshot or with none; or there is no row, or it fails.
LookupQueries(r) ==
  /\ lookup[r].next = "query"
  /\ LET n == lookup[r].node IN
     \/ /\ n \in unloaded \/ latest[n] > 0
        /\ \E v \in 0 .. latest[n], st \in {"online", "offline"} :
             lookup' = [lookup EXCEPT ![r] =
               [next |-> "insert", node |-> n, snapshot |-> v, status |-> st]]
     \/ lookup' = [lookup EXCEPT ![r] = [next |-> "idle"]]
  /\ UNCHANGED <<registry, status, latest, unsent, noted, log, unloaded, clientVars>>

\* The row becomes the entry, whatever is there by now, and is not broadcast.
LookupInserts(r) ==
  /\ lookup[r].next = "insert"
  /\ registry' = [registry EXCEPT ![lookup[r].node] = lookup[r].snapshot]
  /\ status' = [status EXCEPT ![lookup[r].node] = lookup[r].status]
  /\ lookup' = [lookup EXCEPT ![r] = [next |-> "idle"]]
  /\ UNCHANGED <<latest, unsent, noted, log, unloaded, clientVars>>

-----------------------------------------------------------------------------
(* handle_socket for client c.                                             *)

\* Variant: the receiver starts after the next update.
SubscribePastNext(c) ==
  /\ task[c] = "none"
  /\ task' = [task EXCEPT ![c] = "init"]
  /\ cursor' = [cursor EXCEPT ![c] = Len(log) + 2]
  /\ since' = [since EXCEPT ![c] = Len(log) + 2]
  /\ unread' = [unread EXCEPT ![c] = Interest[c]]
  /\ UNCHANGED <<serverVars, init, shown, missed, hidden>>

Subscribe(c) ==
  /\ task[c] = "none"
  /\ task' = [task EXCEPT ![c] = "init"]
  /\ cursor' = [cursor EXCEPT ![c] = Len(log) + 1]
  /\ since' = [since EXCEPT ![c] = Len(log) + 1]
  /\ unread' = [unread EXCEPT ![c] = Interest[c]]
  /\ UNCHANGED <<serverVars, init, shown, missed, hidden>>

\* The iteration over the registry reads one entry at a time.
ReadEntry(c, n) ==
  /\ task[c] = "init"
  /\ n \in unread[c]
  /\ unread' = [unread EXCEPT ![c] = @ \ {n}]
  /\ init' = [init EXCEPT ![c][n] = registry[n]]
  /\ hidden' = [hidden EXCEPT ![c][n] = IF registry[n] = latest[n] THEN None ELSE latest[n]]
  /\ UNCHANGED <<serverVars, task, cursor, shown, since, missed>>

\* Variant: the receiver is created only after the init message is sent.
SubscribeAfterInit(c) ==
  /\ task[c] = "init"
  /\ unread[c] = {}
  /\ task' = [task EXCEPT ![c] = "open"]
  /\ shown' = [shown EXCEPT ![c] = [n \in Nodes |-> {init[c][n]}]]
  /\ cursor' = [cursor EXCEPT ![c] = Len(log) + 1]
  /\ since' = [since EXCEPT ![c] = Len(log) + 1]
  /\ UNCHANGED <<serverVars, unread, init, missed, hidden>>

SendInit(c) ==
  /\ task[c] = "init"
  /\ unread[c] = {}
  /\ task' = [task EXCEPT ![c] = "open"]
  /\ shown' = [shown EXCEPT ![c] = [n \in Nodes |-> {init[c][n]}]]
  /\ UNCHANGED <<serverVars, cursor, unread, init, since, missed, hidden>>

\* The init message cannot be sent: the handler returns.
SendInitFails(c) ==
  /\ task[c] = "init"
  /\ unread[c] = {}
  /\ task' = [task EXCEPT ![c] = "ended"]
  /\ UNCHANGED <<serverVars, cursor, unread, init, shown, since, missed, hidden>>

\* The first update the channel still holds.
Oldest == IF Len(log) <= ChanCap THEN 1 ELSE Len(log) - ChanCap + 1

\* The snapshots of n that were overwritten before c read them.
Overwritten(c, n) ==
  {log[i].snapshot : i \in {j \in cursor[c] .. Oldest - 1 : log[j].node = n}}

\* Variant: a lagging receiver is replaced by a new one.
SkipToEnd(c) ==
  /\ task[c] \in {"open", "detached"}
  /\ cursor[c] < Oldest
  /\ cursor' = [cursor EXCEPT ![c] = Len(log) + 1]
  /\ missed' = [missed EXCEPT ![c] = [n \in Nodes |-> @[n] \cup Overwritten(c, n)]]
  /\ UNCHANGED <<serverVars, task, unread, init, shown, since, hidden>>

\* recv returns Lagged: the updates that were overwritten are skipped.
Lag(c) ==
  /\ task[c] \in {"open", "detached"}
  /\ cursor[c] < Oldest
  /\ cursor' = [cursor EXCEPT ![c] = Oldest]
  /\ missed' = [missed EXCEPT ![c] = [n \in Nodes |-> @[n] \cup Overwritten(c, n)]]
  /\ UNCHANGED <<serverVars, task, unread, init, shown, since, hidden>>

\* recv returns an update, which is sent if the filter lets it through.  The
\* client may be gone: then the send fails and the task ends.
Forward(c) ==
  LET update == log[cursor[c]]
      wanted == update.node \in Interest[c]
  IN
  /\ task[c] \in {"open", "detached"}
  /\ cursor[c] \in Oldest .. Len(log)
  /\ cursor' = [cursor EXCEPT ![c] = @ + 1]
  /\ \/ /\ wanted /\ task[c] = "open"
        /\ shown' = [shown EXCEPT ![c][update.node] = @ \cup {update.snapshot}]
        /\ UNCHANGED task
     \/ /\ wanted
        /\ task' = [task EXCEPT ![c] = "ended"]
        /\ UNCHANGED shown
     \/ ~wanted /\ UNCHANGED <<shown, task>>
  /\ UNCHANGED <<serverVars, unread, init, since, missed, hidden>>

\* The client closes: the handler returns, and the send task, which select!
\* does not abort, goes on until it next has something to send.
Close(c) ==
  /\ task[c] = "open"
  /\ task' = [task EXCEPT ![c] = "detached"]
  /\ UNCHANGED <<serverVars, cursor, unread, init, shown, since, missed, hidden>>

-----------------------------------------------------------------------------
Publisher(n) == Register(n) \/ Publish(n) \/ Heartbeat(n) \/ Republish(n)

Lookup(r) ==
  \/ \E n \in Nodes : LookupMisses(r, n)
  \/ LookupQueries(r)
  \/ LookupInserts(r)

Client(c) ==
  \/ Subscribe(c)
  \/ \E n \in Nodes : ReadEntry(c, n)
  \/ SendInit(c)
  \/ SendInitFails(c)
  \/ Lag(c)
  \/ Forward(c)
  \/ Close(c)

Next ==
  \/ \E n \in Nodes : Publisher(n)
  \/ MarkOffline
  \/ \E r \in Requests : Lookup(r)
  \/ \E c \in Clients : Client(c)

Spec == Init /\ [][Next]_vars

-----------------------------------------------------------------------------
(* Properties.                                                             *)

\* An update that recv has still to reach, or to report as overwritten.
Awaits(c, n, v) ==
  \E i \in cursor[c] .. Len(log) : log[i] = [node |-> n, snapshot |-> v]

\* No update falls between the init message and the stream: at any time of a
\* connection, the newest snapshot received from a node has been shown to the
\* client, waits in its channel or is about to be broadcast.  Two things only
\* can keep it from the client: its receiver was told Lagged because this very
\* update had been overwritten unread, or get_node had put an older row over it
\* in the registry when the init message was read.
NewestReachesClient ==
  \A c \in Clients : task[c] = "open" =>
    \A n \in Interest[c] :
      \/ latest[n] \in shown[c][n]
      \/ Awaits(c, n, latest[n])
      \/ unsent[n] = latest[n]
      \/ latest[n] \in missed[c][n]
      \/ latest[n] = hidden[c][n]

\* Lagging costs a client only what the channel had to overwrite: every
\* update still held was shown to it or is still to come.
LagSkipsOnlyOverwritten ==
  \A c \in Clients : task[c] = "open" =>
    \A i \in Oldest .. Len(log) :
      since[c] <= i /\ i < cursor[c] /\ log[i].node \in Interest[c]
        => log[i].snapshot \in shown[c][log[i].node]
=============================================================================
