--------------------------- MODULE WsFanoutProofs ---------------------------
(***************************************************************************)
(* Proofs about WsFanout, for every set of nodes and clients, every filter *)
(* and every capacity of the broadcast channel.                            *)
(***************************************************************************)
EXTENDS WsFanout, TLAPS

Updates == [node : Nodes, snapshot : Snapshots]

\* A receiver moves forward from where it was created, and only once the
\* init message is sent.
CursorsAdvance ==
  \A c \in Clients :
    /\ since[c] <= cursor[c]
    /\ task[c] \in {"none", "init"} => cursor[c] = since[c]

\* The newest snapshot of n is in V, waits for c or is about to be broadcast;
\* or it was overwritten or hidden.
Catches(c, n, V) ==
  \/ latest[n] \in V
  \/ Awaits(c, n, latest[n])
  \/ unsent[n] = latest[n]
  \/ latest[n] \in missed[c][n]
  \/ latest[n] = hidden[c][n]

\* A snapshot received since an entry of the init message was read waits in
\* the channel: the subscription came first.
InitIsCaughtUp ==
  \A c \in Clients : task[c] = "init" =>
    \A n \in Interest[c] : n \in unread[c] \/ Catches(c, n, {init[c][n]})

IInv ==
  /\ TypeOK /\ CursorsAdvance /\ InitIsCaughtUp
  /\ NewestReachesClient /\ LagSkipsOnlyOverwritten

-----------------------------------------------------------------------------
\* The server starts with nothing published and nobody connected.
LEMMA InitInv == Init => IInv
<1> SUFFICES ASSUME Init PROVE IInv
  OBVIOUS
<1>1. TypeOK
  <2>1. 0 \in Snapshots /\ [next |-> "idle"] \in Lookups
    BY DEF Snapshots, Lookups
  <2>2. /\ registry \in [Nodes -> Snapshots] /\ latest \in [Nodes -> Snapshots]
        /\ unsent \in [Nodes -> Snapshots] /\ noted \in [Nodes -> Snapshots \cup {None}]
        /\ lookup \in [Requests -> Lookups]
    BY <2>1, Zenon DEF Init
  <2>3. status \in [Nodes -> {"absent", "online", "offline"}] /\ unloaded \in SUBSET Nodes
    BY Zenon DEF Init
  <2>4. /\ init \in [Clients -> [Nodes -> Snapshots]]
        /\ shown \in [Clients -> [Nodes -> SUBSET Snapshots]]
        /\ missed \in [Clients -> [Nodes -> SUBSET Snapshots]]
        /\ hidden \in [Clients -> [Nodes -> Snapshots \cup {None}]]
        /\ unread \in [Clients -> SUBSET Nodes]
        /\ task \in [Clients -> {"none", "init", "open", "detached", "ended"}]
    BY <2>1, Zenon DEF Init
  <2>5. /\ log \in Seq([node : Nodes, snapshot : Snapshots])
        /\ cursor \in [Clients -> 1 .. Len(log) + 1] /\ since \in [Clients -> 1 .. Len(log) + 1]
    BY DEF Init
  <2> QED
    BY <2>2, <2>3, <2>4, <2>5, Zenon DEF TypeOK
<1>2. CursorsAdvance
  BY DEF Init, CursorsAdvance
<1>3. InitIsCaughtUp /\ NewestReachesClient /\ LagSkipsOnlyOverwritten
  BY DEF Init, InitIsCaughtUp, NewestReachesClient, LagSkipsOnlyOverwritten
<1> QED
  BY <1>1, <1>2, <1>3 DEF IInv

\* Where the channel begins is a position, at most one past the end.
LEMMA OldestType == TypeOK => Oldest \in Nat /\ 1 <= Oldest /\ Oldest <= Len(log) + 1
BY WsAssumption DEF TypeOK, Oldest

\* A broadcast adds one update to the end, and the channel begins no earlier.
LEMMA Broadcast ==
  ASSUME TypeOK, NEW u \in Updates, log' = Append(log, u)
  PROVE  /\ log' \in Seq(Updates)
         /\ Len(log') = Len(log) + 1
         /\ \A i \in 1 .. Len(log) : log'[i] = log[i]
         /\ log'[Len(log) + 1] = u
         /\ Oldest' \in Nat /\ Oldest <= Oldest'
<1>1. log \in Seq(Updates)
  BY DEF TypeOK, Updates
<1>2. /\ log' \in Seq(Updates)
      /\ Len(log') = Len(log) + 1
      /\ \A i \in 1 .. Len(log) : log'[i] = log[i]
      /\ log'[Len(log) + 1] = u
  BY <1>1
<1>3. Oldest' \in Nat /\ Oldest <= Oldest'
  BY <1>1, <1>2, WsAssumption DEF Oldest
<1> QED
  BY <1>2, <1>3

\* What waits for a client still waits after a broadcast.
LEMMA StillAwaits ==
  ASSUME TypeOK, NEW u \in Updates, log' = Append(log, u), cursor' = cursor,
         NEW c \in Clients, NEW n \in Nodes, NEW v \in Snapshots
  PROVE  /\ Awaits(c, n, v) => \E i \in cursor'[c] .. Len(log') :
                                 log'[i] = [node |-> n, snapshot |-> v]
         /\ u = [node |-> n, snapshot |-> v] =>
              \E i \in cursor'[c] .. Len(log') : log'[i] = [node |-> n, snapshot |-> v]
<1>1. cursor[c] \in 1 .. Len(log) + 1 /\ Len(log) \in Nat
  BY DEF TypeOK
<1> QED
  BY <1>1, Broadcast DEF Awaits

-----------------------------------------------------------------------------
\* A broadcast of one of the two publishers keeps the invariant.
LEMMA BroadcastStep ==
  ASSUME IInv, NEW n \in Nodes, Publish(n) \/ Republish(n)
  PROVE  IInv'
<1> USE DEF IInv
<1>1. PICK v \in Snapshots :
        /\ log' = Append(log, [node |-> n, snapshot |-> v])
        /\ v = unsent[n] \/ unsent' = unsent
  BY DEF Publish, Republish, TypeOK
<1> DEFINE u == [node |-> n, snapshot |-> v]
<1>2. u \in Updates
  BY DEF Updates
<1>3. UNCHANGED <<registry, status, latest, unloaded, lookup, clientVars>>
  BY DEF Publish, Republish
<1> USE DEF clientVars
<1>4. /\ log' \in Seq(Updates)
      /\ Len(log') = Len(log) + 1
      /\ Oldest' \in Nat /\ Oldest <= Oldest'
      /\ \A i \in 1 .. Len(log) : log'[i] = log[i]
  BY <1>1, <1>2, Broadcast
<1>5. \A m \in Nodes : unsent'[m] = unsent[m] \/ (m = n /\ v = unsent[n])
  BY <1>1 DEF Publish, Republish, TypeOK
<1>6. TypeOK'
  <2>1. unsent' \in [Nodes -> Snapshots] /\ noted' \in [Nodes -> Snapshots \cup {None}]
    <3>1. 0 \in Snapshots
      BY DEF Snapshots
    <3> QED
      BY <3>1, Zenon DEF Publish, Republish, TypeOK
  <2>2. Len(log) \in Nat
    BY DEF TypeOK
  <2>3. cursor' \in [Clients -> 1 .. Len(log') + 1] /\ since' \in [Clients -> 1 .. Len(log') + 1]
    BY <1>3, <1>4, <2>2 DEF TypeOK
  <2> QED
    BY <1>3, <1>4, <2>1, <2>3, Zenon DEF TypeOK, Updates
<1>8. CursorsAdvance'
  BY <1>3, Zenon DEF CursorsAdvance
<1>9. ASSUME NEW c \in Clients, NEW m \in Nodes, NEW V, Catches(c, m, V)
      PROVE  Catches(c, m, V)'
  <2>1. PICK x \in Snapshots : x = latest[m] /\ x = latest'[m]
    BY <1>3 DEF TypeOK
  <2>2. CASE latest[m] \in V \/ latest[m] \in missed[c][m] \/ latest[m] = hidden[c][m]
    BY <2>2, <1>3, Zenon DEF Catches
  <2>3. CASE Awaits(c, m, latest[m])
    <3>1. Awaits(c, m, x)
      BY <2>1, <2>3
    <3>2. \E i \in cursor'[c] .. Len(log') : log'[i] = [node |-> m, snapshot |-> x]
      BY <3>1, <1>1, <1>2, <1>3, StillAwaits, Zenon
    <3> QED
      BY <2>1, <3>2 DEF Catches, Awaits
  <2>4. CASE unsent[m] = latest[m]
    <3>1. CASE unsent'[m] = unsent[m]
      BY <2>4, <3>1, <1>3, Zenon DEF Catches
    <3>2. CASE m = n /\ v = unsent[n]
      <4>1. u = [node |-> m, snapshot |-> x]
        BY <2>1, <2>4, <3>2
      <4>2. \E i \in cursor'[c] .. Len(log') : log'[i] = [node |-> m, snapshot |-> x]
        BY <4>1, <1>1, <1>2, <1>3, StillAwaits, Zenon
      <4> QED
        BY <2>1, <4>2 DEF Catches, Awaits
    <3> QED
      BY <3>1, <3>2, <1>5
  <2> QED
    BY <1>9, <2>2, <2>3, <2>4, Zenon DEF Catches
<1>10. InitIsCaughtUp'
  BY <1>3, <1>9, WsAssumption DEF InitIsCaughtUp
<1>11. NewestReachesClient'
  <2> SUFFICES ASSUME NEW c \in Clients, task'[c] = "open", NEW m \in Interest[c]
               PROVE  Catches(c, m, shown[c][m])'
    BY Zenon DEF NewestReachesClient, Catches
  <2>1. task[c] = "open" /\ m \in Nodes
    BY <1>3, WsAssumption
  <2>2. Catches(c, m, shown[c][m])
    BY <2>1, Zenon DEF NewestReachesClient, Catches
  <2> QED
    BY <2>1, <2>2, <1>3, <1>9
<1>12. LagSkipsOnlyOverwritten'
  <2> SUFFICES ASSUME NEW c \in Clients, task'[c] = "open",
                      NEW i \in Oldest' .. Len(log'),
                      since'[c] <= i, i < cursor'[c], log'[i].node \in Interest[c]
               PROVE  log'[i].snapshot \in shown'[c][log'[i].node]
    BY DEF LagSkipsOnlyOverwritten
  <2>1. i \in Oldest .. Len(log) /\ i \in 1 .. Len(log)
    BY <1>3, <1>4, OldestType DEF TypeOK
  <2> QED
    BY <2>1, <1>3, <1>4 DEF LagSkipsOnlyOverwritten
<1> QED
  BY <1>6, <1>8, <1>10, <1>11, <1>12

\* A registered snapshot is about to be broadcast.
LEMMA RegisterStep ==
  ASSUME IInv, NEW n \in Nodes, Register(n)
  PROVE  IInv'
<1> USE DEF IInv
<1>1. /\ UNCHANGED <<log, noted, unloaded, lookup, clientVars>>
      /\ unsent'[n] = latest'[n]
      /\ \A m \in Nodes \ {n} : latest'[m] = latest[m] /\ unsent'[m] = unsent[m]
  BY DEF Register, TypeOK
<1> USE DEF clientVars
<1>2. TypeOK'
  <2>1. latest[n] + 1 \in Snapshots
    BY DEF TypeOK, Snapshots
  <2>2. /\ registry' \in [Nodes -> Snapshots] /\ unsent' \in [Nodes -> Snapshots]
        /\ latest' \in [Nodes -> Snapshots]
        /\ status' \in [Nodes -> {"absent", "online", "offline"}]
    BY <2>1, Zenon DEF Register, TypeOK
  <2> QED
    BY <1>1, <2>2, Zenon DEF TypeOK
<1>3. CursorsAdvance'
  BY <1>1, Zenon DEF CursorsAdvance
<1>4. ASSUME NEW c \in Clients, NEW m \in Nodes, NEW V, Catches(c, m, V)
      PROVE  Catches(c, m, V)'
  BY <1>1, <1>4 DEF Catches, Awaits
<1>5. \A c \in Clients : task[c] = "init" =>
        \A m \in Interest[c] : m \in unread[c] \/ Catches(c, m, {init[c][m]})'
  BY <1>1, <1>4, WsAssumption DEF InitIsCaughtUp
<1>6. InitIsCaughtUp'
  BY <1>1, <1>5 DEF InitIsCaughtUp
<1>7. Oldest' = Oldest
  BY <1>1 DEF Oldest
<1>8. NewestReachesClient'
  <2> SUFFICES ASSUME NEW c \in Clients, task[c] = "open", NEW m \in Interest[c]
               PROVE  Catches(c, m, shown[c][m])'
    BY <1>1, Zenon DEF NewestReachesClient, Catches
  <2>1. m \in Nodes /\ Catches(c, m, shown[c][m])
    BY WsAssumption DEF NewestReachesClient, Catches
  <2> QED
    BY <2>1, <1>1, <1>4
<1>9. LagSkipsOnlyOverwritten'
  BY <1>1, <1>7 DEF LagSkipsOnlyOverwritten
<1> QED
  BY <1>2, <1>3, <1>6, <1>8, <1>9

\* The invariant does not depend on what is in the registry: a step that
\* receives and broadcasts nothing keeps it.
LEMMA QuietStep ==
  ASSUME IInv, TypeOK', UNCHANGED <<latest, unsent, log, clientVars>>
  PROVE  IInv'
<1> USE DEF IInv, clientVars
<1>1. CursorsAdvance'
  BY Zenon DEF CursorsAdvance
<1>2. Oldest' = Oldest
  BY DEF Oldest
<1>3. InitIsCaughtUp'
  BY Zenon DEF InitIsCaughtUp, Catches, Awaits
<1>4. NewestReachesClient'
  BY Zenon DEF NewestReachesClient, Awaits
<1>5. LagSkipsOnlyOverwritten'
  BY <1>2, Zenon DEF LagSkipsOnlyOverwritten
<1> QED
  BY <1>1, <1>3, <1>4, <1>5

\* The checker's scan and a heartbeat change statuses only.
LEMMA StatusStep ==
  ASSUME IInv, MarkOffline \/ \E n \in Nodes : Heartbeat(n)
  PROVE  IInv'
<1>1. UNCHANGED <<registry, latest, unsent, log, unloaded, lookup, clientVars>>
  BY Zenon DEF MarkOffline, Heartbeat
<1>2. /\ noted' \in [Nodes -> Snapshots \cup {None}]
      /\ status' \in [Nodes -> {"absent", "online", "offline"}]
  <2>1. TypeOK
    BY DEF IInv
  <2>2. CASE MarkOffline
    BY <2>1, <2>2, Zenon DEF MarkOffline, TypeOK
  <2>3. CASE \E n \in Nodes : Heartbeat(n)
    BY <2>1, <2>3, Zenon DEF Heartbeat, TypeOK
  <2> QED
    BY <2>2, <2>3
<1>3. TypeOK'
  BY <1>1, <1>2, Zenon DEF TypeOK, IInv, clientVars
<1> QED
  BY <1>1, <1>3, QuietStep

\* A lookup overwrites an entry with a row, which is a snapshot.
LEMMA LookupStep ==
  ASSUME IInv, NEW r \in Requests, Lookup(r)
  PROVE  IInv'
<1>1. UNCHANGED <<latest, unsent, noted, log, unloaded, clientVars>>
  BY Zenon DEF Lookup, LookupMisses, LookupQueries, LookupInserts
<1>2. TypeOK
  BY DEF IInv
<1>3. lookup[r] \in Lookups /\ [next |-> "idle"] \in Lookups
  BY <1>2, Zenon DEF TypeOK, Lookups
<1>4. ASSUME NEW n \in Nodes, LookupMisses(r, n)
      PROVE  /\ lookup' \in [Requests -> Lookups]
             /\ UNCHANGED <<registry, status>>
  <2>1. [next |-> "query", node |-> n] \in Lookups
    BY DEF Lookups
  <2> QED
    BY <1>2, <1>4, <2>1, Zenon DEF LookupMisses, TypeOK
<1>5. ASSUME LookupQueries(r)
      PROVE  /\ lookup' \in [Requests -> Lookups]
             /\ UNCHANGED <<registry, status>>
  <2>1. lookup[r].node \in Nodes
    BY <1>3, <1>5 DEF LookupQueries, Lookups
  <2>2. latest[lookup[r].node] \in Nat
    BY <1>2, <2>1, Zenon DEF TypeOK, Snapshots
  <2>3. \A v \in 0 .. latest[lookup[r].node], st \in {"online", "offline"} :
          [next |-> "insert", node |-> lookup[r].node, snapshot |-> v, status |-> st] \in Lookups
    BY <2>1, <2>2 DEF Lookups, Snapshots
  <2>4. PICK l \in Lookups : lookup' = [lookup EXCEPT ![r] = l]
    BY <1>3, <1>5, <2>3, Zenon DEF LookupQueries
  <2> QED
    BY <1>2, <1>5, <2>4, Zenon DEF LookupQueries, TypeOK
<1>6. ASSUME LookupInserts(r)
      PROVE  /\ lookup' \in [Requests -> Lookups] /\ registry' \in [Nodes -> Snapshots]
             /\ status' \in [Nodes -> {"absent", "online", "offline"}]
  <2>1. /\ lookup[r].node \in Nodes /\ lookup[r].snapshot \in Snapshots
        /\ lookup[r].status \in {"absent", "online", "offline"}
    BY <1>3, <1>6 DEF LookupInserts, Lookups
  <2> QED
    BY <1>2, <1>3, <1>6, <2>1, Zenon DEF LookupInserts, TypeOK
<1>7. TypeOK'
  <2>1. /\ lookup' \in [Requests -> Lookups] /\ registry' \in [Nodes -> Snapshots]
        /\ status' \in [Nodes -> {"absent", "online", "offline"}]
    BY <1>2, <1>4, <1>5, <1>6, Zenon DEF Lookup, TypeOK
  <2> QED
    BY <1>1, <1>2, <2>1, Zenon DEF TypeOK, clientVars
<1> QED
  BY <1>1, <1>7, QuietStep

-----------------------------------------------------------------------------
\* The parts of the invariant that speak of one client.
ClientInv(c) ==
  /\ since[c] <= cursor[c]
  /\ task[c] \in {"none", "init"} => cursor[c] = since[c]
  /\ task[c] = "init" =>
       \A n \in Interest[c] : n \in unread[c] \/ Catches(c, n, {init[c][n]})
  /\ task[c] = "open" =>
       \A n \in Interest[c] : Catches(c, n, shown[c][n])
  /\ task[c] = "open" =>
       \A i \in Oldest .. Len(log) :
         since[c] <= i /\ i < cursor[c] /\ log[i].node \in Interest[c]
           => log[i].snapshot \in shown[c][log[i].node]

\* The invariant, client by client.
LEMMA ByClient ==
  IInv <=> TypeOK /\ \A c \in Clients : ClientInv(c)
BY DEF IInv, ClientInv, CursorsAdvance, InitIsCaughtUp, NewestReachesClient,
   LagSkipsOnlyOverwritten, Catches

\* A step of client c leaves the others' state alone.
LEMMA OtherClients ==
  ASSUME NEW c \in Clients, NEW d \in Clients, TypeOK, Client(c), c # d, ClientInv(d)
  PROVE  ClientInv(d)'
<1>1. UNCHANGED serverVars
  BY Zenon DEF Client, Subscribe, ReadEntry, SendInit, SendInitFails, Lag, Forward, Close
<1> USE DEF serverVars
<1>2. /\ task'[d] = task[d] /\ cursor'[d] = cursor[d] /\ unread'[d] = unread[d]
      /\ init'[d] = init[d] /\ shown'[d] = shown[d] /\ since'[d] = since[d]
      /\ missed'[d] = missed[d] /\ hidden'[d] = hidden[d]
  BY DEF Client, Subscribe, ReadEntry, SendInit, SendInitFails, Lag, Forward, Close, TypeOK
<1>3. Oldest' = Oldest
  BY <1>1 DEF Oldest
<1> QED
  BY <1>1, <1>2, <1>3 DEF ClientInv, Catches, Awaits

\* The steps of a client keep the types.
LEMMA ClientType ==
  ASSUME NEW c \in Clients, TypeOK, Client(c)
  PROVE  TypeOK'
<1>1. UNCHANGED serverVars
  BY Zenon DEF Client, Subscribe, ReadEntry, SendInit, SendInitFails, Lag, Forward, Close
<1> USE DEF serverVars
<1>3. Len(log) \in Nat /\ Oldest \in 1 .. Len(log) + 1
  BY OldestType DEF TypeOK
<1>4. CASE Subscribe(c)
  <2>1. Interest[c] \in SUBSET Nodes /\ Len(log) + 1 \in 1 .. Len(log) + 1
    BY <1>3, WsAssumption
  <2> QED
    BY <1>1, <1>4, <2>1 DEF Subscribe, TypeOK
<1>5. ASSUME NEW n \in Nodes, ReadEntry(c, n) PROVE TypeOK'
  <2>1. (IF registry[n] = latest[n] THEN None ELSE latest[n]) \in Snapshots \cup {None}
    BY Zenon DEF TypeOK
  <2>2. init' \in [Clients -> [Nodes -> Snapshots]]
    BY <1>5 DEF ReadEntry, TypeOK
  <2>3. hidden' \in [Clients -> [Nodes -> Snapshots \cup {None}]]
    BY <1>5, <2>1 DEF ReadEntry, TypeOK
  <2>4. unread' \in [Clients -> SUBSET Nodes]
    BY <1>5 DEF ReadEntry, TypeOK
  <2> QED
    BY <1>1, <1>5, <2>2, <2>3, <2>4, Zenon DEF ReadEntry, TypeOK
<1>6. CASE SendInit(c)
  BY <1>1, <1>6 DEF SendInit, TypeOK
<1>7. CASE SendInitFails(c) \/ Close(c)
  BY <1>1, <1>7 DEF SendInitFails, Close, TypeOK
<1>8. CASE Lag(c)
  <2>1. cursor' \in [Clients -> 1 .. Len(log') + 1]
    BY <1>1, <1>3, <1>8 DEF Lag, TypeOK
  <2>2. ASSUME NEW n \in Nodes PROVE missed[c][n] \cup Overwritten(c, n) \in SUBSET Snapshots
    <3>1. \A i \in cursor[c] .. Oldest - 1 : log[i] \in Updates
      <4>1. log \in Seq(Updates) /\ cursor[c] \in 1 .. Len(log) + 1
        BY DEF TypeOK, Updates
      <4> QED
        BY <4>1, <1>3
    <3>2. Overwritten(c, n) \subseteq Snapshots
      BY <3>1 DEF Overwritten, Updates
    <3> QED
      BY <3>2 DEF TypeOK
  <2>3. missed' \in [Clients -> [Nodes -> SUBSET Snapshots]]
    <3>1. [n \in Nodes |-> missed[c][n] \cup Overwritten(c, n)] \in [Nodes -> SUBSET Snapshots]
      BY <2>2, Zenon
    <3> QED
      BY <1>8, <3>1, Zenon DEF Lag, TypeOK
  <2> QED
    BY <1>1, <1>8, <2>1, <2>3, Zenon DEF Lag, TypeOK
<1>9. CASE Forward(c)
  <2>1. cursor[c] \in 1 .. Len(log) /\ cursor[c] + 1 \in 1 .. Len(log) + 1
    BY <1>3, <1>9 DEF Forward
  <2>2. log[cursor[c]] \in Updates
    <3>1. log \in Seq(Updates)
      BY DEF TypeOK, Updates
    <3> QED
      BY <2>1, <3>1
  <2>3. log[cursor[c]].node \in Nodes /\ log[cursor[c]].snapshot \in Snapshots
    BY <2>2 DEF Updates
  <2>4. cursor' \in [Clients -> 1 .. Len(log') + 1]
    BY <1>1, <1>9, <2>1 DEF Forward, TypeOK
  <2>5. shown' \in [Clients -> [Nodes -> SUBSET Snapshots]]
    <3> DEFINE u == log[cursor[c]]
    <3>1. \/ shown' = shown
          \/ shown' = [shown EXCEPT ![c][u.node] = @ \cup {u.snapshot}]
      BY <1>9 DEF Forward
    <3>2. shown \in [Clients -> [Nodes -> SUBSET Snapshots]]
      BY DEF TypeOK
    <3>3. shown[c][u.node] \cup {u.snapshot} \in SUBSET Snapshots
      BY <2>3, <3>2
    <3> QED
      BY <2>3, <3>1, <3>2, <3>3
  <2>6. task' \in [Clients -> {"none", "init", "open", "detached", "ended"}]
    BY <1>9, Zenon DEF Forward, TypeOK
  <2> QED
    BY <1>1, <1>9, <2>4, <2>5, <2>6 DEF Forward, TypeOK
<1> QED
  BY <1>4, <1>5, <1>6, <1>7, <1>8, <1>9 DEF Client

\* A client's own step: the subscription before the first read, the cursor
\* that passes an update only when it is shown, unwanted or overwritten.
LEMMA OwnStep ==
  ASSUME NEW c \in Clients, TypeOK, ClientInv(c), Client(c)
  PROVE  ClientInv(c)'
<1>1. UNCHANGED serverVars
  BY Zenon DEF Client, Subscribe, ReadEntry, SendInit, SendInitFails, Lag, Forward, Close
<1> USE DEF serverVars
<1>2. Oldest' = Oldest
  BY <1>1 DEF Oldest
<1>3. Len(log) \in Nat /\ Oldest \in 1 .. Len(log) + 1
  BY OldestType DEF TypeOK
<1>4. cursor[c] \in Nat /\ since[c] \in Nat /\ Interest[c] \subseteq Nodes
  BY WsAssumption DEF TypeOK
<1>5. CASE Subscribe(c)
  <2>1. task'[c] = "init" /\ cursor'[c] = Len(log) + 1 /\ since'[c] = Len(log) + 1
        /\ unread'[c] = Interest[c]
    BY <1>5 DEF Subscribe, TypeOK
  <2> QED
    BY <2>1, <1>3 DEF ClientInv
<1>6. ASSUME NEW n \in Nodes, ReadEntry(c, n) PROVE ClientInv(c)'
  <2>1. /\ task[c] = "init" /\ task'[c] = "init" /\ cursor' = cursor /\ since' = since
        /\ unread'[c] = unread[c] \ {n}
        /\ missed' = missed
        /\ \A m \in Nodes \ {n} : init'[c][m] = init[c][m] /\ hidden'[c][m] = hidden[c][m]
    BY <1>6 DEF ReadEntry, TypeOK
  <2>3. latest[n] = init'[c][n] \/ latest[n] = hidden'[c][n]
    BY <1>6 DEF ReadEntry, TypeOK
  <2>2. \A m \in Interest[c] : m \in unread'[c] \/ Catches(c, m, {init[c][m]})'
    BY <2>1, <2>3, <1>1, <1>4 DEF ClientInv, Catches, Awaits
  <2> QED
    BY <2>1, <2>2 DEF ClientInv
<1>7. CASE SendInit(c)
  <2>1. /\ task[c] = "init" /\ task'[c] = "open" /\ cursor' = cursor /\ since' = since
        /\ unread[c] = {} /\ init' = init /\ missed' = missed /\ hidden' = hidden
        /\ \A m \in Nodes : shown'[c][m] = {init[c][m]}
    BY <1>7 DEF SendInit, TypeOK
  <2>2. \A m \in Interest[c] : Catches(c, m, shown[c][m])'
    BY <2>1, <1>1, <1>4 DEF ClientInv, Catches, Awaits
  <2> QED
    BY <2>1, <2>2, <1>2, <1>3, <1>4 DEF ClientInv
<1>8. CASE SendInitFails(c) \/ Close(c)
  <2>1. task'[c] \in {"ended", "detached"} /\ cursor' = cursor /\ since' = since
    BY <1>8 DEF SendInitFails, Close, TypeOK
  <2> QED
    BY <2>1 DEF ClientInv
<1>9. CASE Lag(c)
  <2>1. /\ task[c] \in {"open", "detached"} /\ cursor[c] < Oldest
        /\ cursor'[c] = Oldest /\ task' = task /\ since' = since
        /\ shown' = shown /\ hidden' = hidden
        /\ \A m \in Nodes : missed'[c][m] = missed[c][m] \cup Overwritten(c, m)
    BY <1>9 DEF Lag, TypeOK
  <2>2. ASSUME task[c] = "open", NEW m \in Interest[c] PROVE Catches(c, m, shown[c][m])'
    <3>1. Catches(c, m, shown[c][m]) /\ m \in Nodes
      BY <2>2, <1>4 DEF ClientInv
    <3>2. CASE ~Awaits(c, m, latest[m])
      BY <3>1, <3>2, <2>1, <1>1 DEF Catches
    <3>3. CASE Awaits(c, m, latest[m])
      <4>1. PICK i \in cursor[c] .. Len(log) : log[i] = [node |-> m, snapshot |-> latest[m]]
        BY <3>3 DEF Awaits
      <4>2. CASE i < Oldest
        <5>1. i \in cursor[c] .. Oldest - 1 /\ log[i].node = m /\ log[i].snapshot = latest[m]
          BY <4>1, <4>2, <1>3, <1>4
        <5>2. latest[m] \in Overwritten(c, m)
          BY <5>1 DEF Overwritten
        <5> QED
          BY <5>2, <3>1, <2>1, <1>1 DEF Catches
      <4>3. CASE i >= Oldest
        <5>1. i \in cursor'[c] .. Len(log')
          BY <4>1, <4>3, <2>1, <1>1, <1>3, <1>4
        <5> QED
          BY <4>1, <5>1, <1>1 DEF Catches, Awaits
      <4> QED
        BY <4>2, <4>3, <1>3, <1>4
    <3> QED
      BY <3>2, <3>3
  <2>3. since[c] <= Oldest
    BY <2>1, <1>3, <1>4 DEF ClientInv
  <2> QED
    BY <2>1, <2>2, <2>3, <1>2, <1>3, <1>4 DEF ClientInv
<1>10. CASE Forward(c)
  <2> DEFINE u == log[cursor[c]]
  <2>1. /\ cursor[c] \in Oldest .. Len(log) /\ cursor'[c] = cursor[c] + 1
        /\ since' = since /\ task[c] \in {"open", "detached"}
    BY <1>10 DEF Forward, TypeOK
  <2>2. CASE task'[c] # "open"
    <3>1. task'[c] \in {"detached", "ended"}
      BY <2>1, <2>2, <1>10 DEF Forward, TypeOK
    <3> QED
      BY <2>1, <3>1, <1>4 DEF ClientInv
  <2>3. CASE task'[c] = "open"
    <3>1. u \in Updates
      <4>1. log \in Seq(Updates)
        BY DEF TypeOK, Updates
      <4> QED
        BY <4>1, <2>1, <1>3
    <3>2. u.node \in Nodes
      BY <3>1 DEF Updates
    <3>3. /\ task[c] = "open"
          /\ missed' = missed /\ hidden' = hidden
          /\ \A m \in Nodes : shown[c][m] \subseteq shown'[c][m]
          /\ u.node \in Interest[c] => u.snapshot \in shown'[c][u.node]
      <4>1. shown \in [Clients -> [Nodes -> SUBSET Snapshots]]
            /\ task \in [Clients -> {"none", "init", "open", "detached", "ended"}]
        BY Zenon DEF TypeOK
      <4>2. missed' = missed /\ hidden' = hidden
        BY <1>10, Zenon DEF Forward
      <4>3. CASE u.node \in Interest[c]
        <5>1. /\ task[c] = "open"
              /\ shown' = [shown EXCEPT ![c][u.node] = @ \cup {u.snapshot}]
          BY <4>1, <4>3, <2>3, <1>10 DEF Forward
        <5> QED
          BY <4>1, <4>2, <5>1, <3>2
      <4>4. CASE u.node \notin Interest[c]
        <5>1. shown' = shown /\ task' = task
          BY <4>4, <1>10, Zenon DEF Forward
        <5> QED
          BY <4>2, <4>4, <5>1, <2>3
      <4> QED
        BY <4>3, <4>4
    <3>4. ASSUME NEW m \in Interest[c]
          PROVE  Catches(c, m, shown[c][m])'
      <4>1. Catches(c, m, shown[c][m]) /\ m \in Nodes
        BY <3>3, <3>4, <1>4 DEF ClientInv
      <4>2. CASE ~Awaits(c, m, latest[m])
        BY <4>1, <4>2, <3>3, <1>1 DEF Catches
      <4>3. CASE Awaits(c, m, latest[m])
        <5>1. PICK i \in cursor[c] .. Len(log) : log[i] = [node |-> m, snapshot |-> latest[m]]
          BY <4>3 DEF Awaits
        <5>2. CASE i = cursor[c]
          BY <5>1, <5>2, <4>1, <3>3, <1>1 DEF Catches
        <5>3. CASE i # cursor[c]
          <6>1. i \in cursor'[c] .. Len(log')
            BY <5>1, <5>3, <2>1, <1>1, <1>3, <1>4
          <6> QED
            BY <5>1, <6>1, <1>1 DEF Catches, Awaits
        <5> QED
          BY <5>2, <5>3
      <4> QED
        BY <4>1, <4>2, <4>3 DEF Catches
    <3>5. ASSUME NEW i \in Oldest' .. Len(log'), since'[c] <= i, i < cursor'[c],
                 log'[i].node \in Interest[c]
          PROVE  log'[i].snapshot \in shown'[c][log'[i].node]
      <4>1. i \in Oldest .. Len(log) /\ since[c] <= i /\ i <= cursor[c]
        BY <3>5, <2>1, <1>1, <1>2, <1>3, <1>4
      <4>2. CASE i = cursor[c]
        BY <4>2, <3>3, <3>5, <1>1
      <4>3. CASE i < cursor[c]
        BY <4>1, <4>3, <3>3, <3>5, <1>1, <1>4 DEF ClientInv
      <4> QED
        BY <4>1, <4>2, <4>3, <1>3, <1>4
    <3> QED
      BY <2>1, <2>3, <3>3, <3>4, <3>5, <1>2, <1>4 DEF ClientInv
  <2> QED
    BY <2>2, <2>3
<1> QED
  BY <1>5, <1>6, <1>7, <1>8, <1>9, <1>10 DEF Client

\* The invariant is inductive.
LEMMA NextInv == IInv /\ [Next]_vars => IInv'
<1> SUFFICES ASSUME IInv, [Next]_vars PROVE IInv'
  OBVIOUS
<1>1. ASSUME NEW n \in Nodes, Publisher(n) PROVE IInv'
  BY <1>1, RegisterStep, BroadcastStep, StatusStep, Zenon DEF Publisher
<1>2. CASE MarkOffline
  BY <1>2, StatusStep
<1>3. ASSUME NEW r \in Requests, Lookup(r) PROVE IInv'
  BY <1>3, LookupStep
<1>4. ASSUME NEW c \in Clients, Client(c) PROVE IInv'
  <2>1. TypeOK /\ \A d \in Clients : ClientInv(d)
    BY ByClient
  <2>2. TypeOK'
    BY <1>4, <2>1, ClientType
  <2>3. ASSUME NEW d \in Clients PROVE ClientInv(d)'
    BY <1>4, <2>1, OwnStep, OtherClients
  <2> QED
    BY <2>2, <2>3, Zenon DEF IInv, ClientInv, CursorsAdvance, InitIsCaughtUp,
       NewestReachesClient, LagSkipsOnlyOverwritten, Catches
<1>5. CASE UNCHANGED vars
  <2>1. UNCHANGED <<serverVars, clientVars>>
    BY <1>5 DEF vars
  <2>2. TypeOK'
    BY <2>1, Zenon DEF IInv, TypeOK, serverVars, clientVars
  <2>3. UNCHANGED <<latest, unsent, log, clientVars>>
    BY <2>1 DEF serverVars
  <2> QED
    BY <2>2, <2>3, QuietStep
<1> QED
  BY <1>1, <1>2, <1>3, <1>4, <1>5 DEF Next

\* The invariant holds throughout.
LEMMA Invariance == Spec => []IInv
BY InitInv, NextInv, PTL DEF Spec

\* The channel and its subscribers are always well typed: no cursor leaves the
\* log, whatever lags, is dropped or is detached.
THEOREM TypeCorrect == Spec => []TypeOK
<1>1. IInv => TypeOK
  BY DEF IInv
<1> QED
  BY <1>1, Invariance, PTL

\* For any number of nodes, clients, lookups and updates, no update falls
\* between a dashboard's init message and its stream (handle_socket subscribes
\* first): the newest snapshot reaches it unless that very update was
\* overwritten unread or a lookup's older row stood in its place.
THEOREM NewestReachesClientHolds == Spec => []NewestReachesClient
<1>1. IInv => NewestReachesClient
  BY DEF IInv
<1> QED
  BY <1>1, Invariance, PTL

\* For any capacity of the channel, a dashboard that lags misses only what was
\* overwritten.
THEOREM LagSkipsOnlyOverwrittenHolds == Spec => []LagSkipsOnlyOverwritten
<1>1. IInv => LagSkipsOnlyOverwritten
  BY DEF IInv
<1> QED
  BY <1>1, Invariance, PTL
=============================================================================
