------------------------ MODULE ServerStorageProofs ------------------------
(***************************************************************************)
(* Proofs about the way of an item through Server, from its stream to the  *)
(* database: none is lost without a trace, and the items of a stream are   *)
(* stored in the order of their receipt.                                   *)
(***************************************************************************)
EXTENDS ServerProofs, FiniteSetTheorems

\* Where an item may be on its way from its stream to the table.
Arriving == {handler[h].item : h \in {g \in Streams : handler[g].next = "enqueue"}}
Waiting == UNION {Range(queue[w]) : w \in Workers}
Held == {worker[w].item : w \in {v \in Workers : worker[v].next \in {"upsert", "insert"}}}
Stored == UNION {Range(snaps[n]) : n \in Nodes}

Before(A, B) == \A x \in A : \A y \in B : x.stream = y.stream => x.id < y.id

InOrder(q) == \A i, j \in DOMAIN q : i < j /\ q[i].stream = q[j].stream => q[i].id < q[j].id

\* All items of a node pass through the worker of its shard ...
Sharded ==
  /\ \A h \in Streams : handler[h].next = "enqueue" => handler[h].item.stream = h
  /\ \A w \in Workers : \A x \in Range(queue[w]) : ShardOf[x.node] = w
  /\ \A w \in Workers : worker[w].next # "recv" => ShardOf[worker[w].item.node] = w
  /\ \A n \in Nodes : \A x \in Range(snaps[n]) : x.node = n

\* ... in the order of their receipt, each place ahead of the next.
Ordered ==
  /\ \A x \in Arriving \cup Waiting \cup Held \cup Stored : x.id <= msgs
  /\ \A n \in Nodes : InOrder(snaps[n])
  /\ \A w \in Workers : InOrder(queue[w])
  /\ Before(Stored, Held) /\ Before(Stored, Waiting) /\ Before(Stored, Arriving)
  /\ Before(Held, Waiting) /\ Before(Held, Arriving) /\ Before(Waiting, Arriving)

-----------------------------------------------------------------------------
(* Items are accounted for.                                                *)

\* The places of node n's items in queues q, and the workers with one in hand.
Slots(q, n) ==
  {p \in Workers \X (1 .. QueueCap) : p[2] <= Len(q[p[1]]) /\ q[p[1]][p[2]].node = n}
Hands(f, n) ==
  {w \in Workers : f[w].next \in {"upsert", "insert", "probe"} /\ f[w].item.node = n}

Queues == {q \in [Workers -> Seq(Items)] : \A w \in Workers : Len(q[w]) <= QueueCap}

\* There are finitely many, and they are those that Pending counts.
LEMMA SlotsFinite ==
  ASSUME NEW q, NEW n
  PROVE  IsFiniteSet(Slots(q, n)) /\ Cardinality(Slots(q, n)) \in Nat
<1>1. IsFiniteSet(1 .. QueueCap) /\ IsFiniteSet(Workers)
  BY Bounds, ServerAssumption, FS_Interval
<1>2. IsFiniteSet(Workers \X (1 .. QueueCap))
  BY <1>1, FS_Product, Zenon
<1>3. Slots(q, n) \in SUBSET (Workers \X (1 .. QueueCap))
  BY Zenon DEF Slots
<1>4. IsFiniteSet(Slots(q, n))
  BY <1>2, <1>3, FS_Subset, Zenon
<1> QED
  BY <1>4, FS_CardinalityType, Zenon

LEMMA HandsFinite ==
  ASSUME NEW f, NEW n
  PROVE  IsFiniteSet(Hands(f, n)) /\ Cardinality(Hands(f, n)) \in Nat
<1>1. Hands(f, n) \in SUBSET Workers
  BY Zenon DEF Hands
<1>2. IsFiniteSet(Hands(f, n))
  BY <1>1, ServerAssumption, FS_Subset, Zenon
<1> QED
  BY <1>2, FS_CardinalityType, Zenon

LEMMA QueuedIsSlots ==
  ASSUME NEW q \in Queues, NEW n
  PROVE  {p \in UNION {{w} \X DOMAIN q[w] : w \in Workers} : q[p[1]][p[2]].node = n}
           = Slots(q, n)
<1> DEFINE P == UNION {{w} \X DOMAIN q[w] : w \in Workers}
           R == {p \in Workers \X (1 .. QueueCap) : p[2] <= Len(q[p[1]])}
<1>1. \A w \in Workers : q[w] \in Seq(Items) /\ Len(q[w]) <= QueueCap
  BY Zenon DEF Queues
<1>2. \A w \in Workers : DOMAIN q[w] = 1 .. Len(q[w]) /\ Len(q[w]) \in Nat
  BY <1>1
<1>3. ASSUME NEW p \in P PROVE p \in R
  <2>1. PICK w \in Workers : p \in {w} \X DOMAIN q[w]
    BY Zenon
  <2>2. p = <<w, p[2]>> /\ p[2] \in 1 .. Len(q[w])
    BY <1>2, <2>1
  <2> QED
    BY <1>1, <1>2, <2>2, Bounds
<1>4. ASSUME NEW p \in R PROVE p \in P
  <2>1. p[1] \in Workers /\ p[2] \in DOMAIN q[p[1]] /\ p = <<p[1], p[2]>>
    BY <1>2, Bounds
  <2> QED
    BY <2>1
<1>5. P = R
  BY <1>3, <1>4, Zenon
<1>6. Slots(q, n) = {p \in R : q[p[1]][p[2]].node = n}
  BY Zenon DEF Slots
<1>7. {p \in P : q[p[1]][p[2]].node = n} = {p \in R : q[p[1]][p[2]].node = n}
  BY <1>5, Zenon
<1> QED
  BY <1>6, <1>7, Zenon

\* An item that is enqueued adds a place, an item that is taken removes one.
LEMMA SlotsAppend ==
  ASSUME NEW q \in Queues, NEW r, NEW w \in Workers, NEW x \in Items, NEW n \in Nodes,
         Len(q[w]) < QueueCap, r = [q EXCEPT ![w] = Append(q[w], x)]
  PROVE  Cardinality(Slots(r, n))
           = Cardinality(Slots(q, n)) + (IF x.node = n THEN 1 ELSE 0)
<1> DEFINE p == <<w, Len(q[w]) + 1>>
<1>1. q \in [Workers -> Seq(Items)] /\ Len(q[w]) \in Nat
  BY DEF Queues
<1>2. \A v \in Workers : v # w => r[v] = q[v]
  BY <1>1, Zenon
<1>3. /\ r[w] = Append(q[w], x) /\ Len(r[w]) = Len(q[w]) + 1
      /\ r[w][Len(q[w]) + 1] = x
      /\ \A i \in 1 .. Len(q[w]) : r[w][i] = q[w][i]
  BY <1>1
<1>4. p \in Workers \X (1 .. QueueCap)
  BY <1>1, Bounds
<1>5. p \notin Slots(q, n)
  BY <1>1 DEF Slots
<1>6. p \in Slots(r, n) <=> x.node = n
  BY <1>1, <1>3, <1>4 DEF Slots
<1>7. ASSUME NEW z \in Workers \X (1 .. QueueCap), z # p
      PROVE  z \in Slots(r, n) <=> z \in Slots(q, n)
  <2>1. z = <<z[1], z[2]>> /\ z[1] \in Workers /\ z[2] \in 1 .. QueueCap
    OBVIOUS
  <2>2. CASE z[1] # w
    BY <1>2, <2>1, <2>2, Zenon DEF Slots
  <2>3. CASE z[1] = w
    <3>1. z[2] # Len(q[w]) + 1
      BY <1>7, <2>1, <2>3, Zenon
    <3>2. z[2] <= Len(r[w]) <=> z[2] <= Len(q[w])
      BY <1>1, <1>3, <2>1, <3>1, Bounds
    <3>3. z[2] <= Len(q[w]) => r[w][z[2]] = q[w][z[2]]
      BY <1>1, <1>3, <2>1, Bounds
    <3> QED
      BY <2>3, <3>2, <3>3, Zenon DEF Slots
  <2> QED
    BY <2>2, <2>3, Zenon
<1> HIDE DEF p
<1>8. Slots(q, n) = Slots(r, n) \ {p}
  BY <1>5, <1>7, Zenon DEF Slots
<1>9. /\ IsFiniteSet(Slots(r, n))
      /\ Cardinality(Slots(r, n)) \in Nat /\ Cardinality(Slots(q, n)) \in Nat
  BY SlotsFinite, Zenon
<1>10. Cardinality(Slots(q, n)) = IF p \in Slots(r, n) THEN Cardinality(Slots(r, n)) - 1
                                  ELSE Cardinality(Slots(r, n))
  BY <1>8, <1>9, FS_RemoveElement, ZenonT(30)
<1> QED
  BY <1>6, <1>9, <1>10

LEMMA SlotsTail ==
  ASSUME NEW q \in Queues, NEW r, NEW w \in Workers, NEW n \in Nodes,
         q[w] # <<>>, r = [q EXCEPT ![w] = Tail(q[w])]
  PROVE  Cardinality(Slots(r, n))
           = Cardinality(Slots(q, n)) - (IF Head(q[w]).node = n THEN 1 ELSE 0)
<1> DEFINE p == <<w, 1>>
           S == Slots(q, n) \ {p}
           T == Slots(r, n)
           f == [z \in S |-> IF z[1] = w THEN <<w, z[2] - 1>> ELSE z]
<1>1. q \in [Workers -> Seq(Items)] /\ Len(q[w]) \in Nat /\ Len(q[w]) >= 1
      /\ Len(q[w]) <= QueueCap
  BY DEF Queues
<1>2. \A v \in Workers : v # w => r[v] = q[v]
  BY <1>1, Zenon
<1>3. /\ Len(r[w]) = Len(q[w]) - 1 /\ Head(q[w]) = q[w][1]
      /\ \A i \in 1 .. Len(q[w]) - 1 : r[w][i] = q[w][i + 1]
  BY <1>1
<1>4. p \in Slots(q, n) <=> Head(q[w]).node = n
  BY <1>1, <1>3, Bounds DEF Slots
<1>5. ASSUME NEW z \in S PROVE f[z] \in T
  <2>1. /\ z = <<z[1], z[2]>> /\ z[1] \in Workers /\ z[2] \in 1 .. QueueCap
        /\ z[2] <= Len(q[z[1]]) /\ q[z[1]][z[2]].node = n
    BY DEF Slots
  <2>2. CASE z[1] # w
    BY <1>2, <2>1, <2>2, Zenon DEF Slots
  <2>3. CASE z[1] = w
    <3>1. z[2] - 1 \in 1 .. Len(q[w]) - 1
      <4>1. z[2] # 1
        BY <2>1, <2>3, Zenon
      <4>2. z[2] \in 1 .. QueueCap /\ z[2] <= Len(q[w]) /\ Len(q[w]) \in Nat
        BY <1>1, <2>1, <2>3, Zenon
      <4> HIDE DEF S, T, f, p
      <4> QED
        BY <4>1, <4>2, Bounds
    <3>2. r[w][z[2] - 1] = q[w][z[2]]
      BY <1>3, <2>1, <3>1
    <3>3. <<w, z[2] - 1>> \in T
      BY <1>1, <1>3, <2>1, <2>3, <3>1, <3>2, Bounds DEF Slots
    <3> QED
      BY <2>3, <3>3, Zenon
  <2> QED
    BY <2>2, <2>3, Zenon
<1>6. ASSUME NEW t \in T PROVE \E z \in S : f[z] = t
  <2>1. /\ t = <<t[1], t[2]>> /\ t[1] \in Workers /\ t[2] \in 1 .. QueueCap
        /\ t[2] <= Len(r[t[1]]) /\ r[t[1]][t[2]].node = n
    BY DEF Slots
  <2>2. CASE t[1] # w
    <3>1. t \in Slots(q, n) /\ t # p
      BY <1>2, <2>1, <2>2 DEF Slots
    <3> QED
      BY <2>2, <3>1, Zenon
  <2>3. CASE t[1] = w
    <3>1. t[2] \in 1 .. Len(q[w]) - 1
      BY <1>1, <1>3, <2>1, <2>3, Bounds
    <3>2. q[w][t[2] + 1] = r[w][t[2]]
      BY <1>3, <3>1, Zenon
    <3>3. <<w, t[2] + 1>> \in Slots(q, n)
      BY <1>1, <2>1, <2>3, <3>1, <3>2, Bounds DEF Slots
    <3>4. <<w, t[2] + 1>> # p /\ (t[2] + 1) - 1 = t[2]
      BY <3>1
    <3>5. <<w, t[2] + 1>> \in S
      BY <3>3, <3>4, Zenon
    <3>6. f[<<w, t[2] + 1>>] = t
      BY <2>1, <2>3, <3>4, <3>5, Zenon
    <3> QED
      BY <3>5, <3>6, Zenon
  <2> QED
    BY <2>2, <2>3, Zenon
<1>7. ASSUME NEW y \in S, NEW z \in S, f[y] = f[z] PROVE y = z
  <2>1. /\ y = <<y[1], y[2]>> /\ y[2] \in 1 .. QueueCap
        /\ z = <<z[1], z[2]>> /\ z[2] \in 1 .. QueueCap
    BY DEF Slots
  <2>2. f[y] = (IF y[1] = w THEN <<w, y[2] - 1>> ELSE y)
        /\ f[z] = (IF z[1] = w THEN <<w, z[2] - 1>> ELSE z)
    BY Zenon
  <2>3. f[y][1] = y[1] /\ f[z][1] = z[1]
    BY <2>1, <2>2, Zenon
  <2>4. CASE y[1] # w
    BY <1>7, <2>2, <2>3, <2>4, Zenon
  <2>5. CASE y[1] = w
    <3>1. f[y][2] = y[2] - 1 /\ f[z][2] = z[2] - 1
      BY <1>7, <2>2, <2>3, <2>5, Zenon
    <3>2. y[2] = z[2]
      <4>1. y[2] - 1 = z[2] - 1
        BY <1>7, <3>1, Zenon
      <4> HIDE DEF S, T, f, p
      <4> QED
        BY <2>1, <4>1, Bounds
    <3> QED
      BY <1>7, <2>1, <2>3, <3>2, Zenon
  <2> QED
    BY <2>4, <2>5, Zenon
<1>8. f \in Bijection(S, T)
  <2>1. f \in [S -> T]
    BY <1>5, Zenon
  <2> HIDE DEF f, S, T
  <2>2. f \in Injection(S, T)
    BY <1>7, <2>1, Zenon DEF Injection, IsInjective
  <2>3. f \in Surjection(S, T)
    BY <1>6, <2>1, Zenon DEF Surjection
  <2> QED
    BY <2>2, <2>3, Zenon DEF Bijection
<1>9. IsFiniteSet(S) /\ Cardinality(S) = Cardinality(Slots(q, n))
                          - (IF p \in Slots(q, n) THEN 1 ELSE 0)
  <2>1. IsFiniteSet(Slots(q, n)) /\ Cardinality(Slots(q, n)) \in Nat
    BY SlotsFinite, Zenon
  <2>2. /\ IsFiniteSet(S)
        /\ Cardinality(S) = IF p \in Slots(q, n) THEN Cardinality(Slots(q, n)) - 1
                            ELSE Cardinality(Slots(q, n))
    BY <2>1, FS_RemoveElement, Zenon
  <2> HIDE DEF S, p
  <2> QED
    BY <2>1, <2>2
<1> HIDE DEF S, T, f
<1>10. Cardinality(T) = Cardinality(S)
  BY <1>8, <1>9, FS_Bijection, Zenon DEF ExistsBijection
<1> QED
  BY <1>4, <1>9, <1>10, Zenon DEF T

\* A worker counts while it has an item in hand.
LEMMA HandsChange ==
  ASSUME NEW f, NEW w \in Workers, NEW g, NEW n,
         \A v \in Workers : v # w => g[v] = f[v]
  PROVE  Cardinality(Hands(g, n)) = (Cardinality(Hands(f, n))
            - (IF w \in Hands(f, n) THEN 1 ELSE 0)) + (IF w \in Hands(g, n) THEN 1 ELSE 0)
<1>1. Hands(f, n) \ {w} = Hands(g, n) \ {w}
  BY Zenon DEF Hands
<1>2. /\ Cardinality(Hands(f, n) \ {w})
           = IF w \in Hands(f, n) THEN Cardinality(Hands(f, n)) - 1
             ELSE Cardinality(Hands(f, n))
      /\ Cardinality(Hands(g, n) \ {w})
           = IF w \in Hands(g, n) THEN Cardinality(Hands(g, n)) - 1
             ELSE Cardinality(Hands(g, n))
  BY HandsFinite, FS_RemoveElement, Zenon
<1>3. Cardinality(Hands(f, n)) \in Nat /\ Cardinality(Hands(g, n)) \in Nat
  BY HandsFinite, Zenon
<1> QED
  BY <1>1, <1>2, <1>3

\* What is pending, in a state and in the next.
LEMMA PendingCounts ==
  ASSUME Types, Types', NEW n \in Nodes
  PROVE  /\ queue \in Queues /\ queue' \in Queues
         /\ Queued(n) = Slots(queue, n) /\ Queued(n)' = Slots(queue', n)
         /\ InHand(n) = Hands(worker, n) /\ InHand(n)' = Hands(worker', n)
<1>1. queue \in Queues /\ queue' \in Queues
  BY Zenon DEF Types, WorkTypes, Queues
<1>2. PICK q \in Queues : q = queue
  BY <1>1, Zenon
<1>3. PICK r \in Queues : r = queue'
  BY <1>1, Zenon
<1>4. Queued(n) = {p \in UNION {{w} \X DOMAIN q[w] : w \in Workers} : q[p[1]][p[2]].node = n}
  BY <1>2, Zenon DEF Queued, Places
<1>5. Queued(n)' = {p \in UNION {{w} \X DOMAIN r[w] : w \in Workers} : r[p[1]][p[2]].node = n}
  BY <1>3, Zenon DEF Queued, Places
<1>6. Queued(n) = Slots(q, n) /\ Queued(n)' = Slots(r, n)
  BY <1>4, <1>5, QueuedIsSlots, Zenon
<1>7. InHand(n) = Hands(worker, n) /\ InHand(n)' = Hands(worker', n)
  BY Zenon DEF InHand, Hands
<1> QED
  BY <1>1, <1>2, <1>3, <1>6, <1>7, Zenon

\* The books of node n, in numbers.
Balanced(n) ==
  LET kept == Pending(n) + Len(snaps[n]) + probeRows[n] IN
  kept <= arrived[n] /\ arrived[n] <= kept + dropped[n] + dbErrors[n]

LEMMA PendingTypes ==
  ASSUME Types, Types', NEW n \in Nodes
  PROVE  /\ Cardinality(Queued(n)) \in Nat /\ Cardinality(Queued(n)') \in Nat
         /\ Cardinality(InHand(n)) \in Nat /\ Cardinality(InHand(n)') \in Nat
         /\ Len(snaps[n]) \in Nat /\ Len(snaps'[n]) \in Nat
         /\ probeRows[n] \in Nat /\ probeRows'[n] \in Nat
         /\ arrived[n] \in Nat /\ arrived'[n] \in Nat
         /\ dropped[n] \in Nat /\ dropped'[n] \in Nat
         /\ dbErrors[n] \in Nat /\ dbErrors'[n] \in Nat
<1>1. /\ Cardinality(Queued(n)) \in Nat /\ Cardinality(Queued(n)') \in Nat
      /\ Cardinality(InHand(n)) \in Nat /\ Cardinality(InHand(n)') \in Nat
  <2>1. PICK q, r, f, g : q = queue /\ r = queue' /\ f = worker /\ g = worker'
    BY Zenon
  <2> QED
    BY <2>1, PendingCounts, SlotsFinite, HandsFinite, Zenon
<1>2. StoreTypes /\ StoreTypes'
  BY Zenon DEF Types
<1>3. /\ Len(snaps[n]) \in Nat /\ probeRows[n] \in Nat /\ arrived[n] \in Nat
      /\ dropped[n] \in Nat /\ dbErrors[n] \in Nat
  BY <1>2 DEF StoreTypes
<1>4. /\ Len(snaps'[n]) \in Nat /\ probeRows'[n] \in Nat /\ arrived'[n] \in Nat
      /\ dropped'[n] \in Nat /\ dbErrors'[n] \in Nat
  BY <1>2 DEF StoreTypes
<1> QED
  BY <1>1, <1>3, <1>4, Zenon

\* Every step keeps the books of every node.
LEMMA BalanceStep ==
  ASSUME Types, Types', [Next]_vars, NEW n \in Nodes, Balanced(n)
  PROVE  Balanced(n)'
<1> DEFINE Q == Cardinality(Queued(n))
           H == Cardinality(InHand(n))
           S == Len(snaps[n])
<1>0. WorkTypes /\ HandlerTypes /\ StoreTypes
  BY Zenon DEF Types
<1>t. /\ Q \in Nat /\ Q' \in Nat /\ H \in Nat /\ H' \in Nat /\ S \in Nat /\ S' \in Nat
      /\ probeRows[n] \in Nat /\ probeRows'[n] \in Nat
      /\ arrived[n] \in Nat /\ arrived'[n] \in Nat
      /\ dropped[n] \in Nat /\ dropped'[n] \in Nat
      /\ dbErrors[n] \in Nat /\ dbErrors'[n] \in Nat
  BY PendingTypes, Zenon
<1>b. /\ Q + H + S + probeRows[n] <= arrived[n]
      /\ arrived[n] <= Q + H + S + probeRows[n] + dropped[n] + dbErrors[n]
  BY Zenon DEF Balanced, Pending
<1>g. Balanced(n)' <=>
        /\ Q' + H' + S' + probeRows'[n] <= arrived'[n]
        /\ arrived'[n] <= Q' + H' + S' + probeRows'[n] + dropped'[n] + dbErrors'[n]
  BY Zenon DEF Balanced, Pending
<1>c. PICK q \in Queues, r \in Queues : q = queue /\ r = queue'
  BY PendingCounts, Zenon
<1>f. PICK f, g : f = worker /\ g = worker'
  BY Zenon
<1>d. /\ Q = Cardinality(Slots(q, n)) /\ Q' = Cardinality(Slots(r, n))
      /\ H = Cardinality(Hands(f, n)) /\ H' = Cardinality(Hands(g, n))
  BY <1>c, <1>f, PendingCounts, Zenon
<1> HIDE DEF Q, H, S
<1>1. ASSUME NEW h \in Streams, SendToWorker(h) PROVE Balanced(n)'
  <2>1. PICK x \in Items : x = handler[h].item
    BY <1>0, <1>1, Zenon DEF SendToWorker, HandlerTypes
  <2>2. PICK w \in Workers, m \in Nodes : w = ShardOf[x.node] /\ m = x.node
    BY <2>1, ServerAssumption, Zenon DEF Items
  <2>3. UNCHANGED <<worker, snaps, probeRows, dbErrors>>
    BY <1>1, Zenon DEF SendToWorker, workVars, dbVars
  <2>4. arrived'[n] = IF m = n THEN arrived[n] + 1 ELSE arrived[n]
    <3>1. arrived \in [Nodes -> Nat]
      BY <1>0, Zenon DEF StoreTypes
    <3>2. arrived' = [arrived EXCEPT ![m] = arrived[m] + 1]
      BY <1>1, <2>1, <2>2, Zenon DEF SendToWorker
    <3> QED
      BY <3>1, <3>2, Zenon
  <2>5. H' = H /\ S' = S
    BY <1>c, <1>f, <1>d, <2>3, Zenon DEF S
  <2>6. CASE Len(q[w]) < QueueCap
    <3>1. r = [q EXCEPT ![w] = Append(q[w], x)] /\ dropped' = dropped
      BY <1>1, <1>c, <1>f, <2>1, <2>2, <2>6, Zenon DEF SendToWorker
    <3>2. Q' = Q + (IF m = n THEN 1 ELSE 0)
      <4>1. Cardinality(Slots(r, n))
              = Cardinality(Slots(q, n)) + (IF x.node = n THEN 1 ELSE 0)
        BY <2>6, <3>1, SlotsAppend, Zenon
      <4> QED
        BY <1>d, <2>2, <4>1, Zenon
    <3>3. PICK k \in {0, 1} : Q' = Q + k /\ arrived'[n] = arrived[n] + k
      <4>1. CASE m = n
        BY <2>4, <3>2, <4>1, Zenon
      <4>2. CASE m # n
        <5>1. arrived'[n] = arrived[n] + 0 /\ Q' = Q + 0
          BY <1>t, <2>4, <3>2, <4>2
        <5> QED
          BY <5>1, Zenon
      <4> QED
        BY <4>1, <4>2, Zenon
    <3>4. dropped'[n] = dropped[n] /\ dbErrors'[n] = dbErrors[n] /\ probeRows'[n] = probeRows[n]
      BY <2>3, <3>1, Zenon
    <3> QED
      BY <1>t, <1>b, <1>g, <2>5, <3>3, <3>4
  <2>7. CASE ~(Len(q[w]) < QueueCap)
    <3>1. r = q /\ dropped'[n] = IF m = n THEN dropped[n] + 1 ELSE dropped[n]
      <4>1. dropped \in [Nodes -> Nat]
        BY <1>0, Zenon DEF StoreTypes
      <4>2. r = q /\ dropped' = [dropped EXCEPT ![m] = dropped[m] + 1]
        BY <1>1, <1>c, <2>1, <2>2, <2>7, Zenon DEF SendToWorker
      <4> QED
        BY <4>1, <4>2, Zenon
    <3>2. Q' = Q /\ dbErrors'[n] = dbErrors[n] /\ probeRows'[n] = probeRows[n]
      BY <1>d, <2>3, <3>1, Zenon
    <3>3. CASE m = n
      <4>1. arrived'[n] = arrived[n] + 1 /\ dropped'[n] = dropped[n] + 1
        BY <2>4, <3>1, <3>3, Zenon
      <4> QED
        BY <1>t, <1>b, <1>g, <2>5, <3>2, <4>1
    <3>4. CASE m # n
      <4>1. arrived'[n] = arrived[n] /\ dropped'[n] = dropped[n]
        BY <2>4, <3>1, <3>4, Zenon
      <4> QED
        BY <1>t, <1>b, <1>g, <2>5, <3>2, <4>1
    <3> QED
      BY <3>3, <3>4, Zenon
  <2> QED
    BY <2>6, <2>7, Zenon
<1>2. ASSUME NEW w \in Workers, WorkerTakes(w) PROVE Balanced(n)'
  <2>1. UNCHANGED <<arrived, dropped, snaps, probeRows, dbErrors>>
    BY <1>2, Zenon DEF WorkerTakes, netVars, dbVars
  <2>2. q[w] # <<>> /\ r = [q EXCEPT ![w] = Tail(q[w])]
    BY <1>2, <1>c, <1>f, Zenon DEF WorkerTakes
  <2>3. PICK m : m = Head(q[w]).node
    BY Zenon
  <2>4. Q' = Q - (IF m = n THEN 1 ELSE 0)
    <3>1. Cardinality(Slots(r, n))
            = Cardinality(Slots(q, n)) - (IF Head(q[w]).node = n THEN 1 ELSE 0)
      BY <2>2, SlotsTail, Zenon
    <3> QED
      BY <1>d, <2>3, <3>1, Zenon
  <2>5. /\ \A v \in Workers : v # w => g[v] = f[v]
        /\ f[w].next = "recv" /\ g[w].item.node = m /\ g[w].next \in {"upsert", "probe"}
    BY <1>0, <1>2, <1>c, <1>f, <2>3, Zenon DEF WorkerTakes, WorkTypes
  <2>6. w \notin Hands(f, n) /\ (w \in Hands(g, n) <=> m = n)
    BY <2>5, Zenon DEF Hands
  <2>7. H' = (H - 0) + (IF m = n THEN 1 ELSE 0)
    BY <1>d, <2>5, <2>6, HandsChange
  <2>8. S' = S
    BY <2>1, Zenon DEF S
  <2> QED
    BY <1>t, <1>b, <1>g, <2>1, <2>4, <2>7, <2>8
<1>3. ASSUME NEW w \in Workers, WorkerUpserts(w) PROVE Balanced(n)'
  <2>1. UNCHANGED <<arrived, dropped, snaps, probeRows, dbErrors, queue>>
    BY <1>3, Zenon DEF WorkerUpserts, netVars, memVars
  <2>2. /\ \A v \in Workers : v # w => g[v] = f[v]
        /\ f[w].next = "upsert" /\ g[w].next = "insert" /\ g[w].item = f[w].item
    BY <1>0, <1>3, <1>c, <1>f, Zenon DEF WorkerUpserts, WorkTypes
  <2>3. w \in Hands(f, n) <=> w \in Hands(g, n)
    BY <2>2, Zenon DEF Hands
  <2>4. H' = H
    BY <1>d, <1>t, <2>2, <2>3, HandsChange
  <2>5. Q' = Q /\ S' = S
    BY <1>c, <1>f, <1>d, <2>1, Zenon DEF S
  <2> QED
    BY <1>b, <1>g, <2>1, <2>4, <2>5, Zenon
<1>4. ASSUME NEW w \in Workers, WorkerInserts(w) PROVE Balanced(n)'
  <2>1. UNCHANGED <<arrived, dropped, probeRows, queue>>
    BY <1>4, Zenon DEF WorkerInserts, netVars, memVars
  <2>2. PICK x \in Items : x = worker[w].item
    BY <1>0, <1>4, Zenon DEF WorkerInserts, WorkTypes
  <2>3. PICK m \in Nodes : m = x.node
    BY Zenon DEF Items
  <2>4. /\ \A v \in Workers : v # w => g[v] = f[v]
        /\ f[w].next = "insert" /\ f[w].item.node = m /\ g[w].next = "push"
    BY <1>0, <1>4, <1>c, <1>f, <2>2, <2>3, Zenon DEF WorkerInserts, WorkTypes
  <2>5. w \notin Hands(g, n) /\ (w \in Hands(f, n) <=> m = n)
    BY <2>4, Zenon DEF Hands
  <2>6. H' = (H - (IF m = n THEN 1 ELSE 0)) + 0
    BY <1>d, <2>4, <2>5, HandsChange
  <2>7. PICK o \in InsertOutcomes(m) :
          /\ snaps' = IF o.stored THEN [snaps EXCEPT ![m] = Append(@, x)] ELSE snaps
          /\ dbErrors' = IF o.error THEN [dbErrors EXCEPT ![m] = @ + 1] ELSE dbErrors
    BY <1>4, <2>2, <2>3, Zenon DEF WorkerInserts
  <2>8. o.stored \/ o.error
    BY Zenon DEF InsertOutcomes
  <2>9. S' = IF o.stored /\ m = n THEN S + 1 ELSE S
    <3>1. snaps \in [Nodes -> Seq(Items)]
      BY <1>0, Zenon DEF StoreTypes
    <3> QED
      BY <2>7, <3>1 DEF S
  <2>10. dbErrors'[n] = IF o.error /\ m = n THEN dbErrors[n] + 1 ELSE dbErrors[n]
    <3>1. dbErrors \in [Nodes -> Nat]
      BY <1>0, Zenon DEF StoreTypes
    <3> QED
      BY <2>7, <3>1, Zenon
  <2>11. Q' = Q
    BY <1>c, <1>f, <1>d, <2>1, Zenon
  <2> QED
    BY <1>t, <1>b, <1>g, <2>1, <2>6, <2>8, <2>9, <2>10, <2>11
<1>5. ASSUME NEW w \in Workers, WorkerPushes(w) PROVE Balanced(n)'
  <2>1. UNCHANGED <<arrived, dropped, snaps, probeRows, dbErrors, queue>>
    BY <1>5, Zenon DEF WorkerPushes, netVars, memVars, dbVars
  <2>2. /\ \A v \in Workers : v # w => g[v] = f[v]
        /\ f[w].next = "push" /\ g[w].next = "recv"
    BY <1>0, <1>5, <1>c, <1>f, Zenon DEF WorkerPushes, WorkTypes
  <2>3. w \notin Hands(f, n) /\ w \notin Hands(g, n)
    BY <2>2, Zenon DEF Hands
  <2>4. H' = H
    BY <1>d, <1>t, <2>2, <2>3, HandsChange
  <2>5. Q' = Q /\ S' = S
    BY <1>c, <1>f, <1>d, <2>1, Zenon DEF S
  <2> QED
    BY <1>b, <1>g, <2>1, <2>4, <2>5, Zenon
<1>6. ASSUME NEW w \in Workers, WorkerProbes(w) PROVE Balanced(n)'
  <2>1. UNCHANGED <<arrived, dropped, snaps, queue>>
    BY <1>6, Zenon DEF WorkerProbes, netVars, memVars
  <2>2. PICK m \in Nodes : m = worker[w].item.node
    BY <1>0, <1>6, Zenon DEF WorkerProbes, WorkTypes, Items
  <2>3. /\ \A v \in Workers : v # w => g[v] = f[v]
        /\ f[w].next = "probe" /\ f[w].item.node = m /\ g[w].next = "recv"
    BY <1>0, <1>6, <1>c, <1>f, <2>2, Zenon DEF WorkerProbes, WorkTypes
  <2>4. w \notin Hands(g, n) /\ (w \in Hands(f, n) <=> m = n)
    BY <2>3, Zenon DEF Hands
  <2>5. H' = (H - (IF m = n THEN 1 ELSE 0)) + 0
    BY <1>d, <2>3, <2>4, HandsChange
  <2>6. PICK o \in InsertOutcomes(m) :
          /\ probeRows' = IF o.stored THEN [probeRows EXCEPT ![m] = @ + 1] ELSE probeRows
          /\ dbErrors' = IF o.error THEN [dbErrors EXCEPT ![m] = @ + 1] ELSE dbErrors
    BY <1>6, <2>2, Zenon DEF WorkerProbes
  <2>7. o.stored \/ o.error
    BY Zenon DEF InsertOutcomes
  <2>8. probeRows'[n] = IF o.stored /\ m = n THEN probeRows[n] + 1 ELSE probeRows[n]
    <3>1. probeRows \in [Nodes -> Nat]
      BY <1>0, Zenon DEF StoreTypes
    <3> QED
      BY <2>6, <3>1, Zenon
  <2>9. dbErrors'[n] = IF o.error /\ m = n THEN dbErrors[n] + 1 ELSE dbErrors[n]
    <3>1. dbErrors \in [Nodes -> Nat]
      BY <1>0, Zenon DEF StoreTypes
    <3> QED
      BY <2>6, <3>1, Zenon
  <2>10. Q' = Q /\ S' = S
    BY <1>c, <1>f, <1>d, <2>1, Zenon DEF S
  <2> QED
    BY <1>t, <1>b, <1>g, <2>1, <2>5, <2>7, <2>8, <2>9, <2>10
<1>7. CASE Restart
  <2>1. UNCHANGED <<snaps, probeRows>> /\ arrived'[n] = Len(snaps[n]) + probeRows[n]
    BY <1>7, Zenon DEF Restart, dbVars
  <2>2. Slots(r, n) = {}
    <3>1. \A w \in Workers : Len(r[w]) = 0
      BY <1>7, <1>c, <1>f, Zenon DEF Restart
    <3> QED
      BY <3>1, Bounds DEF Slots
  <2>3. Hands(g, n) = {}
    BY <1>7, <1>c, <1>f, Zenon DEF Restart, Hands
  <2>4. Q' = 0 /\ H' = 0
    BY <1>d, <2>2, <2>3, FS_EmptySet, Zenon
  <2>5. S' = S /\ arrived'[n] = S + probeRows[n]
    BY <2>1, Zenon DEF S
  <2>6. probeRows'[n] = probeRows[n]
    BY <2>1, Zenon
  <2> QED
    BY <1>t, <1>g, <2>4, <2>5, <2>6
<1>8. CASE UNCHANGED <<queue, worker, snaps, probeRows, arrived, dropped, dbErrors>>
  <2>1. Q' = Q /\ H' = H /\ S' = S
    BY <1>8, <1>c, <1>f, <1>d, Zenon DEF S
  <2> QED
    BY <1>8, <1>b, <1>g, <2>1, Zenon
<1>9. ASSUME NEW h \in Streams, Handler(h), ~SendToWorker(h) PROVE Balanced(n)'
  BY <1>8, <1>9, HandlerFrame, ReceiverFrame, Zenon
<1>10. CASE Checker \/ Lookup \/ VmPushEnds \/ Tick \/ UNCHANGED vars
  BY <1>8, <1>10, CheckerFrame, LookupFrame, OtherFrame, Zenon
<1> QED
  BY <1>1, <1>2, <1>3, <1>4, <1>5, <1>6, <1>7, <1>9, <1>10 DEF Next, Worker

\* Whatever send_to_worker was given is pending or stored, at most once, or
\* else counted as dropped or failed: for any number of streams and workers
\* and any queue capacity.
THEOREM ItemsAccountedFor == Spec => []EveryItemAccountedFor
<1>1. EveryItemAccountedFor <=> \A n \in Nodes : Balanced(n)
  BY Zenon DEF EveryItemAccountedFor, Balanced
<1>2. Init => EveryItemAccountedFor
  <2> SUFFICES ASSUME Init, NEW n \in Nodes PROVE Balanced(n)
    BY <1>1, Zenon
  <2>1. Queued(n) = {} /\ InHand(n) = {}
    BY DEF Init, Queued, Places, InHand
  <2> QED
    BY <2>1, FS_EmptySet DEF Init, Balanced, Pending
<1>3. Types /\ Types' /\ EveryItemAccountedFor /\ [Next]_vars => EveryItemAccountedFor'
  <2> SUFFICES ASSUME Types, Types', \A n \in Nodes : Balanced(n), [Next]_vars
               PROVE  \A n \in Nodes : Balanced(n)'
    BY <1>1, Zenon DEF EveryItemAccountedFor, Balanced
  <2> QED
    BY BalanceStep, Zenon
<1> QED
  BY <1>2, <1>3, TypesHold, PTL DEF Spec

-----------------------------------------------------------------------------
(* The order of storage.                                                   *)

\* Every step keeps the items of a node on the way through its shard.
LEMMA ShardedStep ==
  ASSUME Types, Sharded, [Next]_vars
  PROVE  Sharded'
<1>0. WorkTypes /\ HandlerTypes /\ StoreTypes
  BY Zenon DEF Types
<1> DEFINE
     H == \A h \in Streams : handler[h].next = "enqueue" => handler[h].item.stream = h
     Q == \A w \in Workers : \A x \in Range(queue[w]) : ShardOf[x.node] = w
     W == \A w \in Workers : worker[w].next # "recv" => ShardOf[worker[w].item.node] = w
     S == \A n \in Nodes : \A x \in Range(snaps[n]) : x.node = n
<1>i. H /\ Q /\ W /\ S
  BY Zenon DEF Sharded
<1>g. H' /\ Q' /\ W' /\ S' => Sharded'
  BY Zenon DEF Sharded
<1>1. H'
  <2>1. ASSUME NEW h \in Streams, NEW ts \in Timestamps, StatsReceived(h, ts) PROVE H'
    BY <1>0, <1>i, <2>1, Zenon DEF StatsReceived, HandlerTypes
  <2>2. ASSUME NEW h \in Streams, NEW ts \in Timestamps, HeartbeatReceived(h, ts) PROVE H'
    BY <1>i, <2>2, Zenon DEF HeartbeatReceived
  <2>3. ASSUME NEW h \in Streams, ProbeReceived(h) PROVE H'
    BY <1>0, <1>i, <2>3, Zenon DEF ProbeReceived, HandlerTypes
  <2>4. ASSUME NEW h \in Streams, SendToWorker(h) PROVE H'
    BY <1>0, <1>i, <2>4, Zenon DEF SendToWorker, HandlerTypes
  <2>5. ASSUME NEW h \in Streams, BroadcastStats(h) PROVE H'
    BY <1>0, <1>i, <2>5, Zenon DEF BroadcastStats, HandlerTypes
  <2>6. CASE Restart
    BY <2>6, Zenon DEF Restart
  <2>7. CASE UNCHANGED handler
    BY <1>i, <2>7, Zenon
  <2> QED
    BY <2>1, <2>2, <2>3, <2>4, <2>5, <2>6, <2>7, WorkerFrame, CheckerFrame, LookupFrame,
       OtherFrame, Zenon DEF Next, Handler
<1>2. Q'
  <2>1. ASSUME NEW h \in Streams, SendToWorker(h) PROVE Q'
    <3>1. PICK x \in Items : x = handler[h].item
      BY <1>0, <2>1, Zenon DEF SendToWorker, HandlerTypes
    <3>2. PICK w \in Workers : w = ShardOf[x.node]
      BY <3>1, ServerAssumption, Zenon DEF Items
    <3>3. queue' = queue \/ queue' = [queue EXCEPT ![w] = Append(queue[w], x)]
      BY <2>1, <3>1, <3>2, Zenon DEF SendToWorker
    <3>4. queue \in [Workers -> Seq(Items)]
      BY <1>0, Zenon DEF WorkTypes
    <3>5. Range(Append(queue[w], x)) \subseteq Range(queue[w]) \cup {x}
      BY <3>4 DEF Range
    <3>6. CASE queue' = queue
      BY <1>i, <3>6, Zenon
    <3>7. CASE queue' = [queue EXCEPT ![w] = Append(queue[w], x)]
      BY <1>i, <3>2, <3>4, <3>5, <3>7, Zenon
    <3> QED
      BY <3>3, <3>6, <3>7, Zenon
  <2>2. ASSUME NEW w \in Workers, WorkerTakes(w) PROVE Q'
    <3>1. queue' = [queue EXCEPT ![w] = Tail(queue[w])] /\ queue[w] # <<>>
      BY <2>2, Zenon DEF WorkerTakes
    <3>2. queue \in [Workers -> Seq(Items)]
      BY <1>0, Zenon DEF WorkTypes
    <3>3. Range(Tail(queue[w])) \subseteq Range(queue[w])
      BY <3>1, <3>2 DEF Range
    <3> QED
      BY <1>i, <3>1, <3>2, <3>3, Zenon
  <2>3. CASE Restart
    BY <2>3 DEF Restart, Range
  <2>4. CASE UNCHANGED queue
    BY <1>i, <2>4, Zenon
  <2>5. ASSUME NEW w \in Workers, \/ WorkerUpserts(w) \/ WorkerInserts(w)
                                  \/ WorkerPushes(w) \/ WorkerProbes(w)
        PROVE  UNCHANGED queue
    BY <2>5, Zenon DEF WorkerUpserts, WorkerInserts, WorkerPushes, WorkerProbes, memVars
  <2> QED
    BY <2>1, <2>2, <2>3, <2>4, <2>5, ReceiverFrame, CheckerFrame, LookupFrame, OtherFrame, Zenon
       DEF Next, Worker
<1>3. W'
  <2>1. ASSUME NEW w \in Workers, WorkerTakes(w) PROVE W'
    <3>1. queue[w] \in Seq(Items) /\ queue[w] # <<>>
      BY <1>0, <2>1, Zenon DEF WorkerTakes, WorkTypes
    <3>2. Head(queue[w]) \in Range(queue[w])
      BY <3>1 DEF Range
    <3>3. ShardOf[Head(queue[w]).node] = w
      BY <1>i, <3>2, Zenon
    <3> QED
      BY <1>0, <1>i, <2>1, <3>3, Zenon DEF WorkerTakes, WorkTypes
  <2>2. ASSUME NEW w \in Workers, WorkerUpserts(w) PROVE W'
    BY <1>0, <1>i, <2>2 DEF WorkerUpserts, WorkTypes
  <2>3. ASSUME NEW w \in Workers, WorkerInserts(w) PROVE W'
    BY <1>0, <1>i, <2>3 DEF WorkerInserts, WorkTypes
  <2>4. ASSUME NEW w \in Workers, WorkerPushes(w) PROVE W'
    BY <1>0, <1>i, <2>4, Zenon DEF WorkerPushes, WorkTypes
  <2>5. ASSUME NEW w \in Workers, WorkerProbes(w) PROVE W'
    BY <1>0, <1>i, <2>5, Zenon DEF WorkerProbes, WorkTypes
  <2>6. CASE Restart
    BY <2>6, Zenon DEF Restart
  <2>7. CASE UNCHANGED worker
    BY <1>i, <2>7, Zenon
  <2> QED
    BY <2>1, <2>2, <2>3, <2>4, <2>5, <2>6, <2>7, HandlerFrame, CheckerFrame, LookupFrame,
       OtherFrame, Zenon DEF Next, Worker
<1>4. S'
  <2>1. ASSUME NEW w \in Workers, WorkerInserts(w) PROVE S'
    <3>1. PICK x \in Items : x = worker[w].item
      BY <1>0, <2>1, Zenon DEF WorkerInserts, WorkTypes
    <3>2. PICK n \in Nodes : n = x.node
      BY <3>1, Zenon DEF Items
    <3>3. snaps' = snaps \/ snaps' = [snaps EXCEPT ![n] = Append(snaps[n], x)]
      BY <2>1, <3>1, <3>2, Zenon DEF WorkerInserts
    <3>4. snaps \in [Nodes -> Seq(Items)]
      BY <1>0, Zenon DEF StoreTypes
    <3>5. Range(Append(snaps[n], x)) \subseteq Range(snaps[n]) \cup {x}
      BY <3>4 DEF Range
    <3>6. CASE snaps' = snaps
      BY <1>i, <3>6, Zenon
    <3>7. CASE snaps' = [snaps EXCEPT ![n] = Append(snaps[n], x)]
      BY <1>i, <3>2, <3>4, <3>5, <3>7, Zenon
    <3> QED
      BY <3>3, <3>6, <3>7, Zenon
  <2>2. CASE Restart
    BY <1>i, <2>2, Zenon DEF Restart, dbVars
  <2>3. CASE UNCHANGED snaps
    BY <1>i, <2>3, Zenon
  <2>4. ASSUME NEW w \in Workers, \/ WorkerTakes(w) \/ WorkerUpserts(w)
                                  \/ WorkerPushes(w) \/ WorkerProbes(w)
        PROVE  UNCHANGED snaps
    BY <2>4, Zenon DEF WorkerTakes, WorkerUpserts, WorkerPushes, WorkerProbes, dbVars
  <2> QED
    BY <2>1, <2>2, <2>3, <2>4, HandlerFrame, CheckerFrame, LookupFrame, OtherFrame, Zenon
       DEF Next, Worker
<1> QED
  BY <1>1, <1>2, <1>3, <1>4, <1>g, Zenon

\* Sequences stay in order when a later item is appended or the first removed.
LEMMA AppendInOrder ==
  ASSUME NEW q \in Seq(Items), NEW x \in Items, InOrder(q), Before(Range(q), {x})
  PROVE  InOrder(Append(q, x)) /\ Range(Append(q, x)) \subseteq Range(q) \cup {x}
<1>1. /\ Len(Append(q, x)) = Len(q) + 1 /\ Append(q, x)[Len(q) + 1] = x
      /\ \A i \in 1 .. Len(q) : Append(q, x)[i] = q[i]
      /\ DOMAIN q = 1 .. Len(q) /\ DOMAIN Append(q, x) = 1 .. Len(q) + 1 /\ Len(q) \in Nat
  OBVIOUS
<1>2. \A i \in 1 .. Len(q) : q[i].stream = x.stream => q[i].id < x.id
  BY <1>1, Zenon DEF Before, Range
<1>3. Range(Append(q, x)) \subseteq Range(q) \cup {x}
  BY <1>1 DEF Range
<1>4. InOrder(Append(q, x))
  BY <1>1, <1>2 DEF InOrder
<1> QED
  BY <1>3, <1>4, Zenon

LEMMA TailInOrder ==
  ASSUME NEW q \in Seq(Items), q # <<>>, InOrder(q)
  PROVE  /\ InOrder(Tail(q)) /\ Before({Head(q)}, Range(Tail(q)))
         /\ Head(q) \in Range(q) /\ Range(Tail(q)) \subseteq Range(q)
<1>1. /\ Len(q) \in Nat /\ Len(q) >= 1 /\ DOMAIN q = 1 .. Len(q) /\ Head(q) = q[1]
      /\ DOMAIN Tail(q) = 1 .. Len(q) - 1
      /\ \A i \in 1 .. Len(q) - 1 : Tail(q)[i] = q[i + 1]
  OBVIOUS
<1>2. InOrder(Tail(q))
  BY <1>1 DEF InOrder
<1>3. Head(q) \in Range(q) /\ Range(Tail(q)) \subseteq Range(q)
  BY <1>1 DEF Range
<1>4. Before({Head(q)}, Range(Tail(q)))
  BY <1>1 DEF InOrder, Before, Range
<1> QED
  BY <1>2, <1>3, <1>4, Zenon

\* What is anywhere on the way is an item.
LEMMA OnTheWay ==
  ASSUME Types
  PROVE  Arriving \cup Waiting \cup Held \cup Stored \subseteq Items
<1>1. Arriving \subseteq Items
  BY DEF Types, HandlerTypes, Arriving
<1>2. Waiting \subseteq Items
  BY DEF Types, WorkTypes, Waiting, Range
<1>3. Held \subseteq Items
  BY Zenon DEF Types, WorkTypes, Held
<1>4. Stored \subseteq Items
  BY DEF Types, StoreTypes, Stored, Range
<1> QED
  BY <1>1, <1>2, <1>3, <1>4, Zenon

\* A step that adds nothing and reorders nothing keeps the order.
LEMMA OrderKept ==
  ASSUME Types, Types', Ordered, msgs' >= msgs,
         Arriving' \subseteq Arriving, Waiting' \subseteq Waiting,
         Held' \subseteq Held, Stored' \subseteq Stored,
         \A n \in Nodes : InOrder(snaps'[n]), \A w \in Workers : InOrder(queue'[w])
  PROVE  Ordered'
<1>1. \A x \in Arriving \cup Waiting \cup Held \cup Stored : x.id <= msgs'
  <2>1. \A x \in Arriving \cup Waiting \cup Held \cup Stored : x.id \in Nat /\ x.id <= msgs
    BY OnTheWay, Zenon DEF Items, Ordered
  <2>2. msgs \in Nat /\ msgs' \in Nat
    BY DEF Types, HandlerTypes
  <2> QED
    BY <2>1, <2>2
<1> QED
  BY <1>1, Zenon DEF Ordered, Before, InOrder

\* A message that is received is later than all before it.
LEMMA OrderReceive ==
  ASSUME Types, Ordered, NEW h \in Streams, NEW x,
         handler' = [handler EXCEPT ![h] = [next |-> "enqueue", item |-> x]],
         x.id = msgs + 1, msgs' = msgs + 1, UNCHANGED <<queue, worker, snaps>>
  PROVE  Ordered'
<1>1. Waiting' = Waiting /\ Held' = Held /\ Stored' = Stored
  BY Zenon DEF Waiting, Held, Stored
<1>2. Arriving' \subseteq Arriving \cup {x}
  BY Zenon DEF Types, HandlerTypes, Arriving
<1>3. \A y \in Arriving \cup Waiting \cup Held \cup Stored :
        y.id <= msgs + 1 /\ y.id < x.id
  <2>1. \A y \in Arriving \cup Waiting \cup Held \cup Stored : y.id \in Nat /\ y.id <= msgs
    BY OnTheWay, Zenon DEF Items, Ordered
  <2>2. msgs \in Nat
    BY DEF Types, HandlerTypes
  <2> QED
    BY <2>1, <2>2
<1>4. msgs + 1 <= msgs + 1
  BY DEF Types, HandlerTypes
<1>5. \A y \in (Arriving \cup Waiting \cup Held \cup Stored)' : y.id <= msgs'
  BY <1>1, <1>2, <1>3, <1>4, Zenon
<1>6. Before(Stored, Arriving)' /\ Before(Held, Arriving)' /\ Before(Waiting, Arriving)'
  BY <1>1, <1>2, <1>3, Zenon DEF Ordered, Before
<1>7. Before(Stored, Held)' /\ Before(Stored, Waiting)' /\ Before(Held, Waiting)'
  BY <1>1, Zenon DEF Ordered, Before
<1>8. (\A n \in Nodes : InOrder(snaps'[n])) /\ (\A w \in Workers : InOrder(queue'[w]))
  BY Zenon DEF Ordered
<1> QED
  BY <1>5, <1>6, <1>7, <1>8, Zenon DEF Ordered, InOrder

\* An item goes to the end of its queue, or is dropped.
LEMMA OrderEnqueue ==
  ASSUME Types, Types', Sharded, Ordered, NEW h \in Streams, SendToWorker(h)
  PROVE  Ordered'
<1>0. WorkTypes /\ HandlerTypes
  BY Zenon DEF Types
<1>1. PICK x \in Items : x = handler[h].item
  BY <1>0, Zenon DEF SendToWorker, HandlerTypes
<1>2. PICK w \in Workers : w = ShardOf[x.node]
  BY <1>1, ServerAssumption, Zenon DEF Items
<1>3. UNCHANGED <<msgs, worker, snaps>>
  BY Zenon DEF SendToWorker, workVars, dbVars
<1>4. x \in Arriving /\ x.stream = h
  BY <1>1, Zenon DEF SendToWorker, Arriving, Sharded
<1>5. \A y \in Arriving' : y \in Arriving /\ y.stream # x.stream
  <2>1. ASSUME NEW y \in Arriving' PROVE y \in Arriving /\ y.stream # h
    <3>1. PICK g \in Streams : handler'[g].next = "enqueue" /\ y = handler'[g].item
      BY <2>1, Zenon DEF Arriving
    <3>2. g # h /\ handler'[g] = handler[g]
      BY <1>0, <3>1, Zenon DEF SendToWorker, HandlerTypes
    <3> QED
      BY <3>1, <3>2, Zenon DEF Arriving, Sharded
  <2> QED
    BY <1>4, <2>1, Zenon
<1>6. Held' = Held /\ Stored' = Stored
  BY <1>3, Zenon DEF Held, Stored
<1>7. CASE queue' = queue
  <2>1. Waiting' = Waiting
    BY <1>7, Zenon DEF Waiting
  <2>2. msgs' >= msgs
    BY <1>0, <1>3 DEF HandlerTypes
  <2>3. Arriving' \subseteq Arriving
    BY <1>5, Zenon
  <2>4. (\A n \in Nodes : InOrder(snaps'[n])) /\ (\A v \in Workers : InOrder(queue'[v]))
    BY <1>3, <1>7, Zenon DEF Ordered
  <2> QED
    BY <1>6, <2>1, <2>2, <2>3, <2>4, OrderKept, Zenon
<1>8. CASE queue' = [queue EXCEPT ![w] = Append(queue[w], x)]
  <2>1. queue \in [Workers -> Seq(Items)]
    BY <1>0, Zenon DEF WorkTypes
  <2>2. PICK q \in Seq(Items) : q = queue[w]
    BY <2>1, Zenon
  <2>3. InOrder(q) /\ Before(Range(q), {x})
    BY <1>4, <2>2, Zenon DEF Ordered, Before, Waiting
  <2>4. InOrder(Append(q, x)) /\ Range(Append(q, x)) \subseteq Range(q) \cup {x}
    BY <2>3, AppendInOrder, Zenon
  <2>5. \A v \in Workers : queue'[v] = IF v = w THEN Append(q, x) ELSE queue[v]
    BY <1>8, <2>1, <2>2, Zenon
  <2>6. \A v \in Workers : InOrder(queue'[v])
    BY <2>4, <2>5, Zenon DEF Ordered
  <2>7. Waiting' \subseteq Waiting \cup {x}
    BY <2>2, <2>4, <2>5, Zenon DEF Waiting
  <2>8. \A y \in (Arriving \cup Waiting \cup Held \cup Stored)' : y.id <= msgs'
    BY <1>3, <1>4, <1>5, <1>6, <2>7, Zenon DEF Ordered
  <2>9. Before(Stored, Waiting)' /\ Before(Held, Waiting)' /\ Before(Waiting, Arriving)'
    BY <1>4, <1>5, <1>6, <2>7, Zenon DEF Ordered, Before
  <2>10. Before(Stored, Held)' /\ Before(Stored, Arriving)' /\ Before(Held, Arriving)'
    BY <1>5, <1>6, Zenon DEF Ordered, Before
  <2>11. \A n \in Nodes : InOrder(snaps'[n])
    BY <1>3, Zenon DEF Ordered
  <2> QED
    BY <2>6, <2>8, <2>9, <2>10, <2>11, Zenon DEF Ordered, InOrder
<1> QED
  BY <1>1, <1>2, <1>7, <1>8, Zenon DEF SendToWorker

\* A worker takes the first item of its queue: the others of that stream are
\* behind it in the same queue.
LEMMA OrderTake ==
  ASSUME Types, Types', Sharded, Ordered, NEW w \in Workers, WorkerTakes(w)
  PROVE  Ordered'
<1>0. WorkTypes /\ WorkTypes'
  BY Zenon DEF Types
<1>1. queue \in [Workers -> Seq(Items)] /\ queue[w] # <<>>
  BY <1>0, Zenon DEF WorkTypes, WorkerTakes
<1>2. PICK q \in Seq(Items) : q = queue[w]
  BY <1>1, Zenon
<1>3. PICK k \in Items : k = Head(q)
  BY <1>1, <1>2
<1>4. /\ InOrder(Tail(q)) /\ Before({k}, Range(Tail(q)))
      /\ k \in Range(q) /\ Range(Tail(q)) \subseteq Range(q)
  <2>1. InOrder(q) /\ q # <<>>
    BY <1>1, <1>2, Zenon DEF Ordered
  <2> QED
    BY <1>3, <2>1, TailInOrder, Zenon
<1>5. \A v \in Workers : queue'[v] = IF v = w THEN Tail(q) ELSE queue[v]
  BY <1>1, <1>2, Zenon DEF WorkerTakes
<1>6. UNCHANGED <<msgs, handler, snaps>>
  BY Zenon DEF WorkerTakes, netVars, dbVars
<1>7. Waiting' \subseteq Waiting /\ k \in Waiting
  BY <1>2, <1>4, <1>5, Zenon DEF Waiting
<1>8. Held' \subseteq Held \cup {k}
  BY <1>0, <1>2, <1>3 DEF WorkerTakes, WorkTypes, Held
<1>9. Arriving' = Arriving /\ Stored' = Stored
  BY <1>6, Zenon DEF Arriving, Stored
<1>10. ASSUME NEW y \in Waiting', y.stream = k.stream PROVE k.id < y.id
  <2>1. PICK v \in Workers : y \in Range(queue'[v])
    BY <1>10, Zenon DEF Waiting
  <2>2. y \in Items
    BY <1>7, OnTheWay, Zenon
  <2>3. y.node = k.node
    BY <1>10, <2>2, Zenon DEF Items
  <2>4. ShardOf[k.node] = w /\ ShardOf[y.node] = v
    BY <1>2, <1>4, <1>5, <2>1, Zenon DEF Sharded
  <2>5. y \in Range(Tail(q))
    BY <1>5, <2>1, <2>3, <2>4, Zenon
  <2> QED
    BY <1>4, <1>10, <2>5, Zenon DEF Before
<1>11. \A y \in (Arriving \cup Waiting \cup Held \cup Stored)' : y.id <= msgs'
  BY <1>6, <1>7, <1>8, <1>9, Zenon DEF Ordered
<1>12. Before(Stored, Held)' /\ Before(Held, Waiting)' /\ Before(Held, Arriving)'
  BY <1>7, <1>8, <1>9, <1>10, Zenon DEF Ordered, Before
<1>13. Before(Stored, Waiting)' /\ Before(Stored, Arriving)' /\ Before(Waiting, Arriving)'
  BY <1>7, <1>9, Zenon DEF Ordered, Before
<1>14. (\A n \in Nodes : InOrder(snaps'[n])) /\ (\A v \in Workers : InOrder(queue'[v]))
  BY <1>4, <1>5, <1>6, Zenon DEF Ordered
<1> QED
  BY <1>11, <1>12, <1>13, <1>14, Zenon DEF Ordered, InOrder

\* A worker stores the item it holds: no other worker holds one of that stream.
LEMMA OrderInsert ==
  ASSUME Types, Types', Sharded, Ordered, NEW w \in Workers, WorkerInserts(w)
  PROVE  Ordered'
<1>0. WorkTypes /\ StoreTypes /\ HandlerTypes
  BY Zenon DEF Types
<1>1. PICK x \in Items : x = worker[w].item
  BY <1>0, Zenon DEF WorkerInserts, WorkTypes
<1>2. PICK n \in Nodes : n = x.node
  BY <1>1, Zenon DEF Items
<1>3. x \in Held /\ ShardOf[x.node] = w
  BY <1>1, Zenon DEF WorkerInserts, Held, Sharded
<1>4. UNCHANGED <<msgs, handler, queue>>
  BY Zenon DEF WorkerInserts, netVars, memVars
<1>5. ASSUME NEW y \in Held' PROVE y \in Held /\ y.stream # x.stream
  <2>1. PICK v \in Workers : worker'[v].next \in {"upsert", "insert"} /\ y = worker'[v].item
    BY <1>5, Zenon DEF Held
  <2>2. v # w /\ worker'[v] = worker[v]
    BY <1>0, <2>1, Zenon DEF WorkerInserts, WorkTypes
  <2>3. y \in Held /\ y \in Items /\ ShardOf[y.node] = v
    BY <1>0, <2>1, <2>2, ZenonT(30) DEF Held, Sharded, WorkTypes
  <2>4. y.node # x.node
    BY <1>3, <2>2, <2>3, Zenon
  <2> QED
    BY <2>3, <2>4, Zenon DEF Items
<1>6. Arriving' = Arriving /\ Waiting' = Waiting
  BY <1>4, Zenon DEF Arriving, Waiting
<1>7. \A v \in Workers : InOrder(queue'[v])
  BY <1>4, Zenon DEF Ordered
<1>8. CASE snaps' = snaps
  <2>1. Stored' = Stored
    BY <1>8, Zenon DEF Stored
  <2>2. msgs' >= msgs
    BY <1>0, <1>4 DEF HandlerTypes
  <2>3. Held' \subseteq Held
    BY <1>5, Zenon
  <2>4. \A m \in Nodes : InOrder(snaps'[m])
    BY <1>8, Zenon DEF Ordered
  <2> QED
    BY <1>6, <1>7, <2>1, <2>2, <2>3, <2>4, OrderKept, Zenon
<1>9. CASE snaps' = [snaps EXCEPT ![n] = Append(snaps[n], x)]
  <2>1. snaps \in [Nodes -> Seq(Items)]
    BY <1>0, Zenon DEF StoreTypes
  <2>2. PICK q \in Seq(Items) : q = snaps[n]
    BY <2>1, Zenon
  <2>3. InOrder(q) /\ Before(Range(q), {x})
    BY <1>3, <2>2, Zenon DEF Ordered, Before, Stored
  <2>4. InOrder(Append(q, x)) /\ Range(Append(q, x)) \subseteq Range(q) \cup {x}
    BY <2>3, AppendInOrder, Zenon
  <2>5. \A m \in Nodes : snaps'[m] = IF m = n THEN Append(q, x) ELSE snaps[m]
    BY <1>9, <2>1, <2>2, Zenon
  <2>6. \A m \in Nodes : InOrder(snaps'[m])
    BY <2>4, <2>5, Zenon DEF Ordered
  <2>7. Stored' \subseteq Stored \cup {x}
    BY <2>2, <2>4, <2>5, Zenon DEF Stored
  <2>8. \A y \in (Arriving \cup Waiting \cup Held \cup Stored)' : y.id <= msgs'
    BY <1>3, <1>4, <1>5, <1>6, <2>7, Zenon DEF Ordered
  <2>9. Before(Stored, Held)' /\ Before(Stored, Waiting)' /\ Before(Stored, Arriving)'
    BY <1>3, <1>5, <1>6, <2>7, Zenon DEF Ordered, Before
  <2>10. Before(Held, Waiting)' /\ Before(Held, Arriving)' /\ Before(Waiting, Arriving)'
    BY <1>5, <1>6, Zenon DEF Ordered, Before
  <2> QED
    BY <1>7, <2>6, <2>8, <2>9, <2>10, Zenon DEF Ordered, InOrder
<1> QED
  BY <1>1, <1>2, <1>8, <1>9, Zenon DEF WorkerInserts

\* Every step keeps the order.
LEMMA OrderedStep ==
  ASSUME Types, Types', Sharded, Ordered, [Next]_vars
  PROVE  Ordered'
<1>0. HandlerTypes /\ WorkTypes
  BY Zenon DEF Types
<1>t. msgs \in Nat
  BY <1>0 DEF HandlerTypes
<1>1. ASSUME NEW h \in Streams, NEW ts \in Timestamps, StatsReceived(h, ts) PROVE Ordered'
  <2>1. PICK x : x = [stream |-> h, node |-> NodeOf[h], kind |-> "stats",
                      id |-> msgs + 1, ts |-> ts]
    BY Zenon
  <2>2. /\ handler' = [handler EXCEPT ![h] = [next |-> "enqueue", item |-> x]]
        /\ x.id = msgs + 1 /\ msgs' = msgs + 1
    BY <1>1, <2>1, Zenon DEF StatsReceived
  <2>3. UNCHANGED <<queue, worker, snaps>>
    BY <1>1, Zenon DEF StatsReceived, workVars, dbVars
  <2> QED
    BY <2>2, <2>3, OrderReceive, Zenon
<1>2. ASSUME NEW h \in Streams, ProbeReceived(h) PROVE Ordered'
  <2>1. PICK x : x = [stream |-> h, node |-> NodeOf[h], kind |-> "probe",
                      id |-> msgs + 1, ts |-> now]
    BY Zenon
  <2>2. /\ handler' = [handler EXCEPT ![h] = [next |-> "enqueue", item |-> x]]
        /\ x.id = msgs + 1 /\ msgs' = msgs + 1
    BY <1>2, <2>1, Zenon DEF ProbeReceived
  <2>3. UNCHANGED <<queue, worker, snaps>>
    BY <1>2, Zenon DEF ProbeReceived, memVars, workVars, dbVars
  <2> QED
    BY <2>2, <2>3, OrderReceive, Zenon
<1>3. ASSUME msgs' >= msgs, Arriving' \subseteq Arriving, Held' \subseteq Held,
             UNCHANGED <<queue, snaps>>
      PROVE  Ordered'
  <2>1. Waiting' \subseteq Waiting /\ Stored' \subseteq Stored
    BY <1>3, Zenon DEF Waiting, Stored
  <2>2. (\A n \in Nodes : InOrder(snaps'[n])) /\ (\A w \in Workers : InOrder(queue'[w]))
    BY <1>3, Zenon DEF Ordered
  <2> QED
    BY <1>3, <2>1, <2>2, OrderKept, Zenon
<1>4. ASSUME NEW h \in Streams, NEW ts \in Timestamps, HeartbeatReceived(h, ts)
      PROVE  Ordered'
  <2>1. msgs' = msgs + 1 /\ UNCHANGED <<handler, worker, queue, snaps>>
    BY <1>4, Zenon DEF HeartbeatReceived, workVars, dbVars
  <2>2. msgs' >= msgs
    BY <1>t, <2>1
  <2>3. Arriving' \subseteq Arriving /\ Held' \subseteq Held
    BY <2>1, Zenon DEF Arriving, Held
  <2> QED
    BY <1>3, <2>1, <2>2, <2>3, Zenon
<1>5. ASSUME NEW h \in Streams, BroadcastStats(h) PROVE Ordered'
  <2>1. UNCHANGED <<msgs, worker, queue, snaps>>
    BY <1>5, Zenon DEF BroadcastStats, memVars, workVars, dbVars
  <2>2. Arriving' \subseteq Arriving
    BY <1>0, <1>5, Zenon DEF BroadcastStats, HandlerTypes, Arriving
  <2>3. Held' \subseteq Held
    BY <2>1, Zenon DEF Held
  <2> QED
    BY <1>t, <1>3, <2>1, <2>2, <2>3
<1>6. ASSUME NEW w \in Workers, WorkerUpserts(w) \/ WorkerPushes(w) \/ WorkerProbes(w)
      PROVE  Ordered'
  <2>1. UNCHANGED <<msgs, handler>>
    BY <1>6, WorkerFrame, Zenon DEF Worker
  <2>2. UNCHANGED <<queue, snaps>>
    BY <1>6, Zenon DEF WorkerUpserts, WorkerPushes, WorkerProbes, memVars, dbVars
  <2>3. Arriving' \subseteq Arriving
    BY <2>1, Zenon DEF Arriving
  <2>4. Held' \subseteq Held
    <3>1. CASE WorkerUpserts(w)
      BY <1>0, <3>1, Zenon DEF WorkerUpserts, WorkTypes, Held
    <3>2. CASE WorkerPushes(w)
      BY <1>0, <3>2, Zenon DEF WorkerPushes, WorkTypes, Held
    <3>3. CASE WorkerProbes(w)
      BY <1>0, <3>3, Zenon DEF WorkerProbes, WorkTypes, Held
    <3> QED
      BY <1>6, <3>1, <3>2, <3>3, Zenon
  <2> QED
    BY <1>t, <1>3, <2>1, <2>2, <2>3, <2>4
<1>7. CASE Restart
  <2>1. UNCHANGED <<msgs, snaps>>
    BY <1>7, Zenon DEF Restart, dbVars
  <2>2. Arriving' = {} /\ Held' = {} /\ Waiting' = {}
    BY <1>7 DEF Restart, Arriving, Held, Waiting, Range
  <2>3. Stored' = Stored
    BY <2>1, Zenon DEF Stored
  <2>4. (\A n \in Nodes : InOrder(snaps'[n])) /\ (\A w \in Workers : InOrder(queue'[w]))
    BY <1>7, <2>1 DEF Restart, Ordered, InOrder
  <2>5. msgs' >= msgs
    BY <1>t, <2>1
  <2> QED
    BY <2>2, <2>3, <2>4, <2>5, OrderKept, Zenon
<1>8. CASE Checker \/ Lookup \/ VmPushEnds \/ Tick \/ UNCHANGED vars
  <2>1. UNCHANGED <<msgs, handler, queue, worker, snaps>>
    BY <1>8, CheckerFrame, LookupFrame, OtherFrame, Zenon
  <2>2. Arriving' \subseteq Arriving /\ Held' \subseteq Held
    BY <2>1, Zenon DEF Arriving, Held
  <2> QED
    BY <1>t, <1>3, <2>1, <2>2
<1>9. ASSUME NEW h \in Streams, SendToWorker(h) PROVE Ordered'
  BY <1>9, OrderEnqueue, Zenon
<1>10. ASSUME NEW w \in Workers, WorkerTakes(w) PROVE Ordered'
  BY <1>10, OrderTake, Zenon
<1>11. ASSUME NEW w \in Workers, WorkerInserts(w) PROVE Ordered'
  BY <1>11, OrderInsert, Zenon
<1> QED
  BY <1>1, <1>2, <1>4, <1>5, <1>6, <1>7, <1>8, <1>9, <1>10, <1>11, Zenon
     DEF Next, Handler, Worker

\* The snapshots of a stream are stored in the order of their receipt, for any
\* number of streams, nodes and workers and any assignment of shards.
THEOREM StorageInOrder == Spec => []StorageKeepsStreamOrder
<1>1. Init => Sharded /\ Ordered
  <2> SUFFICES ASSUME Init PROVE Sharded /\ Ordered
    BY Zenon
  <2>1. Arriving = {} /\ Waiting = {} /\ Held = {} /\ Stored = {}
    BY SMTT(30) DEF Init, Arriving, Waiting, Held, Stored, Range
  <2>2. Ordered
    BY <2>1, SMTT(30) DEF Init, Ordered, Before, InOrder
  <2>3. Sharded
    <3>1. \A h \in Streams : handler[h].next # "enqueue"
      BY Zenon DEF Init
    <3>2. \A w \in Workers : worker[w].next = "recv"
      BY Zenon DEF Init
    <3>3. /\ \A w \in Workers : \A x \in Range(queue[w]) : x \in Waiting
          /\ \A n \in Nodes : \A x \in Range(snaps[n]) : x \in Stored
      BY Zenon DEF Waiting, Stored
    <3> QED
      BY <2>1, <3>1, <3>2, <3>3, Zenon DEF Sharded
  <2> QED
    BY <2>2, <2>3, Zenon
<1>2. Types /\ Types' /\ Sharded /\ Ordered /\ [Next]_vars => Sharded' /\ Ordered'
  BY ShardedStep, OrderedStep, Zenon
<1>3. Ordered => StorageKeepsStreamOrder
  BY Zenon DEF Ordered, InOrder, StorageKeepsStreamOrder
<1> QED
  BY <1>1, <1>2, <1>3, TypesHold, PTL DEF Spec
=============================================================================
