------------------------ MODULE AgentDeliveryProofs ------------------------
(***************************************************************************)
(* Agent implements Delivery, for every capacity and any number of         *)
(* sessions, tasks and snapshots, and with it delivers in order and none   *)
(* twice.                                                                  *)
(***************************************************************************)
EXTENDS AgentProofs

-----------------------------------------------------------------------------
(* What Delivery guarantees.                                               *)

\* The state of Delivery, in terms of the agent's.
Held == Range(buf)
Ups == [s \in Sessions |-> link[s] = "up"]
Outs == [s \in Sessions |-> Outstanding(s)]

DTypes ==
  /\ collected \in Nat
  /\ Held \subseteq Nat
  /\ sess \in Nat
  /\ Ups \in [Sessions -> BOOLEAN]
  /\ Outs \in [Sessions -> SUBSET Nat]
  /\ recv \in [Sessions -> Seq(Nat)]

\* m has been taken by session s: it is outstanding or received.
Taken(s, m) == m \in Outs[s] \/ \E i \in DOMAIN recv[s] : recv[s][i] = m

\* Only the latest session is up, and later ones have taken nothing.
LatestTakes ==
  \A s \in Sessions :
    /\ Ups[s] => s = sess
    /\ s > sess => Outs[s] = {} /\ recv[s] = <<>>

\* Snapshots are numbered in the order they are collected, and what has been
\* taken is older than what is held back and what a later session has taken.
TakenInOrder ==
  /\ \A m \in Held : m <= collected
  /\ \A s \in Sessions, m \in Nat :
       Taken(s, m) =>
         /\ m <= collected
         /\ \A h \in Held : m < h
         /\ \A t \in Sessions, n \in Nat : s < t /\ Taken(t, n) => m < n

\* Within a session everything received is older than what is outstanding,
\* and in order.
ReceivedInOrder ==
  \A s \in Sessions :
    /\ \A i \in DOMAIN recv[s], m \in Outs[s] : recv[s][i] < m
    /\ \A i, j \in DOMAIN recv[s] : i < j => recv[s][i] < recv[s][j]

OrderInv == DTypes /\ LatestTakes /\ TakenInOrder /\ ReceivedInOrder

\* Before anything is collected the invariant holds.
LEMMA OrderInit == D!Init => OrderInv
<1> SUFFICES ASSUME D!Init PROVE OrderInv
  BY Zenon
<1>1. DTypes
  BY DEF D!Init, Held, Ups, Outs, DTypes
<1>2. \A s \in Sessions : recv[s] = <<>> /\ Outs[s] = {} /\ ~Ups[s]
  BY Zenon DEF D!Init, Held, Ups, Outs
<1>3. \A s \in Sessions : DOMAIN recv[s] = {}
  <2>1. DOMAIN <<>> = {}
    OBVIOUS
  <2> QED
    BY <1>2, <2>1, Zenon
<1> QED
  BY <1>1, <1>2, <1>3, Zenon
     DEF D!Init, Held, Ups, Outs, OrderInv, LatestTakes, TakenInOrder, ReceivedInOrder, Taken

\* Every step keeps the types.
LEMMA DTypesStep == DTypes /\ [D!Next]_(D!vars) => DTypes'
<1> SUFFICES ASSUME DTypes, [D!Next]_(D!vars) PROVE DTypes'
  BY Zenon
<1> USE DEF DTypes
<1>1. CASE D!Collect
  <2>1. collected + 1 \in Nat
    OBVIOUS
  <2>2. Held' \subseteq Nat
    BY <1>1, <2>1, Zenon DEF D!Collect, Held, Ups, Outs
  <2> QED
    BY <1>1, <2>1, <2>2, Zenon DEF D!Collect, Held, Ups, Outs
<1>2. CASE D!Open
  BY <1>2 DEF D!Open, Held, Ups, Outs
<1>3. CASE D!Exit
  <2>1. Outs' \in [Sessions -> SUBSET Nat]
    BY <1>3, Zenon DEF D!Exit, Held, Ups, Outs
  <2> QED
    BY <1>3, <2>1, Zenon DEF D!Exit, Held, Ups, Outs
<1>4. ASSUME NEW s \in Sessions, D!Take(s) PROVE DTypes'
  <2>1. /\ Held' = {} /\ UNCHANGED <<collected, sess, Ups, recv>>
        /\ Outs' = IF Ups[s] THEN [Outs EXCEPT ![s] = @ \cup Held] ELSE Outs
    BY <1>4, Zenon DEF D!Take, Held, Ups, Outs
  <2> QED
    BY <2>1, Zenon
<1>5. ASSUME NEW s \in Sessions, D!Receive(s) PROVE DTypes'
  <2>1. PICK m \in Outs[s] : /\ Outs' = [Outs EXCEPT ![s] = @ \ {m}]
                             /\ recv' = [recv EXCEPT ![s] = Append(@, m)]
    BY <1>5, Zenon DEF D!Receive, Held, Ups, Outs
  <2>2. UNCHANGED <<collected, Held, sess, Ups>>
    BY <1>5, Zenon DEF D!Receive, Held, Ups, Outs
  <2> QED
    BY <2>1, <2>2
<1>6. ASSUME NEW s \in Sessions, D!Break(s) PROVE DTypes'
  BY <1>6, Zenon DEF D!Break, Held, Ups, Outs
<1>7. CASE UNCHANGED D!vars
  BY <1>7, Zenon DEF D!vars, Held, Ups, Outs
<1> QED
  BY <1>1, <1>2, <1>3, <1>4, <1>5, <1>6, <1>7, Zenon DEF D!Next

\* Sessions are numbered.
LEMMA SessionNumbers == Sessions \subseteq Nat
  BY AgentAssumption DEF Sessions

\* The elements of a sequence of numbers are numbers.
LEMMA ReceivedElement ==
  ASSUME NEW q \in Seq(Nat), NEW i \in DOMAIN q
  PROVE  q[i] \in Nat
  OBVIOUS

\* What a sequence holds after one more element.
LEMMA ReceivedAppend ==
  ASSUME NEW q \in Seq(Nat), NEW m \in Nat
  PROVE  /\ DOMAIN q = 1..Len(q) /\ Len(q) \in Nat
         /\ DOMAIN Append(q, m) = 1..(Len(q) + 1)
         /\ \A i \in DOMAIN q : Append(q, m)[i] = q[i] /\ q[i] \in Nat
         /\ Append(q, m)[Len(q) + 1] = m
  OBVIOUS

\* Only the latest session is ever up, and later ones stay empty.
LEMMA LatestTakesStep ==
  DTypes /\ LatestTakes /\ [D!Next]_(D!vars) => LatestTakes'
<1> Sessions \subseteq Nat
  BY SessionNumbers, Zenon
<1> SUFFICES ASSUME DTypes, LatestTakes, [D!Next]_(D!vars) PROVE LatestTakes'
  BY Zenon
<1> USE DEF DTypes, LatestTakes
<1>1. CASE D!Collect
  BY <1>1, Zenon DEF D!Collect, Held, Ups, Outs
<1>2. CASE D!Open
  <2>1. /\ sess + 1 \in Sessions /\ \A s \in Sessions : ~Ups[s]
        /\ sess' = sess + 1 /\ Ups' = [Ups EXCEPT ![sess + 1] = TRUE]
        /\ UNCHANGED <<Outs, recv>>
    BY <1>2, Zenon DEF D!Open, Held, Ups, Outs
  <2> QED
    BY <2>1
<1>3. CASE D!Exit
  BY <1>3, Zenon DEF D!Exit, Held, Ups, Outs
<1>4. ASSUME NEW s \in Sessions, D!Take(s) PROVE LatestTakes'
  BY <1>4 DEF D!Take, Held, Ups, Outs
<1>5. ASSUME NEW s \in Sessions, D!Receive(s) PROVE LatestTakes'
  BY <1>5, Zenon DEF D!Receive, Held, Ups, Outs
<1>6. ASSUME NEW s \in Sessions, D!Break(s) PROVE LatestTakes'
  <2>1. PICK rest \in SUBSET Outs[s] : Outs' = [Outs EXCEPT ![s] = rest]
    BY <1>6, Zenon DEF D!Break, Held, Ups, Outs
  <2>2. Ups' = [Ups EXCEPT ![s] = FALSE] /\ UNCHANGED <<sess, recv>>
    BY <1>6, Zenon DEF D!Break, Held, Ups, Outs
  <2> QED
    BY <2>1, <2>2, Zenon
<1>7. CASE UNCHANGED D!vars
  BY <1>7, Zenon DEF D!vars, Held, Ups, Outs
<1> QED
  BY <1>1, <1>2, <1>3, <1>4, <1>5, <1>6, <1>7, Zenon DEF D!Next

\* A step that takes nothing and puts nothing back keeps the order.
LEMMA NothingTaken ==
  ASSUME TakenInOrder, DTypes, collected' \in Nat, collected <= collected',
         \A m \in Held' : m <= collected' /\ (m \in Held \/ m > collected),
         \A s \in Sessions, m \in Nat : Taken(s, m)' => Taken(s, m),
         Held' \subseteq Nat, Sessions \subseteq Nat
  PROVE  TakenInOrder'
  BY DEF TakenInOrder, DTypes

\* What is taken is older than what is held back, step by step.
LEMMA TakenStep ==
  DTypes /\ LatestTakes /\ TakenInOrder /\ [D!Next]_(D!vars) => TakenInOrder'
<1> Sessions \subseteq Nat
  BY SessionNumbers, Zenon
<1> SUFFICES ASSUME DTypes, LatestTakes, TakenInOrder, [D!Next]_(D!vars)
             PROVE  TakenInOrder'
  BY Zenon
<1> USE DEF DTypes
<1>0. DTypes'
  BY DTypesStep, Zenon
<1>h. \A m \in Held : m <= collected
  BY Zenon DEF TakenInOrder
<1>1. CASE D!Collect
  <2>1. \A s \in Sessions, m \in Nat : Taken(s, m)' => Taken(s, m)
    BY <1>1, Zenon DEF D!Collect, Held, Ups, Outs, Taken
  <2> QED
    BY <1>0, <1>1, <1>h, <2>1, NothingTaken DEF D!Collect, Held, Ups, Outs
<1>2. CASE D!Open
  <2>1. \A s \in Sessions, m \in Nat : Taken(s, m)' => Taken(s, m)
    BY <1>2, Zenon DEF D!Open, Held, Ups, Outs, Taken
  <2> QED
    BY <1>0, <1>2, <1>h, <2>1, NothingTaken DEF D!Open, Held, Ups, Outs
<1>3. CASE D!Exit
  <2>1. \A s \in Sessions, m \in Nat : Taken(s, m)' => Taken(s, m)
    BY <1>3, Zenon DEF D!Exit, Held, Ups, Outs, Taken
  <2> QED
    BY <1>0, <1>3, <1>h, <2>1, NothingTaken DEF D!Exit, Held, Ups, Outs
<1>4. ASSUME NEW s \in Sessions, D!Take(s) PROVE TakenInOrder'
  <2>1. CASE ~Ups[s]
    <3>1. \A t \in Sessions, m \in Nat : Taken(t, m)' => Taken(t, m)
      BY <1>4, <2>1, Zenon DEF D!Take, Held, Ups, Outs, Taken
    <3> QED
      BY <1>0, <1>4, <2>1, <1>h, <3>1, NothingTaken DEF D!Take, Held, Ups, Outs
  <2>2. CASE Ups[s]
    <3>1. s = sess
      BY <2>2, Zenon DEF LatestTakes
    <3>2. \A t \in Sessions, m \in Nat :
            Taken(t, m)' => Taken(t, m) \/ (t = s /\ m \in Held)
      BY <1>4, <2>2, Zenon DEF D!Take, Held, Ups, Outs, Taken
    <3>3. \A t \in Sessions, m \in Nat : Taken(t, m)' => t <= s
      <4> SUFFICES ASSUME NEW t \in Sessions, t > sess, NEW m \in Nat
                   PROVE  ~Taken(t, m)'
        BY <3>1
      <4>1. Outs'[t] = {} /\ recv'[t] = <<>>
        <5>1. Outs' = [Outs EXCEPT ![s] = @ \cup Held] /\ recv' = recv
          BY <1>4, <2>2, Zenon DEF D!Take, Held, Ups, Outs
        <5> QED
          BY <3>1, <5>1 DEF LatestTakes
      <4>2. DOMAIN <<>> = {}
        OBVIOUS
      <4> QED
        BY <4>1, <4>2, Zenon DEF Taken
    <3>4. Held' = {} /\ collected' = collected
      BY <1>4, Zenon DEF D!Take, Held, Ups, Outs
    <3> QED
      BY <1>h, <3>2, <3>3, <3>4 DEF TakenInOrder
  <2> QED
    BY <2>1, <2>2, Zenon
<1>5. ASSUME NEW s \in Sessions, D!Receive(s) PROVE TakenInOrder'
  <2>1. PICK m \in Outs[s] : /\ Outs' = [Outs EXCEPT ![s] = @ \ {m}]
                            /\ recv' = [recv EXCEPT ![s] = Append(@, m)]
    BY <1>5, Zenon DEF D!Receive, Held, Ups, Outs
  <2>2. \A t \in Sessions, x \in Nat : Taken(t, x)' => Taken(t, x)
    <3> SUFFICES ASSUME NEW t \in Sessions, NEW x \in Nat, Taken(t, x)'
                 PROVE  Taken(t, x)
      BY Zenon
    <3>1. CASE t # s
      BY <2>1, <3>1, Zenon DEF Taken
    <3>2. CASE t = s
      <4>1. recv[s] \in Seq(Nat) /\ m \in Nat
        BY Zenon
      <4>2. Outs'[s] \subseteq Outs[s] /\ recv'[s] = Append(recv[s], m)
        BY <2>1, Zenon
      <4> QED
        BY <3>2, <4>1, <4>2, ReceivedAppend DEF Taken
    <3> QED
      BY <3>1, <3>2, Zenon
  <2> QED
    BY <1>0, <1>5, <1>h, <2>2, NothingTaken DEF D!Receive, Held, Ups, Outs
<1>6. ASSUME NEW s \in Sessions, D!Break(s) PROVE TakenInOrder'
  <2>1. \A t \in Sessions, m \in Nat : Taken(t, m)' => Taken(t, m)
    BY <1>6, Zenon DEF D!Break, Held, Ups, Outs, Taken
  <2> QED
    BY <1>0, <1>6, <1>h, <2>1, NothingTaken DEF D!Break, Held, Ups, Outs
<1>7. CASE UNCHANGED D!vars
  <2>1. \A t \in Sessions, m \in Nat : Taken(t, m)' => Taken(t, m)
    BY <1>7, Zenon DEF D!vars, Held, Ups, Outs, Taken
  <2> QED
    BY <1>0, <1>7, <1>h, <2>1, NothingTaken DEF D!vars, Held, Ups, Outs
<1> QED
  BY <1>1, <1>2, <1>3, <1>4, <1>5, <1>6, <1>7, Zenon DEF D!Next

\* A session's snapshots are received in order.
LEMMA ReceivedStep ==
  OrderInv /\ [D!Next]_(D!vars) => ReceivedInOrder'
<1> Sessions \subseteq Nat
  BY SessionNumbers, Zenon
<1> SUFFICES ASSUME DTypes, TakenInOrder, ReceivedInOrder, [D!Next]_(D!vars)
             PROVE  ReceivedInOrder'
  BY Zenon DEF OrderInv
<1> USE DEF DTypes
<1>1. CASE D!Collect
  BY <1>1, Zenon DEF D!Collect, Held, Ups, Outs, ReceivedInOrder
<1>2. CASE D!Open
  BY <1>2, Zenon DEF D!Open, Held, Ups, Outs, ReceivedInOrder
<1>3. CASE D!Exit
  BY <1>3, Zenon DEF D!Exit, Held, Ups, Outs, ReceivedInOrder
<1>4. ASSUME NEW s \in Sessions, D!Take(s) PROVE ReceivedInOrder'
  <2>1. \A i \in DOMAIN recv[s], m \in Held : recv[s][i] < m
    <3> SUFFICES ASSUME NEW i \in DOMAIN recv[s], NEW m \in Held
                 PROVE  recv[s][i] < m
      BY Zenon
    <3>1. recv[s] \in Seq(Nat)
      BY Zenon
    <3>2. recv[s][i] \in Nat
      BY <3>1, ReceivedElement, Zenon
    <3>3. Taken(s, recv[s][i])
      BY Zenon DEF Taken
    <3> QED
      BY <3>2, <3>3, Zenon DEF TakenInOrder
  <2> QED
    <3>1. /\ recv' = recv
          /\ Outs' = IF Ups[s] THEN [Outs EXCEPT ![s] = @ \cup Held] ELSE Outs
      BY <1>4, Zenon DEF D!Take, Held, Ups, Outs
    <3> QED
      BY <2>1, <3>1, Zenon DEF ReceivedInOrder
<1>5. ASSUME NEW s \in Sessions, D!Receive(s) PROVE ReceivedInOrder'
  <2>1. PICK m \in Outs[s] : /\ \A x \in Outs[s] : m <= x
                            /\ Outs' = [Outs EXCEPT ![s] = @ \ {m}]
                            /\ recv' = [recv EXCEPT ![s] = Append(@, m)]
    BY <1>5, Zenon DEF D!Receive, Held, Ups, Outs
  <2>2. recv[s] \in Seq(Nat) /\ m \in Nat /\ Outs[s] \subseteq Nat
    BY Zenon
  <2>3. recv'[s] = Append(recv[s], m) /\ Outs'[s] = Outs[s] \ {m}
    BY <2>1, Zenon
  <2>4. \A i \in DOMAIN recv'[s] :
          \/ i \in DOMAIN recv[s] /\ recv'[s][i] = recv[s][i]
          \/ i = Len(recv[s]) + 1 /\ recv'[s][i] = m
    BY <2>2, <2>3, ReceivedAppend
  <2>5. \A i \in DOMAIN recv[s] : recv[s][i] < m
    BY Zenon DEF ReceivedInOrder
  <2>6. \A i \in DOMAIN recv'[s], x \in Outs'[s] : recv'[s][i] < x
    BY <2>1, <2>2, <2>3, <2>4 DEF ReceivedInOrder
  <2>7. \A i, j \in DOMAIN recv'[s] : i < j => recv'[s][i] < recv'[s][j]
    <3>1. DOMAIN recv[s] = 1..Len(recv[s]) /\ Len(recv[s]) \in Nat
      BY <2>2
    <3> SUFFICES ASSUME NEW i \in DOMAIN recv'[s], NEW j \in DOMAIN recv'[s],
                        i < j
                 PROVE  recv'[s][i] < recv'[s][j]
      BY Zenon
    <3>2. i \in 1..(Len(recv[s]) + 1) /\ j \in 1..(Len(recv[s]) + 1)
      BY <2>2, <2>3, ReceivedAppend
    <3>3. i \in DOMAIN recv[s] /\ recv'[s][i] = recv[s][i]
      BY <2>4, <3>1, <3>2
    <3>4. CASE j \in DOMAIN recv[s]
      <4>1. recv'[s][j] = recv[s][j]
        BY <2>2, <2>3, <3>4, ReceivedAppend
      <4> QED
        BY <3>3, <3>4, <4>1, Zenon DEF ReceivedInOrder
    <3>5. CASE j \notin DOMAIN recv[s]
      BY <2>4, <2>5, <3>3, <3>5, Zenon
    <3> QED
      BY <3>4, <3>5, Zenon
  <2>8. \A t \in Sessions : t # s => recv'[t] = recv[t] /\ Outs'[t] = Outs[t]
    BY <2>1, Zenon
  <2> QED
    BY <2>6, <2>7, <2>8, Zenon DEF ReceivedInOrder
<1>6. ASSUME NEW s \in Sessions, D!Break(s) PROVE ReceivedInOrder'
  BY <1>6, Zenon DEF D!Break, Held, Ups, Outs, ReceivedInOrder
<1>7. CASE UNCHANGED D!vars
  BY <1>7, Zenon DEF D!vars, Held, Ups, Outs, ReceivedInOrder
<1> QED
  BY <1>1, <1>2, <1>3, <1>4, <1>5, <1>6, <1>7, Zenon DEF D!Next

\* The invariant gives the order within a session and across sessions.
LEMMA OrderFollows ==
  OrderInv => DeliveryOrder
<1> Sessions \subseteq Nat
  BY SessionNumbers, Zenon
<1> SUFFICES ASSUME OrderInv, NEW s \in Sessions, NEW t \in Sessions,
                    NEW i \in DOMAIN recv[s], NEW j \in DOMAIN recv[t],
                    s < t \/ (s = t /\ i < j)
             PROVE  recv[s][i] < recv[t][j]
  BY Zenon DEF DeliveryOrder
<1>1. recv[s] \in Seq(Nat) /\ recv[t] \in Seq(Nat)
  BY Zenon DEF OrderInv, DTypes
<1>2. recv[s][i] \in Nat /\ recv[t][j] \in Nat
  BY <1>1, ReceivedElement, Zenon
<1>3. Taken(s, recv[s][i]) /\ Taken(t, recv[t][j])
  BY Zenon DEF Taken
<1>4. CASE s < t
  BY <1>2, <1>3, <1>4, Zenon DEF OrderInv, TakenInOrder
<1>5. CASE s = t /\ i < j
  BY <1>5, Zenon DEF OrderInv, ReceivedInOrder
<1> QED
  BY <1>4, <1>5, Zenon

\* Whatever implements Delivery hands snapshots to the server in collection
\* order and none twice, within a session and across sessions.
THEOREM DeliveryOrderHolds ==
  D!Spec => []DeliveryOrder
<1> Sessions \subseteq Nat
  BY SessionNumbers, Zenon
<1>1. D!Init => OrderInv
  BY OrderInit, Zenon
<1>2. OrderInv /\ [D!Next]_(D!vars) => OrderInv'
  BY DTypesStep, LatestTakesStep, TakenStep, ReceivedStep, Zenon DEF OrderInv
<1>3. OrderInv => DeliveryOrder
  BY OrderFollows, Zenon
<1> QED
  BY <1>1, <1>2, <1>3, PTL DEF D!Spec

-----------------------------------------------------------------------------
(* The snapshots on their way.                                             *)

\* The snapshots in a queue.
Msgs(q) == Range(q) \ {Control}

\* Everything in A is older than everything in B.
Older(A, B) == \A a \in A, b \in B : a < b

\* The snapshots in a queue are in order.
Ascending(q) ==
  \A i, j \in DOMAIN q : i < j /\ q[i] # Control /\ q[j] # Control => q[i] < q[j]

\* From the server back to the holdback buffer, a session's snapshots get
\* newer: in flight, in the channel, in the forwarder's hands, held back.
Pipeline(s) ==
  /\ Ascending(wire[s]) /\ Ascending(chan[s]) /\ Ascending(batch[s])
  /\ Older(Msgs(wire[s]), Msgs(chan[s]))
  /\ Older(Msgs(wire[s]) \cup Msgs(chan[s]), Msgs(batch[s]))
  /\ Older(Msgs(wire[s]) \cup Msgs(chan[s]) \cup Msgs(batch[s]), Msgs(buf))
  /\ \A m \in Msgs(wire[s]) \cup Msgs(chan[s]) \cup Msgs(batch[s]) : m <= collected

InOrder == \A s \in Sessions : Pipeline(s)

DInv == IInv /\ WaitersWait /\ BatchIsSent /\ LatestIsUp /\ InOrder

\* What is in flight, in the channel, in the batch and held back, oldest first.
Path(W, C, B, H) ==
  Older(W, C) /\ Older(W \cup C, B) /\ Older(W \cup C \cup B, H)

\* A path stays ordered when it shrinks.
LEMMA PathShrinks ==
  ASSUME NEW W, NEW C, NEW B, NEW H, Path(W, C, B, H),
         NEW W1 \in SUBSET W, NEW C1 \in SUBSET C, NEW B1 \in SUBSET B, NEW H1 \in SUBSET H
  PROVE  Path(W1, C1, B1, H1)
BY Zenon DEF Path, Older

\* The oldest of a batch moves on into the channel.
LEMMA PathAdvances ==
  ASSUME NEW W, NEW C, NEW M, NEW T, NEW H, Path(W, C, M \cup T, H), Older(M, T)
  PROVE  Path(W, C \cup M, T, H)
BY Zenon DEF Path, Older

\* An empty queue.
LEMMA MsgsOfNone == Msgs(<<>>) = {} /\ Ascending(<<>>)
<1>1. DOMAIN <<>> = {}
  OBVIOUS
<1> QED
  BY <1>1, Zenon DEF Msgs, Range, Ascending

\* The snapshots of a typed queue are snapshots.
LEMMA MsgsType ==
  ASSUME NEW q \in Seq(Snapshots \cup {Control})
  PROVE  Msgs(q) \subseteq Snapshots
<1>1. \A i \in DOMAIN q : q[i] \in Snapshots \cup {Control}
  OBVIOUS
<1> QED
  BY <1>1, Zenon DEF Msgs, Range

\* A forwarder's queue holds nothing but snapshots.
LEMMA MsgsOfSnapshots ==
  ASSUME NEW q \in Seq(Snapshots)
  PROVE  Msgs(q) = Range(q)
<1>1. \A i \in DOMAIN q : q[i] \in Snapshots
  OBVIOUS
<1>2. Control \notin Snapshots
  BY DEF Control, Snapshots
<1> QED
  BY <1>1, <1>2, Zenon DEF Msgs, Range

\* A queue after one more message.
LEMMA MsgsAppend ==
  ASSUME NEW q \in Seq(Snapshots \cup {Control}), NEW m \in Snapshots \cup {Control}
  PROVE  /\ Msgs(Append(q, m)) = Msgs(q) \cup ({m} \ {Control})
         /\ Ascending(q) /\ Older(Msgs(q), {m} \ {Control}) => Ascending(Append(q, m))
<1> DEFINE r == Append(q, m)
<1>1. /\ DOMAIN q = 1 .. Len(q) /\ Len(q) \in Nat
      /\ DOMAIN r = 1 .. Len(q) + 1
      /\ \A i \in DOMAIN q : r[i] = q[i]
      /\ r[Len(q) + 1] = m
  OBVIOUS
<1> HIDE DEF r
<1>2. DOMAIN r = DOMAIN q \cup {Len(q) + 1}
  BY <1>1
<1>3. Range(r) = Range(q) \cup {m}
  BY <1>1, <1>2 DEF Range
<1>4. ASSUME Ascending(q), Older(Msgs(q), {m} \ {Control}),
             NEW i \in DOMAIN r, NEW j \in DOMAIN r, i < j,
             r[i] # Control, r[j] # Control
      PROVE  r[i] < r[j]
  <2>1. i \in DOMAIN q
    BY <1>1, <1>4
  <2>2. CASE j \in DOMAIN q
    BY <1>1, <1>4, <2>1, <2>2, Zenon DEF Ascending
  <2>3. CASE j = Len(q) + 1
    <3>1. r[i] \in Msgs(q)
      BY <1>1, <1>4, <2>1, Zenon DEF Msgs, Range
    <3> QED
      BY <1>1, <1>4, <2>3, <3>1, Zenon DEF Older
  <2> QED
    BY <1>2, <2>2, <2>3, Zenon
<1>5. Ascending(q) /\ Older(Msgs(q), {m} \ {Control}) => Ascending(r)
  BY <1>4, Zenon DEF Ascending
<1> QED
  BY <1>3, <1>5, Zenon DEF Msgs, r

\* A queue without its oldest message.
LEMMA MsgsTail ==
  ASSUME NEW q \in Seq(Snapshots \cup {Control}), q # <<>>
  PROVE  /\ Head(q) \in Snapshots \cup {Control}
         /\ Tail(q) \in Seq(Snapshots \cup {Control})
         /\ Msgs(q) = ({Head(q)} \ {Control}) \cup Msgs(Tail(q))
         /\ Ascending(q) => /\ Ascending(Tail(q))
                            /\ Older({Head(q)} \ {Control}, Msgs(Tail(q)))
<1> DEFINE t == Tail(q)
<1>1. /\ DOMAIN q = 1 .. Len(q) /\ Len(q) \in Nat /\ Len(q) > 0
      /\ t \in Seq(Snapshots \cup {Control})
      /\ DOMAIN t = 1 .. Len(q) - 1
      /\ \A i \in DOMAIN t : t[i] = q[i + 1]
      /\ Head(q) = q[1] /\ 1 \in DOMAIN q
  BY HeadTailProperties, LenProperties
<1> HIDE DEF t
<1>2. Head(q) \in Snapshots \cup {Control}
  BY <1>1
<1>3. \A i \in DOMAIN t : i \in Nat /\ i + 1 \in DOMAIN q /\ i + 1 > 1
  BY <1>1
<1>4. \A i \in DOMAIN q : i # 1 => i - 1 \in DOMAIN t /\ t[i - 1] = q[i]
  BY <1>1
<1>5. Range(q) = {Head(q)} \cup Range(t)
  <2>1. Range(t) \subseteq Range(q)
    BY <1>1, <1>3 DEF Range
  <2>2. Head(q) \in Range(q)
    BY <1>1, Zenon DEF Range
  <2>3. \A i \in DOMAIN q : q[i] = Head(q) \/ q[i] \in Range(t)
    BY <1>1, <1>4, Zenon DEF Range
  <2>4. Range(q) \subseteq {Head(q)} \cup Range(t)
    BY <2>3, Zenon DEF Range
  <2> QED
    BY <2>1, <2>2, <2>4, Zenon
<1>6. Ascending(q) => Ascending(t)
  <2> SUFFICES ASSUME Ascending(q), NEW i \in DOMAIN t, NEW j \in DOMAIN t, i < j,
                      t[i] # Control, t[j] # Control
               PROVE  t[i] < t[j]
    BY Zenon DEF Ascending
  <2>1. i + 1 \in DOMAIN q /\ j + 1 \in DOMAIN q /\ i + 1 < j + 1
    BY <1>3
  <2> QED
    BY <1>1, <2>1, Zenon DEF Ascending
<1>7. Ascending(q) => Older({Head(q)} \ {Control}, Msgs(t))
  <2> SUFFICES ASSUME Ascending(q), Head(q) # Control,
                      NEW i \in DOMAIN t, t[i] # Control
               PROVE  Head(q) < t[i]
    BY Zenon DEF Older, Msgs, Range
  <2> QED
    BY <1>1, <1>3, Zenon DEF Ascending
<1> QED
  BY <1>1, <1>2, <1>5, <1>6, <1>7, Zenon DEF Msgs, t

-----------------------------------------------------------------------------
(* The order of the snapshots on their way.                                *)

\* What is on its way in a session, and what is held back, are numbers.
LEMMA MsgsAreNumbers ==
  ASSUME TypeOK, NEW s \in Sessions
  PROVE  /\ Msgs(wire[s]) \subseteq Nat /\ Msgs(chan[s]) \subseteq Nat
         /\ Msgs(batch[s]) \subseteq Nat /\ Msgs(buf) \subseteq Nat
         /\ batch[s] \in Seq(Snapshots \cup {Control})
         /\ buf \in Seq(Snapshots \cup {Control})
<1>1. Snapshots \subseteq Nat
  BY DEF Snapshots
<1>2. \A q \in Seq(Snapshots) : q \in Seq(Snapshots \cup {Control})
  OBVIOUS
<1>3. wire[s] \in Seq(Snapshots \cup {Control}) /\ chan[s] \in Seq(Snapshots \cup {Control})
  BY SessionTypes, Zenon
<1>4. batch[s] \in Seq(Snapshots \cup {Control}) /\ buf \in Seq(Snapshots \cup {Control})
  BY <1>2, SessionTypes, Zenon DEF TypeOK, BufTypeOK
<1> QED
  BY <1>1, <1>3, <1>4, MsgsType, Zenon

\* The holdback buffer is in order, and what it holds has been collected.
LEMMA HoldbackAscends ==
  ASSUME TypeOK, HoldbackIsNewestRun
  PROVE  Ascending(buf) /\ \A m \in Msgs(buf) : m <= collected
<1>1. buf \in Seq(Snapshots) /\ collected \in Nat
  BY AgentAssumption DEF TypeOK, BufTypeOK
<1>2. DOMAIN buf = 1 .. Len(buf) /\ Len(buf) \in Nat
  BY <1>1
<1>3. \A i \in 1 .. Len(buf) : buf[i] = collected - Len(buf) + i
  BY <1>2, Zenon DEF HoldbackIsNewestRun
<1>4. Ascending(buf)
  BY <1>1, <1>2, <1>3 DEF Ascending
<1>5. \A i \in 1 .. Len(buf) : buf[i] <= collected
  BY <1>1, <1>2, <1>3, SMTT(60)
<1> QED
  BY <1>2, <1>4, <1>5, Zenon DEF Msgs, Range

\* A session whose queues lose nothing but their contents stays in order.
LEMMA PipelineShrinks ==
  ASSUME NEW s \in Sessions, Pipeline(s), collected' = collected,
         wire'[s] = wire[s] \/ wire'[s] = <<>>,
         chan'[s] = chan[s] \/ chan'[s] = <<>>,
         batch'[s] = batch[s] \/ batch'[s] = <<>>,
         buf' = buf \/ buf' = <<>>
  PROVE  Pipeline(s)'
<1>1. /\ Msgs(wire'[s]) \subseteq Msgs(wire[s]) /\ Ascending(wire'[s])
      /\ Msgs(chan'[s]) \subseteq Msgs(chan[s]) /\ Ascending(chan'[s])
      /\ Msgs(batch'[s]) \subseteq Msgs(batch[s]) /\ Ascending(batch'[s])
      /\ Msgs(buf') \subseteq Msgs(buf)
  BY MsgsOfNone, Zenon DEF Pipeline
<1>2. /\ Older(Msgs(wire'[s]), Msgs(chan'[s]))
      /\ Older(Msgs(wire'[s]) \cup Msgs(chan'[s]), Msgs(batch'[s]))
      /\ Older(Msgs(wire'[s]) \cup Msgs(chan'[s]) \cup Msgs(batch'[s]), Msgs(buf'))
  <2>1. Path(Msgs(wire[s]), Msgs(chan[s]), Msgs(batch[s]), Msgs(buf))
    BY Zenon DEF Pipeline, Path
  <2>2. Path(Msgs(wire'[s]), Msgs(chan'[s]), Msgs(batch'[s]), Msgs(buf'))
    BY <1>1, <2>1, PathShrinks
  <2> QED
    BY <2>2, Zenon DEF Path
<1>3. \A m \in Msgs(wire'[s]) \cup Msgs(chan'[s]) \cup Msgs(batch'[s]) : m <= collected'
  BY <1>1, Zenon DEF Pipeline
<1> QED
  BY <1>1, <1>2, <1>3, Zenon DEF Pipeline

\* A snapshot just collected is newer than all that are on their way.
LEMMA PushInOrder ==
  ASSUME IInv, InOrder, IInv', CollectorPush
  PROVE  InOrder'
<1> SUFFICES ASSUME NEW s \in Sessions PROVE Pipeline(s)'
  BY Zenon DEF InOrder
<1> DEFINE W == Msgs(wire[s])
           C == Msgs(chan[s])
           B == Msgs(batch[s])
<1>1. TypeOK /\ Pipeline(s)
  BY Zenon DEF IInv, InOrder
<1>2. W \subseteq Nat /\ C \subseteq Nat /\ B \subseteq Nat /\ Msgs(buf) \subseteq Nat
  BY <1>1, MsgsAreNumbers, Zenon
<1>3. buf \in Seq(Snapshots \cup {Control}) /\ collected \in Nat
      /\ collected + 1 \in Snapshots \cup {Control}
  BY <1>1, MsgsAreNumbers, AgentAssumption
     DEF TypeOK, BufTypeOK, CollectorPush, Snapshots
<1>4. Msgs(buf') \subseteq Msgs(buf) \cup {collected + 1}
  <2>1. CASE Len(buf) >= BufferCap
    <3>1. buf # <<>>
      BY <2>1, BufferCapAssumption
    <3>2. Tail(buf) \in Seq(Snapshots \cup {Control}) /\ Msgs(Tail(buf)) \subseteq Msgs(buf)
      BY <1>3, <3>1, MsgsTail, Zenon
    <3>3. buf' = Append(Tail(buf), collected + 1)
      BY <2>1, Zenon DEF CollectorPush, Push
    <3> QED
      BY <1>3, <3>2, <3>3, MsgsAppend, Zenon
  <2>2. CASE ~(Len(buf) >= BufferCap)
    <3>1. buf' = Append(buf, collected + 1)
      BY <2>2, Zenon DEF CollectorPush, Push
    <3> QED
      BY <1>3, <3>1, MsgsAppend, Zenon
  <2> QED
    BY <2>1, <2>2, Zenon
<1>5. UNCHANGED <<wire, chan, batch>> /\ collected' = collected + 1
  BY Zenon DEF CollectorPush, taskVars, netVars
<1>6. \A m \in W \cup C \cup B : m <= collected /\ m < collected + 1 /\ m <= collected + 1
  BY <1>1, <1>2, <1>3 DEF Pipeline
<1>7. Older(W \cup C \cup B, Msgs(buf'))
  BY <1>1, <1>4, <1>6, Zenon DEF Pipeline, Older
<1> QED
  BY <1>1, <1>5, <1>6, <1>7, Zenon DEF Pipeline

\* The batch a forwarder takes is in order and newer than what it has sent.
LEMMA DrainInOrder ==
  ASSUME IInv, BatchIsSent, NEW s \in Sessions, Pipeline(s), ForwarderDrains(s)
  PROVE  Pipeline(s)'
<1> TypeOK /\ HoldbackIsNewestRun
  BY Zenon DEF IInv
<1>1. /\ batch'[s] = buf /\ buf' = <<>>
      /\ UNCHANGED <<wire, chan, collected>>
  BY SessionTypes, Zenon DEF ForwarderDrains, Drained, EmptyBuffer, netVars
<1>2. Msgs(buf') = {}
  BY <1>1, MsgsOfNone, Zenon
<1>3. Ascending(buf) /\ \A m \in Msgs(buf) : m <= collected
  BY HoldbackAscends, Zenon
<1>4. /\ Ascending(wire'[s]) /\ Ascending(chan'[s]) /\ Ascending(batch'[s])
      /\ Older(Msgs(wire'[s]), Msgs(chan'[s]))
      /\ \A m \in Msgs(wire'[s]) \cup Msgs(chan'[s]) \cup Msgs(batch'[s]) : m <= collected'
  BY <1>1, <1>3, Zenon DEF Pipeline
<1>5. Older(Msgs(wire'[s]) \cup Msgs(chan'[s]), Msgs(batch'[s]))
  BY <1>1, Zenon DEF Pipeline, Older
<1> QED
  BY <1>2, <1>4, <1>5, Zenon DEF Pipeline, Older

\* A snapshot moves from the batch to the end of the channel.
LEMMA SendInOrder ==
  ASSUME IInv, NEW s \in Sessions, Pipeline(s), ForwarderSends(s)
  PROVE  Pipeline(s)'
<1> TypeOK
  BY Zenon DEF IInv
<1> DEFINE m == Head(batch[s])
           M == {m} \ {Control}
           T == Msgs(Tail(batch[s]))
<1>1. chan[s] \in Seq(Snapshots \cup {Control}) /\ batch[s] \in Seq(Snapshots \cup {Control})
      /\ batch[s] # <<>>
  BY SessionTypes, MsgsAreNumbers, Zenon DEF ForwarderSends
<1>2. /\ m \in Snapshots \cup {Control}
      /\ Msgs(batch[s]) = M \cup T
      /\ Ascending(Tail(batch[s])) /\ Older(M, T)
  BY <1>1, MsgsTail, Zenon DEF Pipeline
<1>3. /\ chan'[s] = Append(chan[s], m) /\ batch'[s] = Tail(batch[s])
      /\ UNCHANGED <<wire, buf, collected>>
  BY SessionTypes, Zenon DEF ForwarderSends, bufVars
<1>4. Older(Msgs(chan[s]), M)
  BY <1>2, Zenon DEF Pipeline, Older
<1>5. Msgs(chan'[s]) = Msgs(chan[s]) \cup M /\ Ascending(chan'[s])
  BY <1>1, <1>2, <1>3, <1>4, MsgsAppend, ZenonT(60) DEF Pipeline
<1> HIDE DEF m, M, T
<1>6. Msgs(batch'[s]) = T /\ Ascending(batch'[s])
  BY <1>2, <1>3, Zenon DEF T
<1>7. /\ Older(Msgs(wire'[s]), Msgs(chan'[s]))
      /\ Older(Msgs(wire'[s]) \cup Msgs(chan'[s]), Msgs(batch'[s]))
      /\ Older(Msgs(wire'[s]) \cup Msgs(chan'[s]) \cup Msgs(batch'[s]), Msgs(buf'))
  <2>1. Path(Msgs(wire[s]), Msgs(chan[s]), M \cup T, Msgs(buf))
    BY <1>2, Zenon DEF Pipeline, Path
  <2>2. Path(Msgs(wire[s]), Msgs(chan[s]) \cup M, T, Msgs(buf))
    BY <1>2, <2>1, PathAdvances, Zenon
  <2>3. wire'[s] = wire[s] /\ buf' = buf
    BY <1>3, Zenon
  <2> QED
    BY <1>5, <1>6, <2>2, <2>3, Zenon DEF Path
<1>8. \A x \in Msgs(wire'[s]) \cup Msgs(chan'[s]) \cup Msgs(batch'[s]) : x <= collected'
  BY <1>2, <1>3, <1>5, <1>6, Zenon DEF Pipeline
<1> QED
  BY <1>3, <1>5, <1>6, <1>7, <1>8, Zenon DEF Pipeline

\* A control message in the channel is in nobody's way.
LEMMA ControlInOrder ==
  ASSUME IInv, NEW s \in Sessions, Pipeline(s), SendControl(s)
  PROVE  Pipeline(s)' /\ Msgs(chan'[s]) = Msgs(chan[s])
<1> TypeOK
  BY Zenon DEF IInv
<1>1. chan[s] \in Seq(Snapshots \cup {Control}) /\ chan'[s] = Append(chan[s], Control)
  BY SessionTypes, Zenon DEF SendControl
<1>2. {Control} \ {Control} = {}
  BY Zenon
<1>3. Msgs(chan'[s]) = Msgs(chan[s]) /\ Ascending(chan'[s])
  <2>1. Ascending(chan[s])
    BY Zenon DEF Pipeline
  <2>2. Older(Msgs(chan[s]), {Control} \ {Control})
    BY <1>2, Zenon DEF Older
  <2>3. Control \in Snapshots \cup {Control}
    BY Zenon
  <2>4. Msgs(Append(chan[s], Control)) = Msgs(chan[s]) \cup ({Control} \ {Control})
    BY <1>1, <2>3, MsgsAppend, Zenon
  <2>5. Ascending(Append(chan[s], Control))
    BY <1>1, <2>1, <2>2, <2>3, MsgsAppend, Zenon
  <2> QED
    BY <1>1, <1>2, <2>4, <2>5, Zenon
<1>4. UNCHANGED <<wire, batch, buf, collected>>
  BY Zenon DEF SendControl, bufVars
<1> QED
  BY <1>3, <1>4, Zenon DEF Pipeline

\* The oldest message of the channel goes on its way to the server.
LEMMA TransmitInOrder ==
  ASSUME IInv, NEW s \in Sessions, Pipeline(s), Transmit(s)
  PROVE  /\ Pipeline(s)'
         /\ Msgs(wire'[s]) \cup Msgs(chan'[s]) = Msgs(wire[s]) \cup Msgs(chan[s])
<1> TypeOK
  BY Zenon DEF IInv
<1> DEFINE m == Head(chan[s])
           M == {m} \ {Control}
           T == Msgs(Tail(chan[s]))
<1>1. /\ chan[s] \in Seq(Snapshots \cup {Control}) /\ chan[s] # <<>>
      /\ wire[s] \in Seq(Snapshots \cup {Control})
  BY SessionTypes, Zenon DEF Transmit
<1>2. /\ m \in Snapshots \cup {Control}
      /\ Msgs(chan[s]) = M \cup T
      /\ Ascending(Tail(chan[s])) /\ Older(M, T)
  BY <1>1, MsgsTail, Zenon DEF Pipeline
<1>3. /\ wire'[s] = Append(wire[s], m) /\ chan'[s] = Tail(chan[s])
      /\ UNCHANGED <<batch, buf, collected>>
  BY SessionTypes, Zenon DEF Transmit, bufVars, taskVars
<1>4. Older(Msgs(wire[s]), M)
  BY <1>2, Zenon DEF Pipeline, Older
<1>5. Msgs(wire'[s]) = Msgs(wire[s]) \cup M /\ Ascending(wire'[s])
  BY <1>1, <1>2, <1>3, <1>4, MsgsAppend, ZenonT(60) DEF Pipeline
<1> HIDE DEF m, M, T
<1>6. Msgs(chan'[s]) = T /\ Ascending(chan'[s])
  BY <1>2, <1>3, Zenon DEF T
<1>7. Older(Msgs(wire'[s]), Msgs(chan'[s]))
  <2>1. Older(Msgs(wire[s]), M \cup T)
    BY <1>2, Zenon DEF Pipeline
  <2>2. Older(Msgs(wire[s]) \cup M, T)
    BY <1>2, <2>1, Zenon DEF Older
  <2> QED
    BY <1>5, <1>6, <2>2, Zenon
<1>8. Msgs(wire'[s]) \cup Msgs(chan'[s]) = Msgs(wire[s]) \cup Msgs(chan[s])
  BY <1>2, <1>5, <1>6, ZenonT(60)
<1> QED
  BY <1>3, <1>5, <1>6, <1>7, <1>8, Zenon DEF Pipeline

\* The server receives the oldest message in flight.
LEMMA DeliverInOrder ==
  ASSUME IInv, NEW s \in Sessions, Pipeline(s), Deliver(s)
  PROVE  /\ Pipeline(s)'
         /\ Msgs(wire[s]) = ({Head(wire[s])} \ {Control}) \cup Msgs(wire'[s])
         /\ Older({Head(wire[s])} \ {Control}, Msgs(wire'[s]))
<1> TypeOK
  BY Zenon DEF IInv
<1>1. wire[s] \in Seq(Snapshots \cup {Control}) /\ wire[s] # <<>>
  BY SessionTypes, Zenon DEF Deliver
<1>2. wire'[s] = Tail(wire[s]) /\ UNCHANGED <<chan, batch, buf, collected>>
  BY SessionTypes, Zenon DEF Deliver, bufVars, taskVars
<1>3. /\ Msgs(wire[s]) = ({Head(wire[s])} \ {Control}) \cup Msgs(wire'[s])
      /\ Ascending(wire'[s])
      /\ Older({Head(wire[s])} \ {Control}, Msgs(wire'[s]))
  BY <1>1, <1>2, MsgsTail, ZenonT(60) DEF Pipeline
<1>4. Msgs(wire'[s]) \subseteq Msgs(wire[s])
  BY <1>3, Zenon
<1>5. /\ Older(Msgs(wire'[s]), Msgs(chan[s]))
      /\ Older(Msgs(wire'[s]) \cup Msgs(chan[s]), Msgs(batch[s]))
      /\ Older(Msgs(wire'[s]) \cup Msgs(chan[s]) \cup Msgs(batch[s]), Msgs(buf))
  <2>1. Path(Msgs(wire[s]), Msgs(chan[s]), Msgs(batch[s]), Msgs(buf))
    BY Zenon DEF Pipeline, Path
  <2>2. Path(Msgs(wire'[s]), Msgs(chan[s]), Msgs(batch[s]), Msgs(buf))
    BY <1>4, <2>1, PathShrinks, Zenon
  <2> QED
    BY <2>2, Zenon DEF Path
<1>6. \A m \in Msgs(wire'[s]) \cup Msgs(chan[s]) \cup Msgs(batch[s]) : m <= collected
  BY <1>4, Zenon DEF Pipeline
<1> QED
  BY <1>2, <1>3, <1>5, <1>6, Zenon DEF Pipeline

\* A step of session s leaves the queues of the others alone.
LEMMA OthersInOrder ==
  ASSUME InOrder, NEW s \in Sessions, Pipeline(s)', collected' = collected,
         buf' = buf \/ buf' = <<>>,
         \A t \in Sessions : t # s => /\ wire'[t] = wire[t] /\ chan'[t] = chan[t]
                                      /\ batch'[t] = batch[t]
  PROVE  InOrder'
BY PipelineShrinks, Zenon DEF InOrder

\* Every step keeps the snapshots on their way in order.
LEMMA InOrderStep ==
  ASSUME DInv, [Next]_vars
  PROVE  InOrder'
<1> IInv /\ BatchIsSent /\ InOrder /\ TypeOK
  BY Zenon DEF DInv, IInv
<1>0. \A s \in Sessions : Pipeline(s)
  BY Zenon DEF InOrder
<1>1. CASE CollectorPush
  BY <1>1, NextIInv, PushInOrder, Zenon
<1>2. CASE LoopCancelled
  BY <1>0, <1>2, PipelineShrinks, Zenon DEF LoopCancelled, EmptyBuffer, InOrder
<1>3. CASE UNCHANGED <<wire, chan, batch, buf, collected>>
  BY <1>0, <1>3, PipelineShrinks, Zenon DEF InOrder
<1>4. ASSUME NEW s \in Sessions, Forwarder(s) PROVE InOrder'
  <2>1. CASE ForwarderDrains(s)
    BY <1>0, <2>1, DrainInOrder, OthersInOrder, SessionTypes, Zenon
       DEF ForwarderDrains, EmptyBuffer, netVars
  <2>2. CASE ForwarderSends(s)
    BY <1>0, <2>2, SendInOrder, OthersInOrder, SessionTypes, Zenon DEF ForwarderSends, bufVars
  <2>3. CASE ForwarderSendFails(s) \/ ForwarderReaped(s)
    <3>1. /\ batch' = [batch EXCEPT ![s] = <<>>]
          /\ UNCHANGED <<wire, chan, buf, collected>>
      BY <2>3, Zenon DEF ForwarderSendFails, ForwarderReaped, bufVars, netVars
    <3> QED
      BY <1>0, <3>1, PipelineShrinks, SessionTypes, Zenon DEF InOrder
  <2>4. CASE ForwarderRuns(s) \/ ForwarderAwaits(s)
    BY <1>3, <2>4, Zenon DEF ForwarderRuns, ForwarderAwaits, bufVars, netVars
  <2> QED
    BY <1>4, <2>1, <2>2, <2>3, <2>4, Zenon DEF Forwarder, ForwarderProceeds
<1>5. ASSUME NEW s \in Sessions, Senders(s) PROVE InOrder'
  <2>1. CASE SendControl(s)
    BY <1>0, <2>1, ControlInOrder, OthersInOrder, SessionTypes, Zenon DEF SendControl, bufVars
  <2>2. CASE ProbeSpawned(s) \/ ProbeSendFails(s)
    BY <1>3, <2>2, Zenon DEF ProbeSpawned, ProbeSendFails, bufVars, netVars
  <2> QED
    BY <1>5, <2>1, <2>2, Zenon DEF Senders, HeartbeatSends, ProbeReports
<1>6. ASSUME NEW s \in Sessions, Stream(s) PROVE InOrder'
  <2>1. CASE Transmit(s)
    BY <1>0, <2>1, TransmitInOrder, OthersInOrder, SessionTypes, Zenon
       DEF Transmit, bufVars, taskVars
  <2>2. CASE Deliver(s)
    BY <1>0, <2>2, DeliverInOrder, OthersInOrder, SessionTypes, Zenon
       DEF Deliver, bufVars, taskVars
  <2>3. CASE LinkBreaks(s) \/ LinkEnds(s)
    BY <1>3, <2>3, Zenon DEF LinkBreaks, LinkEnds, bufVars, taskVars
  <2>4. CASE RxDropped(s) \/ WireLost(s)
    <3>1. /\ \A t \in Sessions : wire'[t] = wire[t] \/ wire'[t] = <<>>
          /\ \A t \in Sessions : chan'[t] = chan[t] \/ chan'[t] = <<>>
          /\ UNCHANGED <<batch, buf, collected>>
      BY <2>4, SessionTypes, Zenon DEF RxDropped, WireLost, bufVars, taskVars
    <3> QED
      BY <1>0, <3>1, PipelineShrinks, Zenon DEF InOrder
  <2> QED
    BY <1>6, <2>1, <2>2, <2>3, <2>4, Zenon DEF Stream
<1>7. CASE CollectorNotify \/ UNCHANGED vars
  BY <1>3, <1>7, Zenon DEF CollectorNotify, vars, bufVars, taskVars, netVars
<1>8. CASE Connect \/ StreamOpened \/ BackoffOver \/ Cancel
  BY <1>3, <1>8, Zenon DEF Connect, StreamOpened, BackoffOver, Cancel, bufVars, taskVars, netVars
<1>9. CASE ConnectFails \/ OpenFails \/ SessionFails \/ SessionEnds \/ SessionCancelled
  BY <1>3, <1>9, Zenon DEF ConnectFails, OpenFails, SessionFails, SessionEnds,
     SessionCancelled, Fail, CleanEnd, bufVars, taskVars, netVars
<1> QED
  BY <1>1, <1>2, <1>4, <1>5, <1>6, <1>7, <1>8, <1>9 DEF Next, Loop, Exited

\* The invariant of the refinement holds initially and is kept by every step.
LEMMA DeliveryInvariant == (Init => DInv) /\ (DInv /\ [Next]_vars => DInv')
<1>1. ASSUME Init PROVE DInv
  <2>1. IInv
    BY <1>1, InitIInv, Zenon
  <2>2. WaitersWait
    BY <1>1 DEF Init, WaitersWait
  <2>3. BatchIsSent
    BY <1>1, Zenon DEF Init, BatchIsSent
  <2>4. LatestIsUp
    BY <1>1, Zenon DEF Init, LatestIsUp
  <2>5. InOrder
    <3>1. \A s \in Sessions : wire[s] = <<>> /\ chan[s] = <<>> /\ batch[s] = <<>>
      BY <1>1, Zenon DEF Init
    <3> QED
      BY <3>1, MsgsOfNone, Zenon DEF InOrder, Pipeline, Older
  <2> QED
    BY <2>1, <2>2, <2>3, <2>4, <2>5, Zenon DEF DInv
<1>2. ASSUME DInv, [Next]_vars PROVE DInv'
  BY <1>2, NextIInv, WaitersStep, BatchStep, LatestStep, InOrderStep, Zenon DEF DInv
<1> QED
  BY <1>1, <1>2, Zenon

-----------------------------------------------------------------------------
(* The steps of Delivery.                                                  *)

\* What a session has outstanding, queue by queue.
LEMMA OutstandingIs ==
  ASSUME TypeOK, NEW s \in Sessions
  PROVE  Outstanding(s) = Msgs(wire[s]) \cup
                          IF link[s] = "up" THEN Msgs(batch[s]) \cup Msgs(chan[s]) ELSE {}
<1>1. Msgs(batch[s]) = Range(batch[s])
  BY SessionTypes, MsgsOfSnapshots, Zenon
<1> QED
  BY <1>1, Zenon DEF Outstanding, Msgs

\* A step that changes nothing Delivery knows of.
LEMMA Stutter ==
  ASSUME UNCHANGED <<collected, buf, sess, recv, link>>,
         \A s \in Sessions : Outstanding(s)' = Outstanding(s)
  PROVE  UNCHANGED D!vars
<1>1. Range(buf)' = Range(buf)
  BY Zenon
<1>2. [s \in Sessions |-> link[s] = "up"]' = [s \in Sessions |-> link[s] = "up"]
  BY Zenon
<1>3. [s \in Sessions |-> Outstanding(s)]' = [s \in Sessions |-> Outstanding(s)]
  BY Zenon
<1> QED
  BY <1>1, <1>2, <1>3, Zenon DEF D!vars

\* A step that takes the stream of s down, or loses what was in flight on it.
LEMMA BreakStep ==
  ASSUME NEW s \in Sessions, UNCHANGED <<collected, buf, sess, recv>>,
         link'[s] # "up", Outstanding(s)' \subseteq Outstanding(s),
         \A t \in Sessions : t # s => link'[t] = link[t] /\ Outstanding(t)' = Outstanding(t)
  PROVE  D!Break(s)
<1> DEFINE U == [t \in Sessions |-> link[t] = "up"]
           O == [t \in Sessions |-> Outstanding(t)]
<1>1. U' = [U EXCEPT ![s] = FALSE]
  BY Zenon
<1>2. O' = [O EXCEPT ![s] = Outstanding(s)']
  BY Zenon
<1>3. Outstanding(s)' \in SUBSET O[s]
  BY Zenon
<1>4. Range(buf)' = Range(buf)
  BY Zenon
<1> QED
  BY <1>1, <1>2, <1>3, <1>4, Zenon DEF D!Break

\* What a run of snapshots holds.
LEMMA RunIs ==
  ASSUME NEW q \in Seq(Nat), NEW n \in Nat, \A i \in DOMAIN q : q[i] = n - Len(q) + i
  PROVE  Range(q) = {m \in Int : n - Len(q) < m /\ m <= n}
<1>1. DOMAIN q = 1 .. Len(q) /\ Len(q) \in Nat
  OBVIOUS
<1>2. \A i \in 1 .. Len(q) : q[i] = n - Len(q) + i
  BY <1>1, Zenon
<1>3. ASSUME NEW m \in Int, n - Len(q) < m, m <= n
      PROVE  m \in Range(q)
  <2>1. m - (n - Len(q)) \in 1 .. Len(q) /\ n - Len(q) + (m - (n - Len(q))) = m
    BY <1>1, <1>3
  <2>2. q[m - (n - Len(q))] = m
    BY <1>2, <2>1, Zenon
  <2> QED
    BY <1>1, <2>1, <2>2, Zenon DEF Range
<1>4. ASSUME NEW i \in 1 .. Len(q)
      PROVE  q[i] \in Int /\ n - Len(q) < q[i] /\ q[i] <= n
  BY <1>1, <1>2
<1> QED
  BY <1>1, <1>3, <1>4, Zenon DEF Range

\* The numbers that stay of a run when the next is added.
LEMMA Window ==
  ASSUME NEW c \in Nat, NEW l \in Nat, BufferCap \in Nat \ {0}, l <= BufferCap,
         NEW k, k = IF l >= BufferCap THEN l ELSE l + 1, NEW m \in Int
  PROVE  (c + 1) - k < m /\ m <= c + 1
           <=> /\ m = c + 1 \/ (c - l < m /\ m <= c)
               /\ m > c + 1 - BufferCap
OBVIOUS

\* A push holds one more snapshot back, and the newest BufferCap stay.
LEMMA CollectStep ==
  ASSUME DInv, DInv', CollectorPush
  PROVE  D!Collect
<1>1. /\ buf \in Seq(Snapshots) /\ buf' \in Seq(Snapshots)
      /\ collected \in Nat /\ collected' = collected + 1 /\ Snapshots \subseteq Nat
  BY AgentAssumption DEF DInv, IInv, TypeOK, BufTypeOK, CollectorPush, Snapshots
<1>2. buf \in Seq(Nat) /\ buf' \in Seq(Nat)
  BY <1>1, SeqMonotonic, Zenon
<1>3. /\ \A i \in DOMAIN buf : buf[i] = collected - Len(buf) + i
      /\ \A i \in DOMAIN buf' : buf'[i] = (collected + 1) - Len(buf') + i
      /\ Len(buf) <= BufferCap
  BY <1>1, Zenon DEF DInv, IInv, HoldbackIsNewestRun
<1>4. /\ Range(buf) = {m \in Int : collected - Len(buf) < m /\ m <= collected}
      /\ Range(buf') = {m \in Int : (collected + 1) - Len(buf') < m /\ m <= collected + 1}
  <2>1. Range(buf) = {m \in Int : collected - Len(buf) < m /\ m <= collected}
    BY <1>1, <1>2, <1>3, RunIs, Zenon
  <2>2. collected + 1 \in Nat
    BY <1>1
  <2>3. Range(buf') = {m \in Int : (collected + 1) - Len(buf') < m /\ m <= collected + 1}
    BY <1>2, <1>3, <2>2, RunIs, Zenon
  <2> QED
    BY <2>1, <2>3, Zenon
<1>5. Len(buf') = IF Len(buf) >= BufferCap THEN Len(buf) ELSE Len(buf) + 1
  <2>1. CASE Len(buf) >= BufferCap
    <3>1. buf # <<>>
      BY <2>1, BufferCapAssumption
    <3>2. Tail(buf) \in Seq(Nat) /\ Len(Tail(buf)) = Len(buf) - 1
      BY <1>2, <3>1, HeadTailProperties, Zenon
    <3>3. buf' = Append(Tail(buf), collected + 1)
      BY <2>1, Zenon DEF CollectorPush, Push
    <3>4. Len(buf') = Len(Tail(buf)) + 1 /\ Len(buf) \in Nat
      BY <1>1, <1>2, <3>2, <3>3, AppendProperties
    <3> QED
      BY <2>1, <3>2, <3>4
  <2>2. CASE ~(Len(buf) >= BufferCap)
    <3>1. buf' = Append(buf, collected + 1)
      BY <2>2, Zenon DEF CollectorPush, Push
    <3> QED
      BY <1>1, <1>2, <2>2, <3>1, AppendProperties
  <2> QED
    BY <2>1, <2>2, Zenon
<1>6. Len(buf) \in Nat /\ BufferCap \in Nat
  BY <1>2, BufferCapAssumption
<1>7. Range(buf') = {m \in Range(buf) \cup {collected + 1} : m > collected + 1 - BufferCap}
  <2> DEFINE l == Len(buf)
             k == Len(buf')
  <2>1. l \in Nat /\ l <= BufferCap /\ k = IF l >= BufferCap THEN l ELSE l + 1
    BY <1>3, <1>5, <1>6, Zenon
  <2> HIDE DEF l, k
  <2>2. \A m \in Int : (collected + 1) - k < m /\ m <= collected + 1
          <=> /\ m = collected + 1 \/ (collected - l < m /\ m <= collected)
              /\ m > collected + 1 - BufferCap
    BY <1>1, <2>1, BufferCapAssumption, Window, Zenon
  <2>3. collected + 1 \in Int
    BY <1>1
  <2> QED
    BY <1>4, <2>2, <2>3, Zenon DEF l, k
<1>8. \A s \in Sessions : Outstanding(s)' = Outstanding(s)
  BY Zenon DEF CollectorPush, Outstanding, taskVars, netVars
<1>9. UNCHANGED <<sess, link, recv>>
  BY Zenon DEF CollectorPush, loopVars, netVars
<1>10. [s \in Sessions |-> link[s] = "up"]' = [s \in Sessions |-> link[s] = "up"]
  BY <1>9, Zenon
<1>11. [s \in Sessions |-> Outstanding(s)]' = [s \in Sessions |-> Outstanding(s)]
  BY <1>8, Zenon
<1> QED
  BY <1>1, <1>7, <1>9, <1>10, <1>11, Zenon DEF D!Collect

\* A connect opens the next session, which has taken nothing yet.
LEMMA OpenStep ==
  ASSUME DInv, DInv', Connect
  PROVE  D!Open
<1> TypeOK /\ TypeOK' /\ LatestIsUp
  BY Zenon DEF DInv, IInv
<1> DEFINE n == sess + 1
           U == [s \in Sessions |-> link[s] = "up"]
<1>1. n \in Sessions /\ n > sess
  BY AgentAssumption, SMTT(30) DEF Connect, TypeOK, LoopTypeOK, Sessions
<1>2. \A s \in Sessions : link[s] # "up"
  BY Zenon DEF Connect, LatestIsUp
<1>3. /\ sess' = n /\ link' = [link EXCEPT ![n] = "up"]
      /\ UNCHANGED <<collected, buf, batch, chan, wire, recv>>
  BY Zenon DEF Connect, bufVars
<1>4. wire[n] = <<>> /\ chan[n] = <<>> /\ batch[n] = <<>>
  BY <1>1, Zenon DEF LatestIsUp
<1> HIDE DEF n
<1>5. link'[n] = "up" /\ \A s \in Sessions : s # n => link'[s] = link[s]
  BY <1>1, <1>3, SessionTypes, Zenon
<1>6. ASSUME NEW s \in Sessions PROVE Outstanding(s)' = Outstanding(s)
  <2>1. CASE s = n
    <3>1. Outstanding(s) = {}
      BY <1>2, <1>4, <2>1, OutstandingIs, MsgsOfNone, Zenon
    <3>2. Range(<<>>) = {}
      <4>1. DOMAIN <<>> = {}
        OBVIOUS
      <4> QED
        BY <4>1, Zenon DEF Range
    <3>3. Outstanding(s)' = {}
      BY <1>3, <1>4, <2>1, <3>2, Zenon DEF Outstanding
    <3> QED
      BY <3>1, <3>3, Zenon
  <2>2. CASE s # n
    BY <1>3, <1>5, <2>2, Zenon DEF Outstanding
  <2> QED
    BY <2>1, <2>2, Zenon
<1>7. U' = [U EXCEPT ![n] = TRUE]
  BY <1>5, Zenon
<1>8. [s \in Sessions |-> Outstanding(s)]' = [s \in Sessions |-> Outstanding(s)]
  BY <1>6, Zenon
<1>9. \A s \in Sessions : ~U[s]
  BY <1>2, Zenon
<1>10. Range(buf)' = Range(buf)
  BY <1>3, Zenon
<1> QED
  BY <1>1, <1>3, <1>7, <1>8, <1>9, <1>10, Zenon DEF D!Open, n

\* A drain takes all that is held back.
LEMMA TakeStep ==
  ASSUME DInv, NEW s \in Sessions, ForwarderDrains(s)
  PROVE  D!Take(s)
<1> TypeOK /\ BatchIsSent /\ FutureSessions
  BY Zenon DEF DInv, IInv
<1> DEFINE H == Range(buf)
           U == [t \in Sessions |-> link[t] = "up"]
           O == [t \in Sessions |-> Outstanding(t)]
<1>1. s <= sess
  <2>1. sess \in Nat /\ s \in Nat
    BY SessionTypes, Zenon
  <2> QED
    BY <2>1 DEF ForwarderDrains, FutureSessions
<1>2. /\ batch[s] = <<>> /\ batch' = [batch EXCEPT ![s] = buf] /\ buf' = <<>>
      /\ UNCHANGED <<collected, sess, link, wire, chan, recv>>
  BY Zenon DEF ForwarderDrains, BatchIsSent, Drained, EmptyBuffer, loopVars, netVars
<1>3. batch'[s] = buf /\ \A t \in Sessions : t # s => batch'[t] = batch[t]
  BY <1>2, SessionTypes, Zenon
<1>4. Range(buf)' = {} /\ Range(batch[s]) = {}
  <2>1. DOMAIN <<>> = {}
    OBVIOUS
  <2> QED
    BY <1>2, <2>1, Zenon DEF Range
<1>5. \A t \in Sessions : t # s => Outstanding(t)' = Outstanding(t)
  BY <1>2, <1>3, Zenon DEF Outstanding
<1>6. Outstanding(s)' = IF link[s] = "up" THEN Outstanding(s) \cup H ELSE Outstanding(s)
  BY <1>2, <1>3, <1>4, Zenon DEF Outstanding
<1> HIDE DEF H
<1>7. O' = IF U[s] THEN [O EXCEPT ![s] = @ \cup H] ELSE O
  <2>1. CASE link[s] = "up"
    <3>1. O' = [O EXCEPT ![s] = Outstanding(s) \cup H]
      BY <1>5, <1>6, <2>1, Zenon
    <3> QED
      BY <2>1, <3>1, Zenon
  <2>2. CASE link[s] # "up"
    <3>1. O' = O
      BY <1>5, <1>6, <2>2, Zenon
    <3> QED
      BY <2>2, <3>1, Zenon
  <2> QED
    BY <2>1, <2>2, Zenon
<1>8. U' = U
  BY <1>2, Zenon
<1> QED
  BY <1>1, <1>2, <1>4, <1>7, <1>8, Zenon DEF D!Take, H

\* The server receives the oldest snapshot outstanding.
LEMMA ReceiveStep ==
  ASSUME DInv, DInv', NEW s \in Sessions, Deliver(s), Head(wire[s]) # Control
  PROVE  D!Receive(s)
<1> TypeOK /\ TypeOK' /\ Pipeline(s) /\ IInv
  BY Zenon DEF DInv, IInv, InOrder
<1> DEFINE m == Head(wire[s])
           R == IF link[s] = "up" THEN Msgs(batch[s]) \cup Msgs(chan[s]) ELSE {}
           O == [t \in Sessions |-> Outstanding(t)]
<1>1. /\ recv' = [recv EXCEPT ![s] = Append(@, m)]
      /\ UNCHANGED <<collected, buf, sess, link, batch, chan>>
      /\ \A t \in Sessions : t # s => wire'[t] = wire[t]
  BY SessionTypes, Zenon DEF Deliver, loopVars, bufVars, taskVars
<1>2. /\ Msgs(wire[s]) = {m} \cup Msgs(wire'[s])
      /\ Older({m}, Msgs(wire'[s]))
  <2>1. {m} \ {Control} = {m}
    BY Zenon
  <2> QED
    BY <2>1, DeliverInOrder, Zenon
<1>3. Msgs(wire[s]) \subseteq Nat /\ Msgs(batch[s]) \subseteq Nat /\ Msgs(chan[s]) \subseteq Nat
  BY MsgsAreNumbers, Zenon
<1>4. Outstanding(s) = Msgs(wire[s]) \cup R
  BY OutstandingIs, Zenon
<1>5. Outstanding(s)' = Msgs(wire'[s]) \cup R
  <2>1. Msgs(batch[s]) = Range(batch[s])
    BY SessionTypes, MsgsOfSnapshots, Zenon
  <2> QED
    BY <1>1, <2>1, Zenon DEF Outstanding, Msgs
<1> HIDE DEF m, R
<1>6. Older({m}, R) /\ R \subseteq Nat /\ m \in Nat
  BY <1>2, <1>3, Zenon DEF Pipeline, Older, R
<1>7. m \in Outstanding(s) /\ \A x \in Outstanding(s) : m <= x
  <2>1. \A x \in Msgs(wire[s]) : m <= x
    BY <1>2, <1>3, <1>6 DEF Older
  <2>2. \A x \in R : m <= x
    BY <1>6 DEF Older
  <2> QED
    BY <1>2, <1>4, <2>1, <2>2, Zenon
<1>8. Outstanding(s)' = Outstanding(s) \ {m}
  <2>1. m \notin Msgs(wire'[s]) /\ m \notin R
    BY <1>6, <1>2 DEF Older
  <2> QED
    BY <1>2, <1>4, <1>5, <2>1, Zenon
<1>9. \A t \in Sessions : t # s => Outstanding(t)' = Outstanding(t)
  BY <1>1, Zenon DEF Outstanding
<1>10. O' = [O EXCEPT ![s] = Outstanding(s) \ {m}]
  BY <1>8, <1>9, Zenon
<1>11. O' = [O EXCEPT ![s] = @ \ {m}] /\ O[s] = Outstanding(s)
  BY <1>10, Zenon
<1>12. [t \in Sessions |-> link[t] = "up"]' = [t \in Sessions |-> link[t] = "up"]
  BY <1>1, Zenon
<1>13. Range(buf)' = Range(buf)
  BY <1>1, Zenon
<1> HIDE DEF O
<1>14. m \in O[s] /\ \A x \in O[s] : m <= x
  BY <1>7, <1>11, Zenon
<1> QED
  BY <1>1, <1>11, <1>12, <1>13, <1>14, Zenon DEF D!Receive, O

\* With the process everything goes but what is in flight.
LEMMA ExitStep ==
  ASSUME DInv, LoopCancelled
  PROVE  D!Exit
<1> TypeOK
  BY Zenon DEF DInv, IInv
<1> DEFINE O == [s \in Sessions |-> Outstanding(s)]
<1>1. /\ buf' = <<>> /\ UNCHANGED <<collected, sess, wire, recv>>
      /\ \A s \in Sessions : link'[s] = "broken"
  BY Zenon DEF LoopCancelled, EmptyBuffer
<1>2. \A s \in Sessions : Outstanding(s)' \subseteq Outstanding(s)
  BY <1>1, Zenon DEF Outstanding
<1>3. Range(buf)' = {}
  <2>1. DOMAIN <<>> = {}
    OBVIOUS
  <2> QED
    BY <1>1, <2>1, Zenon DEF Range
<1>4. [s \in Sessions |-> link[s] = "up"]' = [s \in Sessions |-> FALSE]
  BY <1>1, Zenon
<1>5. \A s \in Sessions : O'[s] \subseteq O[s]
  BY <1>2, Zenon
<1>6. O' \in [Sessions -> UNION {SUBSET O[s] : s \in Sessions}]
  <2>1. \A s \in Sessions : Outstanding(s)' \in UNION {SUBSET O[t] : t \in Sessions}
    BY <1>2
  <2> QED
    BY <2>1, Zenon
<1> QED
  BY <1>1, <1>3, <1>4, <1>5, <1>6, Zenon DEF D!Exit

\* Every step of the agent is a step of Delivery or leaves it alone.
LEMMA DeliveryStep ==
  ASSUME DInv, DInv', [Next]_vars
  PROVE  [D!Next]_(D!vars)
<1> TypeOK /\ TypeOK' /\ LatestIsUp /\ InOrder /\ IInv
  BY Zenon DEF DInv, IInv
<1>0. \A s \in Sessions : Pipeline(s)
  BY Zenon DEF InOrder
<1>1. CASE CollectorPush
  BY <1>1, CollectStep, Zenon DEF D!Next
<1>2. CASE Connect
  BY <1>2, OpenStep, Zenon DEF D!Next
<1>3. CASE LoopCancelled
  BY <1>3, ExitStep, Zenon DEF D!Next
<1>4. CASE UNCHANGED <<collected, buf, sess, recv, link, wire, batch, chan>>
  BY <1>4, Stutter, Zenon DEF Outstanding
<1>5. CASE \/ CollectorNotify \/ UNCHANGED vars \/ StreamOpened \/ BackoffOver
           \/ Cancel \/ ConnectFails \/ SessionFails
  BY <1>4, <1>5, Zenon DEF CollectorNotify, vars, StreamOpened, BackoffOver, Cancel,
     ConnectFails, SessionFails, Fail, loopVars, bufVars, taskVars, netVars
<1>6. CASE OpenFails \/ SessionEnds \/ SessionCancelled
  <2>1. sess \in Sessions /\ link' = [link EXCEPT ![sess] = "broken"]
    BY <1>6, Zenon DEF OpenFails, SessionEnds, SessionCancelled, CleanEnd, LatestIsUp
  <2>2. UNCHANGED <<collected, buf, sess, recv, wire, batch, chan>>
    BY <1>6, Zenon DEF OpenFails, SessionEnds, SessionCancelled, Fail, CleanEnd, bufVars, taskVars
  <2>3. PICK n \in Sessions : n = sess
    BY <2>1, Zenon
  <2>4. link'[n] = "broken" /\ \A t \in Sessions : t # n => link'[t] = link[t]
    BY <2>1, <2>3, SessionTypes, Zenon
  <2>5. Outstanding(n)' \subseteq Outstanding(n)
    BY <2>2, <2>4, Zenon DEF Outstanding
  <2>6. \A t \in Sessions : t # n => Outstanding(t)' = Outstanding(t)
    BY <2>2, <2>4, Zenon DEF Outstanding
  <2>7. D!Break(n)
    BY <2>2, <2>4, <2>5, <2>6, BreakStep, Zenon
  <2> QED
    BY <2>7, Zenon DEF D!Next
<1>7. ASSUME NEW s \in Sessions, Forwarder(s) PROVE [D!Next]_(D!vars)
  <2>1. CASE ForwarderDrains(s)
    BY <2>1, TakeStep, Zenon DEF D!Next
  <2>2. CASE ForwarderSends(s)
    <3>1. /\ batch[s] \in Seq(Snapshots \cup {Control}) /\ batch[s] # <<>>
          /\ chan[s] \in Seq(Snapshots \cup {Control})
      BY <2>2, SessionTypes, MsgsAreNumbers, Zenon DEF ForwarderSends
    <3>2. /\ chan'[s] = Append(chan[s], Head(batch[s])) /\ batch'[s] = Tail(batch[s])
          /\ \A t \in Sessions : t # s => chan'[t] = chan[t] /\ batch'[t] = batch[t]
          /\ UNCHANGED <<collected, buf, sess, recv, link, wire>>
      BY <2>2, SessionTypes, Zenon DEF ForwarderSends, loopVars, bufVars
    <3>3. Msgs(batch'[s]) \cup Msgs(chan'[s]) = Msgs(batch[s]) \cup Msgs(chan[s])
      <4>1. /\ Head(batch[s]) \in Snapshots \cup {Control}
            /\ Msgs(batch[s]) = ({Head(batch[s])} \ {Control}) \cup Msgs(batch'[s])
        BY <3>1, <3>2, MsgsTail, Zenon
      <4>2. Msgs(chan'[s]) = Msgs(chan[s]) \cup ({Head(batch[s])} \ {Control})
        BY <3>1, <3>2, <4>1, MsgsAppend, Zenon
      <4> QED
        BY <4>1, <4>2, Zenon
    <3>4. Range(batch[s]) = Msgs(batch[s]) /\ Range(batch'[s]) = Msgs(batch'[s])
      <4>1. batch[s] \in Seq(Snapshots) /\ batch'[s] \in Seq(Snapshots)
        BY Zenon DEF TypeOK, TaskTypeOK
      <4> QED
        BY <4>1, MsgsOfSnapshots, Zenon
    <3>5. Outstanding(s)' = Outstanding(s)
      BY <3>2, <3>3, <3>4, Zenon DEF Outstanding, Msgs
    <3>6. \A t \in Sessions : t # s => Outstanding(t)' = Outstanding(t)
      BY <3>2, Zenon DEF Outstanding
    <3> QED
      BY <3>2, <3>5, <3>6, Stutter, Zenon
  <2>3. CASE ForwarderSendFails(s) \/ ForwarderReaped(s)
    <3>1. link[s] # "up"
      BY <2>3, Zenon DEF ForwarderSendFails, ForwarderReaped, LatestIsUp
    <3>2. /\ \A t \in Sessions : t # s => batch'[t] = batch[t]
          /\ UNCHANGED <<collected, buf, sess, recv, link, wire, chan>>
      BY <2>3, SessionTypes, Zenon DEF ForwarderSendFails, ForwarderReaped, loopVars,
         bufVars, netVars
    <3>3. \A t \in Sessions : t # s => Outstanding(t)' = Outstanding(t)
      BY <3>2, Zenon DEF Outstanding
    <3>4. Outstanding(s)' = Outstanding(s)
      BY <3>1, <3>2, Zenon DEF Outstanding
    <3> QED
      BY <3>2, <3>3, <3>4, Stutter, Zenon
  <2>4. CASE ForwarderRuns(s) \/ ForwarderAwaits(s)
    BY <1>4, <2>4, Zenon DEF ForwarderRuns, ForwarderAwaits, loopVars, bufVars, netVars
  <2> QED
    BY <1>7, <2>1, <2>2, <2>3, <2>4, Zenon DEF Forwarder, ForwarderProceeds
<1>8. ASSUME NEW s \in Sessions, Senders(s) PROVE [D!Next]_(D!vars)
  <2>1. CASE SendControl(s)
    <3>1. /\ \A t \in Sessions : t # s => chan'[t] = chan[t]
          /\ UNCHANGED <<collected, buf, sess, recv, link, wire, batch>>
      BY <2>1, SessionTypes, Zenon DEF SendControl, loopVars, bufVars
    <3>2. Msgs(chan'[s]) = Msgs(chan[s])
      BY <1>0, <2>1, ControlInOrder, Zenon
    <3>3. \A t \in Sessions : Outstanding(t)' = Outstanding(t)
      BY <3>1, <3>2, Zenon DEF Outstanding, Msgs
    <3> QED
      BY <3>1, <3>3, Stutter, Zenon
  <2>2. CASE ProbeSpawned(s) \/ ProbeSendFails(s)
    BY <1>4, <2>2, Zenon DEF ProbeSpawned, ProbeSendFails, loopVars, bufVars, netVars
  <2> QED
    BY <1>8, <2>1, <2>2, Zenon DEF Senders, HeartbeatSends, ProbeReports
<1>9. ASSUME NEW s \in Sessions, Stream(s) PROVE [D!Next]_(D!vars)
  <2>1. CASE Transmit(s)
    <3>1. /\ \A t \in Sessions : t # s => chan'[t] = chan[t] /\ wire'[t] = wire[t]
          /\ UNCHANGED <<collected, buf, sess, recv, link, batch>> /\ link[s] = "up"
      BY <2>1, SessionTypes, Zenon DEF Transmit, loopVars, bufVars, taskVars
    <3>2. Msgs(wire'[s]) \cup Msgs(chan'[s]) = Msgs(wire[s]) \cup Msgs(chan[s])
      BY <1>0, <2>1, TransmitInOrder, Zenon
    <3>3. Outstanding(s)' = Outstanding(s)
      BY <3>1, <3>2, Zenon DEF Outstanding, Msgs
    <3>4. \A t \in Sessions : t # s => Outstanding(t)' = Outstanding(t)
      BY <3>1, Zenon DEF Outstanding
    <3> QED
      BY <3>1, <3>3, <3>4, Stutter, Zenon
  <2>2. CASE Deliver(s)
    <3>1. CASE Head(wire[s]) # Control
      BY <2>2, <3>1, ReceiveStep, Zenon DEF D!Next
    <3>2. CASE Head(wire[s]) = Control
      <4>1. /\ \A t \in Sessions : t # s => wire'[t] = wire[t]
            /\ UNCHANGED <<collected, buf, sess, recv, link, batch, chan>>
        BY <2>2, <3>2, SessionTypes, Zenon DEF Deliver, loopVars, bufVars, taskVars
      <4>2. {Control} \ {Control} = {}
        BY Zenon
      <4>3. Msgs(wire'[s]) = Msgs(wire[s])
        BY <1>0, <2>2, <3>2, <4>2, DeliverInOrder, Zenon
      <4>4. \A t \in Sessions : Outstanding(t)' = Outstanding(t)
        BY <4>1, <4>3, Zenon DEF Outstanding, Msgs
      <4> QED
        BY <4>1, <4>4, Stutter, Zenon
    <3> QED
      BY <3>1, <3>2, Zenon
  <2>3. CASE LinkBreaks(s) \/ LinkEnds(s)
    <3>1. /\ link'[s] # "up" /\ \A t \in Sessions : t # s => link'[t] = link[t]
          /\ UNCHANGED <<collected, buf, sess, recv, wire, batch, chan>>
      BY <2>3, SessionTypes, Zenon DEF LinkBreaks, LinkEnds, loopVars, bufVars, taskVars
    <3>2. D!Break(s)
      BY <3>1, BreakStep, Zenon DEF Outstanding
    <3> QED
      BY <3>2, Zenon DEF D!Next
  <2>4. CASE RxDropped(s)
    <3>1. /\ link[s] # "up" /\ \A t \in Sessions : t # s => chan'[t] = chan[t]
          /\ UNCHANGED <<collected, buf, sess, recv, link, wire, batch>>
      BY <2>4, SessionTypes, Zenon DEF RxDropped, loopVars, bufVars, taskVars
    <3>2. \A t \in Sessions : Outstanding(t)' = Outstanding(t)
      BY <3>1, Zenon DEF Outstanding
    <3> QED
      BY <3>1, <3>2, Stutter, Zenon
  <2>5. CASE WireLost(s)
    <3>1. /\ link[s] # "up" /\ wire'[s] = <<>>
          /\ \A t \in Sessions : t # s => wire'[t] = wire[t]
          /\ UNCHANGED <<collected, buf, sess, recv, link, batch, chan>>
      BY <2>5, SessionTypes, Zenon DEF WireLost, loopVars, bufVars, taskVars
    <3>2. Outstanding(s)' \subseteq Outstanding(s)
      <4>1. Range(wire'[s]) = {}
        <5>1. DOMAIN <<>> = {}
          OBVIOUS
        <5> QED
          BY <3>1, <5>1, Zenon DEF Range
      <4>2. link'[s] # "up"
        BY <3>1, Zenon
      <4>3. Outstanding(s)' = (Range(wire'[s]) \ {Control}) \cup {}
        BY <4>2, Zenon DEF Outstanding
      <4>4. Outstanding(s)' = {}
        BY <4>1, <4>3, Zenon
      <4> QED
        BY <4>4, Zenon
    <3>3. \A t \in Sessions : t # s => Outstanding(t)' = Outstanding(t)
      BY <3>1, Zenon DEF Outstanding
    <3>4. D!Break(s)
      BY <3>1, <3>2, <3>3, BreakStep, Zenon
    <3> QED
      BY <3>4, Zenon DEF D!Next
  <2> QED
    BY <1>9, <2>1, <2>2, <2>3, <2>4, <2>5, Zenon DEF Stream
<1> QED
  BY <1>1, <1>2, <1>3, <1>5, <1>6, <1>7, <1>8, <1>9, Zenon DEF Next, Loop, Exited

\* Agent implements Delivery: whatever the capacities, the number of sessions
\* and how their tasks interleave, a snapshot that leaves the holdback buffer
\* reaches the server in its turn, or is lost with a session that is down.
THEOREM DeliveryRefined == Spec => SnapshotsDelivered
<1>1. Init => D!Init
  <2> SUFFICES ASSUME Init PROVE D!Init
    BY Zenon
  <2>1. Range(<<>>) = {}
    <3>1. DOMAIN <<>> = {}
      OBVIOUS
    <3> QED
      BY <3>1, Zenon DEF Range
  <2>2. \A s \in Sessions : Outstanding(s) = {} /\ link[s] # "up"
    BY <2>1, Zenon DEF Init, Outstanding
  <2>3. [s \in Sessions |-> Outstanding(s)] = [s \in Sessions |-> {}]
    BY <2>2, Zenon
  <2>4. [s \in Sessions |-> link[s] = "up"] = [s \in Sessions |-> FALSE]
    BY <2>2, Zenon
  <2> QED
    BY <2>1, <2>3, <2>4, Zenon DEF Init, EmptyBuffer, D!Init
<1>2. DInv /\ [Next]_vars => [D!Next]_(D!vars)
  BY DeliveryInvariant, DeliveryStep, Zenon
<1> QED
  BY <1>1, <1>2, DeliveryInvariant, PTL DEF Spec, SnapshotsDelivered, D!Spec

\* Whatever the number of sessions, the capacities and the breaks: the server
\* receives what the agent collects in collection order and none twice
\* (client.rs drains the holdback buffer into one channel per session).
THEOREM AgentDeliversInOrder == Spec => []DeliveryOrder
  BY DeliveryRefined, DeliveryOrderHolds, PTL DEF SnapshotsDelivered

=============================================================================
