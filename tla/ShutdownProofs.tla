--------------------------- MODULE ShutdownProofs ---------------------------
(***************************************************************************)
(* Proofs about the shutdown sequence, for any number of streams, sockets  *)
(* and workers and any capacity of the queues.                             *)
(***************************************************************************)
EXTENDS Shutdown, TLAPS

\* A worker has ended only if no clone of AppState is left and its queue is
\* empty; main has exited only if every worker has ended.
EndedIsDrained ==
  /\ \A w \in Workers : worker[w] = "ended" => ~StateHeld /\ queue[w] = 0
  /\ main = "exited" => ~StateHeld /\ \A w \in Workers : worker[w] = "ended"

IInv == TypeOK /\ EndedIsDrained

-----------------------------------------------------------------------------
\* Every step of Next keeps the types (the queue's capacity included).
LEMMA TypeStep == TypeOK /\ [Next]_vars => TypeOK'
<1> SUFFICES ASSUME TypeOK, [Next]_vars PROVE TypeOK'
  OBVIOUS
<1> USE ShutdownAssumption DEF TypeOK
<1>1. ASSUME NEW s \in Streams, StreamOpens(s) \/ StreamEnds(s) PROVE TypeOK'
  BY <1>1 DEF StreamOpens, StreamEnds
<1>2. ASSUME NEW s \in Streams, StreamQueues(s) PROVE TypeOK'
  <2> DEFINE w == WorkerOf[s]
  <2>1. w \in Workers /\ queue[w] \in 0 .. QueueCap
    OBVIOUS
  <2>2. items' \in 0 .. MaxItems
    BY <1>2 DEF StreamQueues
  <2>3. queue' \in [Workers -> 0 .. QueueCap]
    BY <1>2, <2>1 DEF StreamQueues
  <2> QED
    BY <1>2, <2>2, <2>3 DEF StreamQueues
<1>3. ASSUME NEW c \in Sockets, SocketOpens(c) \/ SocketEnds(c) PROVE TypeOK'
  BY <1>3 DEF SocketOpens, SocketEnds
<1>4. CASE CtrlC \/ GrpcFails \/ Servers
  BY <1>4, Zenon DEF CtrlC, GrpcFails, Servers, GrpcDrains, GrpcStops, HttpStops, CheckerStops
<1>5. CASE Main
  BY <1>5 DEF Main, MainAwaitsHttp, MainDropsState, MainExits
<1>6. ASSUME NEW w \in Workers, Worker(w) PROVE TypeOK'
  <2>1. CASE WorkerTakes(w)
    <3>1. queue[w] - 1 \in 0 .. QueueCap
      BY <2>1 DEF WorkerTakes
    <3> QED
      BY <2>1, <3>1 DEF WorkerTakes
  <2>2. CASE WorkerStores(w) \/ WorkerEnds(w)
    BY <2>2 DEF WorkerStores, WorkerEnds
  <2> QED
    BY <1>6, <2>1, <2>2 DEF Worker
<1>7. CASE UNCHANGED vars
  BY <1>7 DEF vars
<1> QED
  BY <1>1, <1>2, <1>3, <1>4, <1>5, <1>6, <1>7 DEF Next, ClientsLeave

\* Once the last clone of AppState is gone, none comes back, and main and the
\* handlers leave the queues alone: only a worker's own step touches one.
LEMMA ClosedForGood ==
  TypeOK /\ ~StateHeld /\ [Next]_vars =>
    /\ ~StateHeld'
    /\ \A w \in Workers : queue[w] = 0 => queue'[w] = 0
<1> SUFFICES ASSUME TypeOK, ~StateHeld, [Next]_vars
             PROVE  /\ ~StateHeld'
                    /\ \A w \in Workers : queue[w] = 0 => queue'[w] = 0
  OBVIOUS
<1> USE DEF TypeOK, StateHeld
<1>1. ASSUME NEW s \in Streams, StreamOpens(s) \/ StreamQueues(s) \/ StreamEnds(s) PROVE FALSE
  BY <1>1 DEF StreamOpens, StreamQueues, StreamEnds
<1>2. ASSUME NEW c \in Sockets, SocketOpens(c) \/ SocketEnds(c) PROVE FALSE
  BY <1>2 DEF SocketOpens, SocketEnds
<1>3. CASE CtrlC
  BY <1>3 DEF CtrlC
<1>4. ASSUME GrpcFails \/ Servers PROVE FALSE
  BY <1>4 DEF GrpcFails, Servers, GrpcDrains, GrpcStops, HttpStops, CheckerStops
<1>5. CASE Main
  BY <1>5 DEF Main, MainAwaitsHttp, MainDropsState, MainExits
<1>6. ASSUME NEW w \in Workers, Worker(w)
      PROVE  /\ ~StateHeld'
             /\ \A v \in Workers : queue[v] = 0 => queue'[v] = 0
  BY <1>6 DEF Worker, WorkerTakes, WorkerStores, WorkerEnds
<1>7. CASE UNCHANGED vars
  BY <1>7 DEF vars
<1> QED
  BY <1>1, <1>2, <1>3, <1>4, <1>5, <1>6, <1>7 DEF Next, ClientsLeave

\* A worker that has ended stays so, and one ends only on a closed, empty
\* channel.
LEMMA WorkerEnding ==
  ASSUME TypeOK, [Next]_vars, NEW w \in Workers, worker'[w] = "ended"
  PROVE  worker[w] = "ended" \/ (~StateHeld /\ queue[w] = 0)
<1> USE DEF TypeOK
<1>1. ASSUME NEW v \in Workers, Worker(v)
      PROVE  worker[w] = "ended" \/ (~StateHeld /\ queue[w] = 0)
  BY <1>1 DEF Worker, WorkerTakes, WorkerStores, WorkerEnds
<1>2. CASE UNCHANGED worker
  BY <1>2
<1> QED
  BY <1>1, <1>2 DEF Next, ClientsLeave, Servers, Main, vars, StreamOpens, StreamQueues,
     StreamEnds, SocketOpens, SocketEnds, CtrlC, GrpcFails, GrpcDrains, GrpcStops, HttpStops,
     CheckerStops, MainAwaitsHttp, MainDropsState, MainExits

\* ... and it takes nothing more, whoever moves.
LEMMA EndedStays ==
  ASSUME TypeOK, [Next]_vars, NEW w \in Workers, worker[w] = "ended"
  PROVE  worker'[w] = "ended"
<1> USE DEF TypeOK
<1>1. ASSUME NEW v \in Workers, Worker(v) PROVE worker'[w] = "ended"
  BY <1>1 DEF Worker, WorkerTakes, WorkerStores, WorkerEnds
<1>2. CASE UNCHANGED worker
  BY <1>2
<1> QED
  BY <1>1, <1>2 DEF Next, ClientsLeave, Servers, Main, vars, StreamOpens, StreamQueues,
     StreamEnds, SocketOpens, SocketEnds, CtrlC, GrpcFails, GrpcDrains, GrpcStops, HttpStops,
     CheckerStops, MainAwaitsHttp, MainDropsState, MainExits

\* main exits only when every worker has ended and its own clone is gone.
LEMMA MainExiting ==
  ASSUME TypeOK, [Next]_vars, main # "exited", main' = "exited"
  PROVE  main = "await_workers" /\ \A w \in Workers : worker[w] = "ended"
<1>1. CASE Main
  BY <1>1 DEF Main, MainAwaitsHttp, MainDropsState, MainExits
<1>2. ASSUME NEW w \in Workers, Worker(w) PROVE main' = main
  BY <1>2 DEF Worker, WorkerTakes, WorkerStores, WorkerEnds
<1>3. ASSUME NEW s \in Streams, StreamOpens(s) \/ StreamQueues(s) \/ StreamEnds(s)
      PROVE  main' = main
  BY <1>3 DEF StreamOpens, StreamQueues, StreamEnds
<1>4. ASSUME NEW c \in Sockets, SocketOpens(c) \/ SocketEnds(c) PROVE main' = main
  BY <1>4 DEF SocketOpens, SocketEnds
<1>5. CtrlC \/ GrpcFails \/ Servers \/ UNCHANGED vars => main' = main
  BY DEF CtrlC, GrpcFails, Servers, GrpcDrains, GrpcStops, HttpStops, CheckerStops, vars
<1> QED
  BY <1>1, <1>2, <1>3, <1>4, <1>5 DEF Next, ClientsLeave

\* The initial states satisfy the inductive invariant.
LEMMA InitIInv == Init => IInv
<1> SUFFICES ASSUME Init PROVE IInv
  OBVIOUS
<1>1. TypeOK
  <2>1. cancelled \in BOOLEAN
    BY Zenon DEF Init
  <2>2. queue \in [Workers -> 0 .. QueueCap] /\ items \in 0 .. MaxItems
    BY ShutdownAssumption DEF Init
  <2> QED
    BY <2>1, <2>2 DEF Init, TypeOK
<1>2. EndedIsDrained
  BY DEF Init, EndedIsDrained
<1> QED
  BY <1>1, <1>2 DEF IInv

\* Every step preserves it.
LEMMA NextIInv == IInv /\ [Next]_vars => IInv'
<1> SUFFICES ASSUME TypeOK, EndedIsDrained, [Next]_vars PROVE IInv'
  BY DEF IInv
<1>1. TypeOK'
  BY TypeStep
<1>2. ASSUME NEW w \in Workers, worker'[w] = "ended" PROVE ~StateHeld' /\ queue'[w] = 0
  <2>1. ~StateHeld /\ queue[w] = 0
    BY <1>2, WorkerEnding DEF EndedIsDrained
  <2> QED
    BY <2>1, ClosedForGood
<1>3. ASSUME main' = "exited" PROVE ~StateHeld' /\ \A w \in Workers : worker'[w] = "ended"
  <2>1. \A w \in Workers : worker[w] = "ended"
    BY <1>3, MainExiting DEF EndedIsDrained
  <2>2. \A w \in Workers : worker'[w] = "ended"
    BY <2>1, EndedStays
  <2>3. ~StateHeld'
    BY <1>2, <2>2, ShutdownAssumption
  <2> QED
    BY <2>2, <2>3
<1>4. EndedIsDrained'
  BY <1>2, <1>3 DEF EndedIsDrained
<1> QED
  BY <1>1, <1>4 DEF IInv

\* The inductive invariant holds throughout.
THEOREM Invariance == Spec => []IInv
  BY InitIInv, NextIInv, PTL DEF Spec

\* The server's tasks are always well typed: no queue exceeds its capacity
\* while clients, workers and main wind down.
THEOREM TypeCorrect == Spec => []TypeOK
<1>1. IInv => TypeOK
  BY DEF IInv
<1> QED
  BY <1>1, Invariance, PTL

\* Graceful shutdown loses nothing (main.rs, after "Servers stopped"): when
\* main returns, every queue is empty, every worker has ended and no handler
\* is left to queue more, for any number of clients and workers.
THEOREM DrainedAtExitHolds == Spec => []DrainedAtExit
<1>1. IInv => DrainedAtExit
  BY DEF IInv, EndedIsDrained, DrainedAtExit, StateHeld
<1> QED
  BY <1>1, Invariance, PTL
=============================================================================
