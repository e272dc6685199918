----------------------------- MODULE Shutdown -----------------------------
(***************************************************************************)
(* Graceful shutdown of pulse-server (main.rs): Ctrl-C cancels a token the *)
(* two servers and the liveness checker watch; main waits for the servers, *)
(* drops its AppState and waits for the ingestion workers.                 *)
(*                                                                         *)
(* A worker ends when its channel is closed and empty, and the channels    *)
(* close when the last clone of AppState is gone: main, both servers, the  *)
(* checker, every stream handler and every WebSocket handler hold one.     *)
(* The handlers do not watch the token: each runs until its client leaves. *)
(*                                                                         *)
(* External: a stopping tonic server waits for its open streams; a         *)
(* stopping axum server does not wait for upgraded (WebSocket) connections.*)
(***************************************************************************)
EXTENDS Naturals

CONSTANTS
  Streams,    \* gRPC streams that agents may open
  Sockets,    \* WebSocket connections that dashboards may open
  Workers,
  WorkerOf,   \* the worker each stream's node is sharded to
  QueueCap,   \* capacity of a worker's channel
  MaxItems    \* bound: items queued

ASSUME ShutdownAssumption ==
  /\ Workers # {}
  /\ WorkerOf \in [Streams -> Workers]
  /\ QueueCap \in Nat
  /\ MaxItems \in Nat

VARIABLES
  cancelled,  \* cancel_token
  grpc,       \* the tonic server
  http,       \* the axum server
  checker,    \* the liveness checker's task
  main,       \* what main is waiting for
  stream,     \* the stream handlers
  socket,     \* the WebSocket handlers
  queue,      \* number of items in each channel
  worker,
  items       \* items queued so far, to bound them

vars == <<cancelled, grpc, http, checker, main, stream, socket, queue, worker, items>>

TypeOK ==
  /\ cancelled \in BOOLEAN
  /\ grpc \in {"serving", "draining", "stopped"}
  /\ http \in {"serving", "stopped"}
  /\ checker \in {"running", "stopped"}
  /\ main \in {"await_grpc", "await_http", "await_workers", "exited"}
  /\ stream \in [Streams -> {"none", "open", "closed"}]
  /\ socket \in [Sockets -> {"none", "open", "closed"}]
  /\ queue \in [Workers -> 0 .. QueueCap]
  /\ worker \in [Workers -> {"recv", "busy", "ended"}]
  /\ items \in 0 .. MaxItems

Init ==
  /\ cancelled = FALSE
  /\ grpc = "serving"
  /\ http = "serving"
  /\ checker = "running"
  /\ main = "await_grpc"
  /\ stream = [s \in Streams |-> "none"]
  /\ socket = [c \in Sockets |-> "none"]
  /\ queue = [w \in Workers |-> 0]
  /\ worker = [w \in Workers |-> "recv"]
  /\ items = 0

\* Variant: main keeps its AppState while it waits for the workers.
StateHeldByMain == main # "exited"

\* Some clone of AppState, and with it of worker_txs, is alive.
StateHeld ==
  \/ main \in {"await_grpc", "await_http"}
  \/ grpc # "stopped"
  \/ http # "stopped"
  \/ checker = "running"
  \/ \E s \in Streams : stream[s] = "open"
  \/ \E c \in Sockets : socket[c] = "open"

-----------------------------------------------------------------------------
(* Clients.                                                                *)

\* An agent's stream_telemetry is accepted and its handler spawned.
StreamOpens(s) ==
  /\ grpc = "serving"
  /\ stream[s] = "none"
  /\ stream' = [stream EXCEPT ![s] = "open"]
  /\ UNCHANGED <<cancelled, grpc, http, checker, main, socket, queue, worker, items>>

\* Variant: the handler queues without a limit.
StreamQueuesUnbounded(s) ==
  /\ stream[s] = "open"
  /\ items < MaxItems
  /\ items' = items + 1
  /\ queue' = [queue EXCEPT ![WorkerOf[s]] = @ + 1]
  /\ UNCHANGED <<cancelled, grpc, http, checker, main, stream, socket, worker>>

\* A message is queued by the handler, or dropped if there is no room.
StreamQueues(s) ==
  LET w == WorkerOf[s] IN
  /\ stream[s] = "open"
  /\ items < MaxItems
  /\ items' = items + 1
  /\ queue' = IF queue[w] < QueueCap THEN [queue EXCEPT ![w] = @ + 1] ELSE queue
  /\ UNCHANGED <<cancelled, grpc, http, checker, main, stream, socket, worker>>

\* The agent leaves or its message is invalid; the handler's loop ends.
StreamEnds(s) ==
  /\ stream[s] = "open"
  /\ stream' = [stream EXCEPT ![s] = "closed"]
  /\ UNCHANGED <<cancelled, grpc, http, checker, main, socket, queue, worker, items>>

\* ws_handler upgrades a request of the axum server.
SocketOpens(c) ==
  /\ http = "serving"
  /\ socket[c] = "none"
  /\ socket' = [socket EXCEPT ![c] = "open"]
  /\ UNCHANGED <<cancelled, grpc, http, checker, main, stream, queue, worker, items>>

\* The dashboard leaves; handle_socket returns.
SocketEnds(c) ==
  /\ socket[c] = "open"
  /\ socket' = [socket EXCEPT ![c] = "closed"]
  /\ UNCHANGED <<cancelled, grpc, http, checker, main, stream, queue, worker, items>>

-----------------------------------------------------------------------------
(* The shutdown sequence.                                                  *)

CtrlC ==
  /\ ~cancelled
  /\ cancelled' = TRUE
  /\ UNCHANGED <<grpc, http, checker, main, stream, socket, queue, worker, items>>

GrpcDrains ==
  /\ cancelled
  /\ grpc = "serving"
  /\ grpc' = "draining"
  /\ UNCHANGED <<cancelled, http, checker, main, stream, socket, queue, worker, items>>

\* serve_with_shutdown returns once no stream is open.
GrpcStops ==
  /\ grpc = "draining"
  /\ \A s \in Streams : stream[s] # "open"
  /\ grpc' = "stopped"
  /\ UNCHANGED <<cancelled, http, checker, main, stream, socket, queue, worker, items>>

\* serve_with_shutdown fails to bind; main only finds its task finished.
GrpcFails ==
  /\ grpc = "serving"
  /\ \A s \in Streams : stream[s] = "none"
  /\ grpc' = "stopped"
  /\ UNCHANGED <<cancelled, http, checker, main, stream, socket, queue, worker, items>>

HttpStops ==
  /\ cancelled
  /\ http = "serving"
  /\ http' = "stopped"
  /\ UNCHANGED <<cancelled, grpc, checker, main, stream, socket, queue, worker, items>>

CheckerStops ==
  /\ cancelled
  /\ checker = "running"
  /\ checker' = "stopped"
  /\ UNCHANGED <<cancelled, grpc, http, main, stream, socket, queue, worker, items>>

MainAwaitsHttp ==
  /\ main = "await_grpc"
  /\ grpc = "stopped"
  /\ main' = "await_http"
  /\ UNCHANGED <<cancelled, grpc, http, checker, stream, socket, queue, worker, items>>

\* drop(app_state)
MainDropsState ==
  /\ main = "await_http"
  /\ http = "stopped"
  /\ main' = "await_workers"
  /\ UNCHANGED <<cancelled, grpc, http, checker, stream, socket, queue, worker, items>>

MainExits ==
  /\ main = "await_workers"
  /\ \A w \in Workers : worker[w] = "ended"
  /\ main' = "exited"
  /\ UNCHANGED <<cancelled, grpc, http, checker, stream, socket, queue, worker, items>>

-----------------------------------------------------------------------------
(* Workers.                                                                *)

WorkerTakes(w) ==
  /\ worker[w] = "recv"
  /\ queue[w] > 0
  /\ queue' = [queue EXCEPT ![w] = @ - 1]
  /\ worker' = [worker EXCEPT ![w] = "busy"]
  /\ UNCHANGED <<cancelled, grpc, http, checker, main, stream, socket, items>>

WorkerStores(w) ==
  /\ worker[w] = "busy"
  /\ worker' = [worker EXCEPT ![w] = "recv"]
  /\ UNCHANGED <<cancelled, grpc, http, checker, main, stream, socket, queue, items>>

\* Variant: the worker leaves its loop as soon as the token is cancelled.
WorkerEndsOnCancel(w) ==
  /\ worker[w] = "recv"
  /\ cancelled
  /\ worker' = [worker EXCEPT ![w] = "ended"]
  /\ UNCHANGED <<cancelled, grpc, http, checker, main, stream, socket, queue, items>>

\* recv returns None: the channel is empty and has no sender left.
WorkerEnds(w) ==
  /\ worker[w] = "recv"
  /\ queue[w] = 0
  /\ ~StateHeld
  /\ worker' = [worker EXCEPT ![w] = "ended"]
  /\ UNCHANGED <<cancelled, grpc, http, checker, main, stream, socket, queue, items>>

-----------------------------------------------------------------------------
Servers ==
  GrpcDrains \/ GrpcStops \/ HttpStops \/ CheckerStops

Main == MainAwaitsHttp \/ MainDropsState \/ MainExits

Worker(w) == WorkerTakes(w) \/ WorkerStores(w) \/ WorkerEnds(w)

ClientsLeave ==
  (\E s \in Streams : StreamEnds(s)) \/ (\E c \in Sockets : SocketEnds(c))

Next ==
  \/ \E s \in Streams : StreamOpens(s) \/ StreamQueues(s)
  \/ \E c \in Sockets : SocketOpens(c)
  \/ ClientsLeave
  \/ CtrlC
  \/ GrpcFails
  \/ Servers
  \/ Main
  \/ \E w \in Workers : Worker(w)

Spec == Init /\ [][Next]_vars

\* The server's own tasks run whenever they can.
ServerFairness ==
  /\ WF_vars(GrpcDrains)
  /\ WF_vars(GrpcStops)
  /\ WF_vars(HttpStops)
  /\ WF_vars(CheckerStops)
  /\ WF_vars(Main)
  /\ \A w \in Workers : WF_vars(Worker(w))

FairSpec == Spec /\ ServerFairness

\* The same when, in addition, agents and dashboards go away by themselves.
LeavingSpec == FairSpec /\ WF_vars(ClientsLeave)

-----------------------------------------------------------------------------
(* Properties.                                                             *)

\* When main returns, every accepted item has been handed to the database:
\* the queues are empty, no worker holds an item, and no handler is left
\* that could queue another.
DrainedAtExit ==
  main = "exited" =>
    /\ \A w \in Workers : queue[w] = 0 /\ worker[w] = "ended"
    /\ \A s \in Streams : stream[s] # "open"

\* After Ctrl-C the server exits.  LeavingSpec satisfies it.  FairSpec, where
\* clients may stay, is what "coordinate shutdown using cancellation tokens
\* to cleanly drain the ingestion queues" (README.md) is about.
ShutdownCompletes == cancelled ~> main = "exited"
=============================================================================
