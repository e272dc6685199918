------------------------------- MODULE Agent -------------------------------
(***************************************************************************)
(* The node agent (pulse-agent/src/main.rs): its collector task, the       *)
(* reconnect loop of run_agent_loop, and, for each session run_session     *)
(* opens, a forwarder task, a heartbeat task and probe tasks that share    *)
(* the session's mpsc channel.  Sessions are numbered 1, 2, ... in the     *)
(* order their channels are created; the tasks of session s are the ones   *)
(* indexed by s below.  A snapshot is the number of the collection that    *)
(* produced it; every other message is Control.                            *)
(*                                                                         *)
(* tokio and the network are modelled by how main.rs uses them:            *)
(*  - a spawned task takes steps of its own and can be cancelled, after    *)
(*    JoinHandle::abort, only where it is suspended at an .await;          *)
(*  - Notify keeps a FIFO of waiters and at most one permit, and hands on  *)
(*    the notification of a waiter that is cancelled before it runs;       *)
(*  - a stream carries messages in order until it breaks; what is in       *)
(*    flight at that moment may still arrive, or be lost.                  *)
(***************************************************************************)
EXTENDS TelemetryBuffer, Backoff, FiniteSets, Functions

CONSTANTS
  MaxCollected,    \* bound: snapshots collected
  MaxSessions,     \* bound: sessions whose connect succeeds
  MaxProbes,       \* bound: probe tasks running at once in a session
  MaxControl,      \* bound: control messages queued in a channel at once
  ChanCap,         \* capacity of the session channel; 64 in run_session
  WireCap          \* bound: messages in flight on one stream

ASSUME AgentAssumption ==
  /\ MaxCollected \in Nat
  /\ MaxSessions \in Nat
  /\ MaxProbes \in Nat
  /\ MaxControl \in Nat
  /\ ChanCap \in Nat \ {0}
  /\ WireCap \in Nat \ {0}

Sessions == 1 .. MaxSessions
Control == 0                         \* a heartbeat or a probe result
Snapshots == 1 .. MaxCollected

VARIABLES
  phase,      \* where run_agent_loop is suspended
  sess,       \* number of the latest session
  cancelled,  \* the cancellation token
  backoff,    \* ExponentialBackoff::current
  delay,      \* the latest sleep since the last clean end, 0 if none
  collected,  \* snapshots collected so far
  collector,  \* "sleep", or "notify" between push and notify_one
  buf,        \* the holdback buffer
  permit,     \* Notify: a stored notification
  waiters,    \* Notify: sessions whose forwarder waits, oldest first
  fwd,        \* program counter of each forwarder
  batch,      \* the forwarder's messages still to be sent
  probes,     \* number of probe tasks running
  aborted,    \* the session's tasks were told to abort
  chan,       \* the session channel
  rxOpen,     \* its receiver, owned by the request body, still exists
  link,       \* the stream as the session sees it
  wire,       \* messages in flight to the server
  recv        \* snapshots the server has received on the stream

loopVars == <<phase, sess, cancelled, backoff, delay>>
bufVars == <<collected, collector, buf>>
notifyVars == <<permit, waiters>>
taskVars == <<fwd, batch, probes, aborted>>
netVars == <<chan, rxOpen, link, wire, recv>>
vars == <<loopVars, bufVars, notifyVars, taskVars, netVars>>

Running == phase # "exited"

LoopTypeOK ==
  /\ phase \in {"connecting", "opening", "streaming", "backoff", "exited"}
  /\ sess \in 0 .. MaxSessions
  /\ cancelled \in BOOLEAN
  /\ backoff \in BackoffBase .. BackoffMax
  /\ delay \in Int

BufTypeOK ==
  /\ collected \in 0 .. MaxCollected
  /\ collector \in {"sleep", "notify"}
  /\ buf \in Seq(Snapshots)

ForwarderStates == {"none", "spawned", "drain", "send", "wait", "notified", "done"}

TaskTypeOK ==
  /\ permit \in BOOLEAN
  /\ waiters \in Seq(Sessions)
  /\ fwd \in [Sessions -> ForwarderStates]
  /\ batch \in [Sessions -> Seq(Snapshots)]
  /\ probes \in [Sessions -> 0 .. MaxProbes]
  /\ aborted \in [Sessions -> BOOLEAN]

NetTypeOK ==
  /\ chan \in [Sessions -> Seq(Snapshots \cup {Control})]
  /\ rxOpen \in [Sessions -> BOOLEAN]
  /\ link \in [Sessions -> {"none", "up", "ended", "broken"}]
  /\ wire \in [Sessions -> Seq(Snapshots \cup {Control})]
  /\ recv \in [Sessions -> Seq(Snapshots)]

TypeOK == LoopTypeOK /\ BufTypeOK /\ TaskTypeOK /\ NetTypeOK

Init ==
  /\ phase = "connecting"
  /\ sess = 0
  /\ cancelled = FALSE
  /\ backoff = BackoffBase
  /\ delay = 0
  /\ collected = 0
  /\ collector = "sleep"
  /\ buf = EmptyBuffer
  /\ permit = FALSE
  /\ waiters = <<>>
  /\ fwd = [s \in Sessions |-> "none"]
  /\ batch = [s \in Sessions |-> <<>>]
  /\ probes = [s \in Sessions |-> 0]
  /\ aborted = [s \in Sessions |-> FALSE]
  /\ chan = [s \in Sessions |-> <<>>]
  /\ rxOpen = [s \in Sessions |-> FALSE]
  /\ link = [s \in Sessions |-> "none"]
  /\ wire = [s \in Sessions |-> <<>>]
  /\ recv = [s \in Sessions |-> <<>>]

-----------------------------------------------------------------------------
(* Notify (tokio::sync::Notify).                                           *)

\* Variant: wakes a waiter but stores nothing when there is none.
NotifyWaitersOnly(ws, f) ==
  /\ permit' = permit
  /\ waiters' = IF ws = <<>> THEN ws ELSE Tail(ws)
  /\ fwd' = IF ws = <<>> THEN f ELSE [f EXCEPT ![Head(ws)] = "notified"]

\* Wake the first waiter, or store the permit when nobody waits.
NotifyOne(ws, f) ==
  IF ws = <<>>
  THEN /\ permit' = TRUE
       /\ waiters' = ws
       /\ fwd' = f
  ELSE /\ permit' = permit
       /\ waiters' = Tail(ws)
       /\ fwd' = [f EXCEPT ![Head(ws)] = "notified"]

\* The i-th waiter is cancelled.
LeaveQueue(ws, i) == SubSeq(ws, 1, i - 1) \o SubSeq(ws, i + 1, Len(ws))

-----------------------------------------------------------------------------
(* collection_loop                                                         *)

\* Sleep, collect, push under the lock.  A failed collection changes nothing.
CollectorPush ==
  /\ Running
  /\ collector = "sleep"
  /\ collected < MaxCollected
  /\ collected' = collected + 1
  /\ buf' = Push(buf, collected + 1)
  /\ collector' = "notify"
  /\ UNCHANGED <<loopVars, notifyVars, taskVars, netVars>>

\* notify_one, after the lock is released.
CollectorNotify ==
  /\ Running
  /\ collector = "notify"
  /\ collector' = "sleep"
  /\ NotifyOne(waiters, fwd)
  /\ UNCHANGED <<loopVars, collected, buf, batch, probes, aborted, netVars>>

-----------------------------------------------------------------------------
(* run_agent_loop and run_session.                                         *)

\* Variant: a connect that succeeds resets the backoff.
ConnectResets ==
  /\ phase = "connecting"
  /\ sess < MaxSessions
  /\ sess' = sess + 1
  /\ phase' = "opening"
  /\ backoff' = BackoffBase
  /\ fwd' = [fwd EXCEPT ![sess + 1] = "spawned"]
  /\ rxOpen' = [rxOpen EXCEPT ![sess + 1] = TRUE]
  /\ link' = [link EXCEPT ![sess + 1] = "up"]
  /\ UNCHANGED <<cancelled, delay, bufVars, notifyVars, batch, probes, aborted,
                 chan, wire, recv>>

\* connect() succeeds: the channel is created, the forwarder and the
\* heartbeat task are spawned, and stream_telemetry is awaited.
Connect ==
  /\ phase = "connecting"
  /\ sess < MaxSessions
  /\ sess' = sess + 1
  /\ phase' = "opening"
  /\ fwd' = [fwd EXCEPT ![sess + 1] = "spawned"]
  /\ rxOpen' = [rxOpen EXCEPT ![sess + 1] = TRUE]
  /\ link' = [link EXCEPT ![sess + 1] = "up"]
  /\ UNCHANGED <<cancelled, backoff, delay, bufVars, notifyVars, batch, probes,
                 aborted, chan, wire, recv>>

\* The Err arm of run_agent_loop: take the next delay and sleep.
Fail ==
  /\ phase' = "backoff"
  /\ \E j \in Jitters : delay' = Jittered(backoff, j)
  /\ backoff' = DoubleCapped(backoff)
  /\ UNCHANGED <<sess, cancelled, bufVars, notifyVars, taskVars>>

ConnectFails ==
  /\ phase = "connecting"
  /\ Fail
  /\ UNCHANGED netVars

StreamOpened ==
  /\ phase = "opening"
  /\ link[sess] = "up"
  /\ phase' = "streaming"
  /\ UNCHANGED <<sess, cancelled, backoff, delay, bufVars, notifyVars, taskVars, netVars>>

\* stream_telemetry fails.  The `?` leaves both spawned tasks running.
OpenFails ==
  /\ phase = "opening"
  /\ Fail
  /\ link' = [link EXCEPT ![sess] = "broken"]
  /\ UNCHANGED <<chan, rxOpen, wire, recv>>

\* inbound.message() fails.  The return leaves both spawned tasks running.
SessionFails ==
  /\ phase = "streaming"
  /\ link[sess] = "broken"
  /\ Fail
  /\ UNCHANGED netVars

\* The command loop breaks: both tasks are aborted, run_session returns Ok,
\* the backoff is reset and the next iteration connects at once.
CleanEnd ==
  /\ phase' = "connecting"
  /\ backoff' = BackoffBase
  /\ delay' = 0
  /\ aborted' = [aborted EXCEPT ![sess] = TRUE]
  /\ link' = [link EXCEPT ![sess] = "broken"]
  /\ UNCHANGED <<sess, cancelled, bufVars, notifyVars, fwd, batch, probes,
                 chan, rxOpen, wire, recv>>

\* The server closed its half of the stream.
SessionEnds ==
  /\ phase = "streaming"
  /\ link[sess] = "ended"
  /\ CleanEnd

\* The command loop sees the token before run_agent_loop does.
SessionCancelled ==
  /\ phase = "streaming"
  /\ cancelled
  /\ CleanEnd

\* Variant: the backoff sleep is not followed by another attempt.
BackoffOverOnlyIfRunning ==
  /\ phase = "backoff"
  /\ ~cancelled
  /\ phase' = "connecting"
  /\ UNCHANGED <<sess, cancelled, backoff, delay, bufVars, notifyVars, taskVars, netVars>>

\* The backoff sleep ends, or is cut short by the token.
BackoffOver ==
  /\ phase = "backoff"
  /\ phase' = "connecting"
  /\ UNCHANGED <<sess, cancelled, backoff, delay, bufVars, notifyVars, taskVars, netVars>>

\* ctrl_c
Cancel ==
  /\ Running
  /\ ~cancelled
  /\ cancelled' = TRUE
  /\ UNCHANGED <<phase, sess, backoff, delay, bufVars, notifyVars, taskVars, netVars>>

\* run_agent_loop drops the session it was running and returns: the process
\* ends, with its tasks, its memory and its connections.
LoopCancelled ==
  /\ cancelled
  /\ phase \in {"connecting", "opening", "streaming"}
  /\ phase' = "exited"
  /\ collector' = "sleep"
  /\ buf' = EmptyBuffer
  /\ permit' = FALSE
  /\ waiters' = <<>>
  /\ fwd' = [s \in Sessions |-> "done"]
  /\ batch' = [s \in Sessions |-> <<>>]
  /\ probes' = [s \in Sessions |-> 0]
  /\ chan' = [s \in Sessions |-> <<>>]
  /\ rxOpen' = [s \in Sessions |-> FALSE]
  /\ link' = [s \in Sessions |-> "broken"]
  /\ UNCHANGED <<sess, cancelled, backoff, delay, collected, aborted, wire, recv>>

-----------------------------------------------------------------------------
(* The forwarder task of session s.                                        *)

\* First poll of the task, or the poll after a notification.
ForwarderRuns(s) ==
  /\ Running
  /\ fwd[s] \in {"spawned", "notified"}
  /\ ~aborted[s]
  /\ fwd' = [fwd EXCEPT ![s] = "drain"]
  /\ UNCHANGED <<loopVars, bufVars, notifyVars, batch, probes, aborted, netVars>>

\* Variant: copies the buffer and leaves it full.
ForwarderPeeks(s) ==
  /\ Running
  /\ fwd[s] = "drain"
  /\ batch' = [batch EXCEPT ![s] = Drained(buf)]
  /\ fwd' = [fwd EXCEPT ![s] = "send"]
  /\ UNCHANGED <<loopVars, bufVars, notifyVars, probes, aborted, netVars>>

\* Empty the holdback buffer under its lock.
ForwarderDrains(s) ==
  /\ Running
  /\ fwd[s] = "drain"
  /\ batch' = [batch EXCEPT ![s] = Drained(buf)]
  /\ buf' = EmptyBuffer
  /\ fwd' = [fwd EXCEPT ![s] = "send"]
  /\ UNCHANGED <<loopVars, collected, collector, notifyVars, probes, aborted,
                 netVars>>

\* Variant: a full channel drops the message.
ForwarderTrySends(s) ==
  /\ Running
  /\ fwd[s] = "send"
  /\ batch[s] # <<>>
  /\ rxOpen[s]
  /\ chan' = IF Len(chan[s]) < ChanCap
             THEN [chan EXCEPT ![s] = Append(@, Head(batch[s]))] ELSE chan
  /\ batch' = [batch EXCEPT ![s] = Tail(@)]
  /\ UNCHANGED <<loopVars, bufVars, notifyVars, fwd, probes, aborted,
                 rxOpen, link, wire, recv>>

\* tx.send(msg).await with room in the channel.
ForwarderSends(s) ==
  /\ Running
  /\ fwd[s] = "send"
  /\ batch[s] # <<>>
  /\ rxOpen[s]
  /\ Len(chan[s]) < ChanCap
  /\ chan' = [chan EXCEPT ![s] = Append(@, Head(batch[s]))]
  /\ batch' = [batch EXCEPT ![s] = Tail(@)]
  /\ UNCHANGED <<loopVars, bufVars, notifyVars, fwd, probes, aborted,
                 rxOpen, link, wire, recv>>

\* The receiver is gone: the task returns and the rest of its batch with it.
ForwarderSendFails(s) ==
  /\ Running
  /\ fwd[s] = "send"
  /\ batch[s] # <<>>
  /\ ~rxOpen[s]
  /\ batch' = [batch EXCEPT ![s] = <<>>]
  /\ fwd' = [fwd EXCEPT ![s] = "done"]
  /\ UNCHANGED <<loopVars, bufVars, notifyVars, probes, aborted, netVars>>

\* notify.notified().await: take the permit and go on, or join the waiters.
ForwarderAwaits(s) ==
  /\ Running
  /\ fwd[s] = "send"
  /\ batch[s] = <<>>
  /\ permit' = FALSE
  /\ \/ /\ permit
        /\ fwd' = [fwd EXCEPT ![s] = "drain"]
        /\ UNCHANGED waiters
     \/ /\ ~permit
        /\ fwd' = [fwd EXCEPT ![s] = "wait"]
        /\ waiters' = Append(waiters, s)
  /\ UNCHANGED <<loopVars, bufVars, batch, probes, aborted, netVars>>

\* An aborted forwarder is dropped at an await point; a notification it was
\* given and has not acted on goes to the next waiter.
ForwarderReaped(s) ==
  /\ Running
  /\ aborted[s]
  /\ fwd[s] \in {"spawned", "send", "wait", "notified"}
  /\ batch' = [batch EXCEPT ![s] = <<>>]
  /\ \/ /\ fwd[s] = "notified"
        /\ NotifyOne(waiters, [fwd EXCEPT ![s] = "done"])
     \/ /\ fwd[s] = "wait"
        /\ \E i \in DOMAIN waiters :
             /\ waiters[i] = s
             /\ waiters' = LeaveQueue(waiters, i)
        /\ fwd' = [fwd EXCEPT ![s] = "done"]
        /\ UNCHANGED permit
     \/ /\ fwd[s] \in {"spawned", "send"}
        /\ fwd' = [fwd EXCEPT ![s] = "done"]
        /\ UNCHANGED notifyVars
  /\ UNCHANGED <<loopVars, bufVars, probes, aborted, netVars>>

-----------------------------------------------------------------------------
(* The heartbeat task and the probe tasks of session s.                    *)

SendControl(s) ==
  /\ Running
  /\ rxOpen[s]
  /\ Cardinality({i \in DOMAIN chan[s] : chan[s][i] = Control}) < MaxControl
  /\ Len(chan[s]) < ChanCap
  /\ chan' = [chan EXCEPT ![s] = Append(@, Control)]
  /\ UNCHANGED <<loopVars, bufVars, notifyVars, fwd, batch, aborted,
                 rxOpen, link, wire, recv>>

\* A tick of heartbeat_loop.  The task lives from Connect until it is aborted
\* or finds the channel closed.
HeartbeatSends(s) ==
  /\ fwd[s] # "none"
  /\ ~aborted[s]
  /\ SendControl(s)
  /\ UNCHANGED probes

\* An AddTcpProbe command spawns a task with its own sender.
ProbeSpawned(s) ==
  /\ phase = "streaming"
  /\ s = sess
  /\ link[s] = "up"
  /\ probes[s] < MaxProbes
  /\ probes' = [probes EXCEPT ![s] = @ + 1]
  /\ UNCHANGED <<loopVars, bufVars, notifyVars, fwd, batch, aborted, netVars>>

\* The probe connects, fails or times out (tcp_probe), and its task sends the
\* one result.  It is never aborted.
ProbeReports(s) ==
  /\ probes[s] > 0
  /\ probes' = [probes EXCEPT ![s] = @ - 1]
  /\ SendControl(s)

\* ... or logs that the channel is closed.
ProbeSendFails(s) ==
  /\ Running
  /\ probes[s] > 0
  /\ ~rxOpen[s]
  /\ probes' = [probes EXCEPT ![s] = @ - 1]
  /\ UNCHANGED <<loopVars, bufVars, notifyVars, fwd, batch, aborted, netVars>>

-----------------------------------------------------------------------------
(* The stream of session s (tonic, hyper and the network; external).       *)

\* The request body hands the next message to the transport.
Transmit(s) ==
  /\ Running
  /\ link[s] = "up"
  /\ chan[s] # <<>>
  /\ Len(wire[s]) < WireCap
  /\ wire' = [wire EXCEPT ![s] = Append(@, Head(chan[s]))]
  /\ chan' = [chan EXCEPT ![s] = Tail(@)]
  /\ UNCHANGED <<loopVars, bufVars, notifyVars, taskVars, rxOpen, link, recv>>

\* The server's handler receives the next message, also after the agent has
\* given the stream up.
Deliver(s) ==
  /\ wire[s] # <<>>
  /\ wire' = [wire EXCEPT ![s] = Tail(@)]
  /\ recv' = IF Head(wire[s]) = Control THEN recv
             ELSE [recv EXCEPT ![s] = Append(@, Head(wire[s]))]
  /\ UNCHANGED <<loopVars, bufVars, notifyVars, taskVars, chan, rxOpen, link>>

\* The connection fails.
LinkBreaks(s) ==
  /\ phase \in {"opening", "streaming"}
  /\ s = sess
  /\ link[s] \in {"up", "ended"}
  /\ link' = [link EXCEPT ![s] = "broken"]
  /\ UNCHANGED <<loopVars, bufVars, notifyVars, taskVars, chan, rxOpen, wire, recv>>

\* The server ends the stream in an orderly way.
LinkEnds(s) ==
  /\ phase = "streaming"
  /\ s = sess
  /\ link[s] = "up"
  /\ link' = [link EXCEPT ![s] = "ended"]
  /\ UNCHANGED <<loopVars, bufVars, notifyVars, taskVars, chan, rxOpen, wire, recv>>

\* The transport drops the request body, and with it the receiver and
\* whatever the channel still holds.
RxDropped(s) ==
  /\ Running
  /\ link[s] \in {"ended", "broken"}
  /\ rxOpen[s]
  /\ rxOpen' = [rxOpen EXCEPT ![s] = FALSE]
  /\ chan' = [chan EXCEPT ![s] = <<>>]
  /\ UNCHANGED <<loopVars, bufVars, notifyVars, taskVars, link, wire, recv>>

\* What is in flight on a broken stream is lost.
WireLost(s) ==
  /\ link[s] \in {"ended", "broken"}
  /\ wire[s] # <<>>
  /\ wire' = [wire EXCEPT ![s] = <<>>]
  /\ UNCHANGED <<loopVars, bufVars, notifyVars, taskVars, chan, rxOpen, link, recv>>

-----------------------------------------------------------------------------
Loop ==
  \/ Connect \/ ConnectFails \/ StreamOpened \/ OpenFails
  \/ SessionFails \/ SessionEnds \/ SessionCancelled
  \/ BackoffOver \/ Cancel \/ LoopCancelled

\* The steps of a forwarder that wait for nobody.
ForwarderProceeds(s) ==
  \/ ForwarderRuns(s) \/ ForwarderDrains(s) \/ ForwarderSendFails(s)
  \/ ForwarderAwaits(s) \/ ForwarderReaped(s)

Forwarder(s) == ForwarderProceeds(s) \/ ForwarderSends(s)

Senders(s) ==
  \/ HeartbeatSends(s) \/ ProbeSpawned(s)
  \/ ProbeReports(s) \/ ProbeSendFails(s)

Stream(s) ==
  \/ Transmit(s) \/ Deliver(s) \/ LinkBreaks(s) \/ LinkEnds(s)
  \/ RxDropped(s) \/ WireLost(s)

\* The process is gone and nothing is in flight.
Exited == phase = "exited" /\ UNCHANGED vars

Next ==
  \/ CollectorPush
  \/ CollectorNotify
  \/ Loop
  \/ \E s \in Sessions : Forwarder(s) \/ Senders(s) \/ Stream(s)
  \/ Exited

Spec == Init /\ [][Next]_vars

\* tokio polls every ready task again; the transport moves what it is given
\* and drops the body of a dead stream.  Strong fairness for the two steps
\* that compete: a send, because the channel's semaphore admits senders in
\* FIFO order, and the token's branch of the select!, because select! picks
\* its branch at random.  Collecting, connecting, breaking links, probes and
\* ctrl_c are not fair: none of them has to happen.
Fairness ==
  /\ WF_vars(CollectorNotify)
  /\ WF_vars(BackoffOver \/ SessionFails \/ SessionEnds)
  /\ SF_vars(LoopCancelled)
  /\ \A s \in Sessions :
       /\ WF_vars(ForwarderProceeds(s))
       /\ SF_vars(ForwarderSends(s))
       /\ WF_vars(Transmit(s) \/ Deliver(s) \/ RxDropped(s))

FairSpec == Spec /\ Fairness

-----------------------------------------------------------------------------
(* What the agent implements.                                              *)

\* The snapshots a session has taken and the server may still receive: those
\* in flight and, while the stream is up, those on their way to it.
Outstanding(s) ==
  (Range(wire[s]) \ {Control})
    \cup IF link[s] = "up" THEN Range(batch[s]) \cup (Range(chan[s]) \ {Control}) ELSE {}

D == INSTANCE Delivery WITH
       held <- Range(buf),
       up <- [s \in Sessions |-> link[s] = "up"],
       out <- [s \in Sessions |-> Outstanding(s)]

RB == INSTANCE ReconnectBackoff WITH current <- backoff

-----------------------------------------------------------------------------
(* Properties.                                                             *)

\* No lost wakeup.  Whenever the holdback buffer holds a snapshot, somebody
\* is committed to draining it: the collector has yet to notify, the permit
\* is stored for the next forwarder that awaits, or a forwarder has been
\* woken and not drained yet.  collection_loop pushes and notifies in two
\* steps, and forwarders of dead sessions compete for the notification.
NoLostWakeup ==
  buf # <<>> =>
    \/ collector = "notify"
    \/ permit
    \/ \E s \in Sessions : fwd[s] \in {"notified", "drain"}

\* The holdback buffer is always the newest run of what was collected, with
\* no gap, in collection order and within its capacity: push evicts from the
\* old end only and drain leaves nothing behind.
HoldbackIsNewestRun ==
  /\ Len(buf) <= BufferCap
  /\ \A i \in DOMAIN buf : buf[i] = collected - Len(buf) + i

\* What the server receives is in collection order and free of duplicates,
\* within a stream and from each stream to the later ones, although batches,
\* channels and in-flight data of several sessions exist at once.
DeliveryOrder ==
  \A s, t \in Sessions :
    \A i \in DOMAIN recv[s], j \in DOMAIN recv[t] :
      s < t \/ (s = t /\ i < j) => recv[s][i] < recv[t][j]

\* The agent implements Delivery: through eviction, batches, channels, streams
\* and stale forwarders, a snapshot that leaves the holdback buffer reaches the
\* server in its turn, or is lost with a session that is down.
SnapshotsDelivered == D!Spec

\* The reconnect loop implements ReconnectBackoff: it takes the next delay
\* after every failure, of a connect, of opening a stream or of the stream,
\* and starts over after every clean end and only then.
BackoffFollowed == RB!Spec

\* No sleep is longer than the maximum plus 30 % or shorter than the base less
\* 30 % (next_delay): its floor of 100 ms never takes effect.
DelayBounded == RB!DelayBounded

\* Failure after failure the agent waits strictly longer, whatever the jitter,
\* until it sleeps as long as it does at the cap.
DelaysGrowToCap == RB!DelaysGrowToCap

\* After ctrl_c the agent exits from whatever it was doing: connecting,
\* opening a stream, streaming or sleeping between attempts.
CancelEndsAgent == cancelled ~> phase = "exited"

\* While a session streams, held back snapshots do not stay held back.
HoldbackIsDrained ==
  (phase = "streaming" /\ buf # <<>>) ~> (phase # "streaming" \/ buf = <<>>)

\* A snapshot a forwarder has taken out of the holdback buffer reaches the
\* server unless the stream ends first: a full channel delays, never drops.
ForwardedReachesServer ==
  \A s \in Sessions, m \in Snapshots :
    (link[s] = "up" /\ m \in Range(batch[s]) \cup Range(chan[s]))
      ~> (m \in Range(recv[s]) \/ link[s] # "up" \/ ~Running)

\* "On reconnection, buffered snapshots are drained and sent" (buffer.rs):
\* the holdback buffer is emptied only into a session that exists.
HeldBackUntilReconnect ==
  [][buf # <<>> /\ buf' = <<>> /\ phase' # "exited"
       => phase \in {"opening", "streaming"}]_vars
=============================================================================
