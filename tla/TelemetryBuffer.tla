-------------------------- MODULE TelemetryBuffer --------------------------
(***************************************************************************)
(* The agent's holdback buffer (pulse-agent/src/buffer.rs): a fixed        *)
(* capacity FIFO of telemetry messages that evicts its oldest entry to     *)
(* make room for the newest.  The caller holds the buffer's mutex for the  *)
(* whole of either operation, so each one is a single step of its caller.  *)
(***************************************************************************)
EXTENDS Naturals, Sequences

CONSTANT BufferCap      \* capacity; 100 in run_agent_loop

ASSUME BufferCapAssumption == BufferCap \in Nat \ {0}

\* TelemetryBuffer::new
EmptyBuffer == <<>>

\* Variant of Push: a full buffer refuses the newest message.
PushRefused(buf, msg) == IF Len(buf) >= BufferCap THEN buf ELSE Append(buf, msg)

\* TelemetryBuffer::push: drop the front of a full buffer, then append.
Push(buf, msg) ==
  IF Len(buf) >= BufferCap THEN Append(Tail(buf), msg) ELSE Append(buf, msg)

\* TelemetryBuffer::drain: every message in FIFO order; EmptyBuffer is left.
Drained(buf) == buf
=============================================================================
