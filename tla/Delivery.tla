------------------------------ MODULE Delivery ------------------------------
(***************************************************************************)
(* What the agent promises for the snapshots it collects, without tasks,   *)
(* channels and notifications: they are held back, the newest of them;     *)
(* a session takes them all at once; the server receives those a session   *)
(* has taken, oldest first; and none gets lost but by eviction or with a   *)
(* session that is down.  Module Agent implements this specification.      *)
(***************************************************************************)
EXTENDS Integers, Sequences

CONSTANTS Sessions, BufferCap

VARIABLES
  collected,   \* snapshots collected so far, numbered from 1
  held,        \* those held back
  sess,        \* the latest session
  up,          \* which sessions are up
  out,         \* taken by a session and still to be received
  recv         \* received by the server on a session

vars == <<collected, held, sess, up, out, recv>>

Init ==
  /\ collected = 0
  /\ held = {}
  /\ sess = 0
  /\ up = [s \in Sessions |-> FALSE]
  /\ out = [s \in Sessions |-> {}]
  /\ recv = [s \in Sessions |-> <<>>]

\* One more is held back; at most the newest BufferCap of them stay.
Collect ==
  /\ collected' = collected + 1
  /\ held' = {m \in held \cup {collected + 1} : m > collected + 1 - BufferCap}
  /\ UNCHANGED <<sess, up, out, recv>>

\* Sessions follow each other.
Open ==
  /\ sess + 1 \in Sessions
  /\ \A s \in Sessions : ~up[s]
  /\ sess' = sess + 1
  /\ up' = [up EXCEPT ![sess + 1] = TRUE]
  /\ UNCHANGED <<collected, held, out, recv>>

\* A session takes what is held back; with one that is down it is lost.
Take(s) ==
  /\ s <= sess
  /\ held' = {}
  /\ out' = IF up[s] THEN [out EXCEPT ![s] = @ \cup held] ELSE out
  /\ UNCHANGED <<collected, sess, up, recv>>

\* The server receives the oldest.
Receive(s) ==
  \E m \in out[s] :
    /\ \A x \in out[s] : m <= x
    /\ out' = [out EXCEPT ![s] = @ \ {m}]
    /\ recv' = [recv EXCEPT ![s] = Append(@, m)]
    /\ UNCHANGED <<collected, held, sess, up>>

\* A session goes down, or is down, and some of what it has taken is lost.
Break(s) ==
  /\ up' = [up EXCEPT ![s] = FALSE]
  /\ \E rest \in SUBSET out[s] : out' = [out EXCEPT ![s] = rest]
  /\ UNCHANGED <<collected, held, sess, recv>>

\* The agent exits with everything it holds.
Exit ==
  /\ held' = {}
  /\ up' = [s \in Sessions |-> FALSE]
  /\ out' \in [Sessions -> UNION {SUBSET out[s] : s \in Sessions}]
  /\ \A s \in Sessions : out'[s] \subseteq out[s]
  /\ UNCHANGED <<collected, sess, recv>>

Next ==
  \/ Collect \/ Open \/ Exit
  \/ \E s \in Sessions : Take(s) \/ Receive(s) \/ Break(s)

Spec == Init /\ [][Next]_vars

-----------------------------------------------------------------------------
\* What the server receives is in collection order and free of duplicates,
\* within a session and from each session to the later ones.
DeliveryOrder ==
  \A s, t \in Sessions :
    \A i \in DOMAIN recv[s], j \in DOMAIN recv[t] :
      s < t \/ (s = t /\ i < j) => recv[s][i] < recv[t][j]
=============================================================================
