-------------------------- MODULE ReconnectBackoff --------------------------
(***************************************************************************)
(* The delays run_agent_loop sleeps between sessions (main.rs): what a     *)
(* reader of ExponentialBackoff expects of them, without the sessions.     *)
(* Module Agent implements this specification.                             *)
(***************************************************************************)
EXTENDS Backoff

VARIABLES
  current,    \* ExponentialBackoff::current
  delay       \* the latest sleep since the last clean end, 0 if none

vars == <<current, delay>>

TypeOK ==
  /\ current \in BackoffBase .. BackoffMax
  /\ delay \in Nat

\* ExponentialBackoff::new
Init ==
  /\ current = BackoffBase
  /\ delay = 0

\* A session fails: next_delay, then sleep.
SessionFails ==
  \E j \in Jitters :
    /\ delay' = Jittered(current, j)
    /\ current' = DoubleCapped(current)

\* A session ends cleanly: reset, and no sleep.
SessionEndsCleanly ==
  /\ current' = BackoffBase
  /\ delay' = 0

Next == SessionFails \/ SessionEndsCleanly

Spec == Init /\ [][Next]_vars

-----------------------------------------------------------------------------
\* The shortest sleep at the cap.
CapFloor == (BackoffMax * 700) \div 1000

\* Failure after failure the agent waits strictly longer, whatever the
\* jitter, until it sleeps as long as it does at the cap; only a clean end
\* starts over.  The jitter of two neighbouring steps must not overlap, the
\* last, shorter step to the cap included.
DelaysGrowToCap ==
  [][delay' > delay \/ delay >= CapFloor \/ delay' = 0]_vars

\* No sleep is longer than the cap plus 30 % or shorter than the base less
\* 30 %, in whole milliseconds: the floor of next_delay never takes effect.
DelayBounded ==
  delay # 0 =>
    /\ (BackoffBase * 700) \div 1000 <= delay
    /\ delay <= (BackoffMax * 1300) \div 1000
=============================================================================
