------------------------------ MODULE Backoff ------------------------------
(* ExponentialBackoff of pulse-agent/src/main.rs, in milliseconds.         *)
EXTENDS Integers

CONSTANTS
  BackoffBase,     \* 1000 in ExponentialBackoff::new
  BackoffMax,      \* 60000 in ExponentialBackoff::new
  Jitters          \* the jitters drawn, permille

ASSUME BackoffAssumption ==
  /\ BackoffBase \in Nat
  /\ BackoffBase >= 1000
  /\ BackoffMax \in Nat
  /\ BackoffBase <= BackoffMax

MinDelay == 100                  \* floor of a delay, ms
JitterPermille == -300 .. 300    \* +-30 %, rand_simple is in 0.0 .. 1.0

ASSUME JittersAssumption == Jitters \subseteq JitterPermille

\* Variant: the delay doubles without a limit.
DoubleUncapped(d) == 2 * d

\* next_delay doubles the current delay up to the maximum ...
DoubleCapped(d) == IF 2 * d <= BackoffMax THEN 2 * d ELSE BackoffMax

\* Variant: twice the jitter, and no floor.
JitteredBoth(d, j) == (d * (1000 + 2 * j)) \div 1000

\* ... and returns the delay it had with a jitter of j permille, in whole
\* milliseconds and never below the floor.
Jittered(d, j) ==
  LET ms == (d * (1000 + j)) \div 1000
  IN  IF ms < MinDelay THEN MinDelay ELSE ms
=============================================================================
