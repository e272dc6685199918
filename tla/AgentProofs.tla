---------------------------- MODULE AgentProofs ----------------------------
(***************************************************************************)
(* Proofs about Agent, for every buffer and channel capacity and any       *)
(* number of sessions and snapshots: the delays of its reconnect loop,     *)
(* the holdback buffer and its Notify, and the state of its sessions.      *)
(***************************************************************************)
EXTENDS Agent, SequenceTheorems, TLAPS

-----------------------------------------------------------------------------
(* What a step does to the backoff.                                        *)

\* A session failed: the next delay is taken.
Failed ==
  \E j \in Jitters : delay' = Jittered(backoff, j) /\ backoff' = DoubleCapped(backoff)

\* A session ended cleanly.
EndedCleanly == backoff' = BackoffBase /\ delay' = 0

\* Failures take the next delay, clean ends start over, and no other step of
\* the agent touches the backoff.
LEMMA BackoffStep ==
  [Next]_vars => Failed \/ EndedCleanly \/ UNCHANGED <<backoff, delay>>
<1> SUFFICES ASSUME [Next]_vars
             PROVE  Failed \/ EndedCleanly \/ UNCHANGED <<backoff, delay>>
  BY Zenon
<1>1. CASE ConnectFails \/ OpenFails \/ SessionFails
  BY <1>1, Zenon DEF ConnectFails, OpenFails, SessionFails, Fail, Failed
<1>2. CASE SessionEnds \/ SessionCancelled
  BY <1>2, Zenon DEF SessionEnds, SessionCancelled, CleanEnd, EndedCleanly
<1>3. CASE Connect \/ StreamOpened \/ BackoffOver \/ Cancel \/ LoopCancelled
  BY <1>3, Zenon DEF Connect, StreamOpened, BackoffOver, Cancel, LoopCancelled
<1>4. CASE CollectorPush \/ CollectorNotify
  BY <1>4, Zenon DEF CollectorPush, CollectorNotify, loopVars
<1>5. ASSUME NEW s \in Sessions, Forwarder(s) PROVE UNCHANGED loopVars
  BY <1>5, Zenon DEF Forwarder, ForwarderProceeds, ForwarderRuns, ForwarderDrains,
     ForwarderSends, ForwarderSendFails, ForwarderAwaits, ForwarderReaped
<1>6. ASSUME NEW s \in Sessions, Senders(s) PROVE UNCHANGED loopVars
  BY <1>6, Zenon DEF Senders, HeartbeatSends, ProbeSpawned, ProbeReports, ProbeSendFails,
     SendControl
<1>7. ASSUME NEW s \in Sessions, Stream(s) PROVE UNCHANGED loopVars
  BY <1>7, Zenon DEF Stream, Transmit, Deliver, LinkBreaks, LinkEnds, RxDropped, WireLost
<1>8. CASE UNCHANGED vars
  BY <1>8, Zenon DEF vars, loopVars
<1>9. CASE UNCHANGED loopVars
  BY <1>9, Zenon DEF loopVars
<1> QED
  BY <1>1, <1>2, <1>3, <1>4, <1>5, <1>6, <1>7, <1>8, <1>9, Zenon DEF Next, Loop, Exited

\* Agent implements ReconnectBackoff.
THEOREM BackoffRefined == Spec => BackoffFollowed
<1>1. Init => RB!Init
  BY Zenon DEF Init, RB!Init
<1>2. [Next]_vars => [RB!Next]_(RB!vars)
  <2>1. Failed => RB!SessionFails
    BY Zenon DEF Failed, RB!SessionFails, Jittered, RB!Jittered, MinDelay, RB!MinDelay,
       DoubleCapped, RB!DoubleCapped
  <2>2. EndedCleanly => RB!SessionEndsCleanly
    BY Zenon DEF EndedCleanly, RB!SessionEndsCleanly
  <2> QED
    BY <2>1, <2>2, BackoffStep, Zenon DEF RB!Next, RB!vars
<1> QED
  BY <1>1, <1>2, PTL DEF Spec, BackoffFollowed, RB!Spec

-----------------------------------------------------------------------------
(* Arithmetic of the delays.                                               *)

\* A jittered delay is within 30 percent of the delay, rounded down; the
\* floor of 100 ms never applies to delays of a second or more.
LEMMA JitteredBounds ==
  ASSUME NEW d \in Nat, d >= 1000, NEW j \in JitterPermille
  PROVE  /\ Jittered(d, j) \in Nat
         /\ 1000 * Jittered(d, j) <= 1300 * d
         /\ 1000 * Jittered(d, j) > 700 * d - 1000
<1> DEFINE p == d * (1000 + j)
           ms == p \div 1000
<1>1. /\ j \in Int /\ -300 <= j /\ j <= 300
  BY DEF JitterPermille
<1>2. /\ p \in Int /\ 700 * d <= p /\ p <= 1300 * d
  <2>1. /\ 1000 + j \in Int /\ 1000 + j >= 700 /\ 1000 + j <= 1300
    BY <1>1
  <2> DEFINE k == 1000 + j
  <2> HIDE DEF k
  <2>2. ASSUME NEW a \in Nat, NEW k0 \in Int, k0 >= 700, k0 <= 1300
        PROVE  a * k0 \in Int /\ 700 * a <= a * k0 /\ a * k0 <= 1300 * a
    BY <2>2, SMT
  <2> QED
    BY <2>1, <2>2
<1> HIDE DEF p
<1>3. /\ ms \in Int /\ 1000 * ms <= p /\ p < 1000 * ms + 1000
  BY <1>2
<1> HIDE DEF ms
<1>4. Jittered(d, j) = IF ms < 100 THEN 100 ELSE ms
  BY DEF Jittered, MinDelay, ms, p
<1> QED
  BY <1>2, <1>3, <1>4

\* The jitter is monotone in the permille: the extremes bound every delay.
LEMMA JitteredMonotone ==
  ASSUME NEW c \in Nat, NEW d \in Nat, NEW i \in JitterPermille,
         NEW j \in JitterPermille, c <= d, i <= j
  PROVE  Jittered(c, i) <= Jittered(d, j)
<1> DEFINE p == c * (1000 + i)
           q == d * (1000 + j)
<1>1. /\ 1000 + i \in Nat /\ 1000 + j \in Nat /\ 1000 + i <= 1000 + j
  BY DEF JitterPermille
<1>2. p \in Int /\ q \in Int /\ p <= q
  <2>1. ASSUME NEW a \in Nat, NEW b \in Nat, NEW k \in Nat, NEW l \in Nat,
               a <= b, k <= l
        PROVE  a * k \in Int /\ b * l \in Int /\ a * k <= b * l
    BY <2>1, SMT
  <2> QED
    BY <1>1, <2>1
<1> HIDE DEF p, q
<1>3. p \div 1000 <= q \div 1000 /\ p \div 1000 \in Int /\ q \div 1000 \in Int
  BY <1>2
<1> QED
  BY <1>3 DEF Jittered, MinDelay, p, q

\* At the extremes the floor of 100 ms does not apply.
LEMMA JitteredExtremes ==
  ASSUME NEW d \in Nat, d >= 1000
  PROVE  /\ Jittered(d, -300) = (d * 700) \div 1000
         /\ Jittered(d, 300) = (d * 1300) \div 1000
<1>1. (d * 700) \div 1000 \in Int /\ (d * 700) \div 1000 >= 100
  OBVIOUS
<1>2. (d * 1300) \div 1000 \in Int /\ (d * 1300) \div 1000 >= 100
  OBVIOUS
<1>3. 1000 + (-300) = 700 /\ 1000 + 300 = 1300
  OBVIOUS
<1> QED
  BY <1>1, <1>2, <1>3 DEF Jittered, MinDelay

\* A draw from the current delay exceeds one from half of it.
LEMMA LongerDraw ==
  ASSUME NEW x \in Nat, NEW y \in Nat, NEW c \in Nat, c >= 1000,
         1000 * x <= 650 * c, 1000 * y > 700 * c - 1000
  PROVE  y > x
<1>1. 1000 * y > 1000 * x
  BY Z3
<1> QED
  BY <1>1, Z3

-----------------------------------------------------------------------------
(* The delays.                                                             *)

\* Below the cap the latest delay was drawn from half the current one.
DrawnFromHalf ==
  delay # 0 /\ backoff < BackoffMax => 1000 * delay <= 650 * backoff

BInv ==
  /\ backoff \in BackoffBase .. BackoffMax
  /\ delay \in Nat
  /\ DelayBounded
  /\ DrawnFromHalf

\* The backoff starts, and stays, in the invariant.
LEMMA Inductive ==
  /\ Init => BInv
  /\ BInv /\ [Next]_vars => BInv'
<1> USE BackoffAssumption DEF BInv, DrawnFromHalf
<1>1. ASSUME Init PROVE BInv
  BY <1>1 DEF Init, DelayBounded, RB!DelayBounded
<1>2. ASSUME BInv, Failed PROVE BInv'
  <2>1. PICK j \in Jitters : /\ delay' = Jittered(backoff, j)
                             /\ backoff' = DoubleCapped(backoff)
    BY <1>2 DEF Failed
  <2>2. /\ j \in JitterPermille /\ -300 \in JitterPermille /\ 300 \in JitterPermille
        /\ -300 <= j /\ j <= 300
    BY JittersAssumption DEF JitterPermille
  <2>3. backoff' \in BackoffBase .. BackoffMax /\ delay' \in Nat /\ DrawnFromHalf'
    BY <1>2, <2>1, <2>2, JitteredBounds DEF DoubleCapped
  <2>4. DelayBounded'
    <3>1. /\ Jittered(BackoffBase, -300) <= delay'
          /\ delay' <= Jittered(BackoffMax, 300)
      BY <1>2, <2>1, <2>2, JitteredMonotone
    <3> QED
      BY <3>1, JitteredExtremes DEF DelayBounded, RB!DelayBounded
  <2> HIDE BackoffAssumption DEF DrawnFromHalf
  <2> QED
    BY <2>3, <2>4, Zenon
<1>3. ASSUME BInv, EndedCleanly PROVE BInv'
  BY <1>3 DEF EndedCleanly, DelayBounded, RB!DelayBounded
<1>4. ASSUME BInv, UNCHANGED <<backoff, delay>> PROVE BInv'
  BY <1>4 DEF DelayBounded, RB!DelayBounded
<1> QED
  BY <1>1, <1>2, <1>3, <1>4, BackoffStep

\* A failure after a failure waits longer, until the cap is reached.
LEMMA GrowthStep ==
  BInv /\ [Next]_vars =>
    [delay' > delay \/ delay >= RB!CapFloor \/ delay' = 0]_(RB!vars)
<1> SUFFICES ASSUME BInv, Failed, delay < RB!CapFloor
             PROVE  delay' > delay
  <2>1. -300 \in JitterPermille
    BY DEF JitterPermille
  <2>2. RB!CapFloor \in Nat
    BY <2>1, JitteredBounds, BackoffAssumption DEF RB!CapFloor
  <2>3. BInv => delay \in Nat
    BY Zenon DEF BInv
  <2> QED
    BY <2>2, <2>3, BackoffStep DEF EndedCleanly, RB!vars
<1> USE BackoffAssumption DEF BInv
<1>1. PICK j \in Jitters : delay' = Jittered(backoff, j)
  BY DEF Failed
<1>2. /\ j \in JitterPermille /\ -300 \in JitterPermille /\ -300 <= j
  BY JittersAssumption DEF JitterPermille
<1>3. delay' \in Nat
  BY <1>1, <1>2, JitteredBounds
<1>4. CASE backoff < BackoffMax
  <2>1. ASSUME NEW x \in Nat, NEW y \in Nat, NEW c \in Nat,
               x = delay, y = delay', c = backoff
        PROVE  y > x
    <3>1. 1000 * y > 700 * c - 1000
      <4>1. c >= 1000 /\ y = Jittered(c, j)
        BY <1>1, <2>1
      <4> QED
        BY <1>2, <4>1, JitteredBounds
    <3>2. 1000 * x <= 650 * c
      BY <1>4, <2>1 DEF DrawnFromHalf
    <3>3. c >= 1000
      BY <2>1
    <3> QED
      BY <3>1, <3>2, <3>3, LongerDraw
  <2> QED
    BY <1>3, <2>1
<1>5. CASE backoff = BackoffMax
  <2>1. RB!CapFloor <= delay' /\ RB!CapFloor \in Nat
    BY <1>1, <1>2, <1>5, JitteredMonotone, JitteredBounds DEF RB!CapFloor
  <2> QED
    BY <1>3, <2>1
<1> QED
  BY <1>4, <1>5

\* Every sleep between sessions lies between the base less its jitter and the
\* maximum plus its jitter.
THEOREM DelayBoundedHolds == Spec => []DelayBounded
<1>1. BInv => DelayBounded
  BY Zenon DEF BInv
<1> QED
  BY <1>1, Inductive, PTL DEF Spec

\* Consecutive failures sleep strictly longer until the cap, for every draw of
\* the jitter.
THEOREM DelaysGrow == Spec => DelaysGrowToCap
<1>1. Spec => []BInv
  BY Inductive, PTL DEF Spec
<1> QED
  BY <1>1, GrowthStep, PTL DEF Spec, DelaysGrowToCap, RB!DelaysGrowToCap

-----------------------------------------------------------------------------
(* The holdback buffer and the Notify.                                     *)

\* A session that has not been opened has no forwarder, and only forwarders
\* of opened sessions wait on the Notify.
FutureSessions ==
  Running =>
    /\ \A s \in Sessions : s > sess => fwd[s] = "none"
    /\ \A i \in DOMAIN waiters : waiters[i] <= sess

-----------------------------------------------------------------------------
(* The operators.                                                          *)

\* push keeps a sequence of snapshots a sequence of snapshots.
LEMMA PushType ==
  ASSUME NEW S, NEW q \in Seq(S), NEW m \in S
  PROVE  Push(q, m) \in Seq(S)
<1>1. CASE Len(q) >= BufferCap
  <2>1. q # <<>>
    BY <1>1, BufferCapAssumption
  <2> QED
    BY <1>1, <2>1 DEF Push
<1>2. CASE ~(Len(q) >= BufferCap)
  BY <1>2 DEF Push
<1> QED
  BY <1>1, <1>2, Zenon

\* push keeps the newest run of the numbers collected, within the capacity.
LEMMA PushKeepsRun ==
  ASSUME NEW q \in Seq(Nat), NEW n \in Nat, Len(q) <= BufferCap,
         \A i \in DOMAIN q : q[i] = n - Len(q) + i
  PROVE  LET r == Push(q, n + 1)
         IN  /\ Len(r) <= BufferCap
             /\ \A i \in DOMAIN r : r[i] = (n + 1) - Len(r) + i
<1>1. CASE Len(q) >= BufferCap
  <2>1. q # <<>> /\ Len(q) = BufferCap
    BY <1>1, BufferCapAssumption
  <2> DEFINE t == Tail(q)
             r == Append(t, n + 1)
  <2>2. /\ t \in Seq(Nat)
        /\ Len(t) = Len(q) - 1
        /\ \A i \in 1 .. Len(t) : t[i] = q[i + 1]
    BY <2>1, HeadTailProperties, Zenon
  <2> HIDE DEF t
  <2>3. /\ r \in Seq(Nat)
        /\ Len(r) = Len(q)
        /\ \A i \in 1 .. Len(q) - 1 : r[i] = q[i + 1]
        /\ r[Len(q)] = n + 1
    BY <2>1, <2>2, AppendProperties
  <2> HIDE DEF r
  <2>4. DOMAIN r = 1 .. Len(q) /\ DOMAIN q = 1 .. Len(q) /\ Len(q) \in Nat
    BY <2>3, LenProperties, Zenon
  <2>5. \A j \in 1 .. Len(q) : q[j] = n - Len(q) + j
    BY <2>4, Zenon
  <2>6. ASSUME NEW i \in 1 .. Len(q)
        PROVE  r[i] = (n + 1) - Len(q) + i
    <3>1. CASE i = Len(q)
      BY <2>3, <2>4, <3>1
    <3>2. CASE i # Len(q)
      <4> DEFINE l == Len(q)
      <4>1. l \in Nat /\ i \in 1 .. l /\ i # l
        BY <2>4, <3>2, Zenon
      <4> HIDE DEF l
      <4>2. i \in 1 .. l - 1 /\ i + 1 \in 1 .. l
        BY <4>1
      <4>3. r[i] = q[i + 1] /\ q[i + 1] = n - Len(q) + (i + 1)
        BY <2>3, <2>5, <4>2, Zenon DEF l
      <4> QED
        BY <2>4, <4>3
    <3> QED
      BY <3>1, <3>2, Zenon
  <2>7. Push(q, n + 1) = r
    BY <1>1, Zenon DEF Push, r, t
  <2> QED
    BY <2>1, <2>3, <2>4, <2>6, <2>7, Zenon
<1>2. CASE ~(Len(q) >= BufferCap)
  BY <1>2, BufferCapAssumption DEF Push
<1> QED
  BY <1>1, <1>2, Zenon

\* next_delay keeps the delay between base and maximum.
LEMMA DoubleCappedType ==
  ASSUME NEW d \in BackoffBase .. BackoffMax
  PROVE  DoubleCapped(d) \in BackoffBase .. BackoffMax
BY BackoffAssumption DEF DoubleCapped

\* A jittered delay is a whole number of milliseconds.
LEMMA JitteredType ==
  ASSUME NEW d \in BackoffBase .. BackoffMax, NEW j \in Jitters
  PROVE  Jittered(d, j) \in Int
<1>1. d \in Int /\ j \in Int
  BY BackoffAssumption, JittersAssumption DEF JitterPermille
<1> DEFINE p == d * (1000 + j)
<1>2. p \in Int
  BY <1>1
<1> HIDE DEF p
<1>3. p \div 1000 \in Int
  BY <1>2
<1> QED
  BY <1>3 DEF Jittered, MinDelay, p

\* The old place of what is at i after the k-th element was removed.
Skip(i, k) == IF i < k THEN i ELSE i + 1

\* Removing an element of a sequence leaves the others, in order.
LEMMA LeaveQueueType ==
  ASSUME NEW S, NEW q \in Seq(S), NEW k \in DOMAIN q
  PROVE  /\ LeaveQueue(q, k) \in Seq(S)
         /\ \A i \in DOMAIN LeaveQueue(q, k) :
              /\ Skip(i, k) \in DOMAIN q /\ Skip(i, k) # k /\ i \in Nat
              /\ LeaveQueue(q, k)[i] = q[Skip(i, k)]
<1> DEFINE a == SubSeq(q, 1, k - 1)
           b == SubSeq(q, k + 1, Len(q))
<1>1. /\ k \in 1 .. Len(q)
      /\ Len(q) \in Nat
  BY LenProperties, Zenon
<1>2. /\ a \in Seq(S) /\ Len(a) = k - 1
      /\ \A i \in 1 .. k - 1 : a[i] = q[i]
  BY <1>1, SubSeqProperties
<1>3. /\ b \in Seq(S) /\ Len(b) = Len(q) - k
      /\ \A i \in 1 .. Len(q) - k : b[i] = q[k + i]
  BY <1>1, SubSeqProperties
<1> HIDE DEF a, b
<1>4. /\ a \o b \in Seq(S)
      /\ Len(a \o b) = Len(q) - 1
      /\ \A i \in 1 .. Len(q) - 1 :
           (a \o b)[i] = IF i <= k - 1 THEN a[i] ELSE b[i - (k - 1)]
  BY <1>1, <1>2, <1>3, ConcatProperties, SMTT(60)
<1>5. LeaveQueue(q, k) = a \o b
  BY Zenon DEF LeaveQueue, a, b
<1>6. ASSUME NEW i \in 1 .. Len(q) - 1
      PROVE  /\ Skip(i, k) \in 1 .. Len(q) /\ Skip(i, k) # k /\ i \in Nat
             /\ (a \o b)[i] = q[Skip(i, k)]
  <2>1. CASE i < k
    <3>1. i \in 1 .. k - 1 /\ i \in 1 .. Len(q) /\ i # k /\ i \in Nat /\ i <= k - 1
      BY <1>1, <2>1
    <3> QED
      BY <1>2, <1>4, <2>1, <3>1, Zenon DEF Skip
  <2>2. CASE ~(i < k)
    <3>1. /\ i - (k - 1) \in 1 .. Len(q) - k
          /\ i + 1 \in 1 .. Len(q) /\ i + 1 # k /\ i \in Nat
          /\ k + (i - (k - 1)) = i + 1
          /\ ~(i <= k - 1)
      BY <1>1, <2>2
    <3>2. (a \o b)[i] = b[i - (k - 1)] /\ b[i - (k - 1)] = q[k + (i - (k - 1))]
      BY <1>3, <1>4, <3>1, Zenon
    <3> QED
      BY <2>2, <3>1, <3>2, Zenon DEF Skip
  <2> QED
    BY <2>1, <2>2, Zenon
<1>7. DOMAIN q = 1 .. Len(q) /\ DOMAIN (a \o b) = 1 .. Len(q) - 1
  BY <1>4, LenProperties, Zenon
<1> QED
  BY <1>4, <1>5, <1>6, <1>7, Zenon
-----------------------------------------------------------------------------
(* Type correctness.                                                       *)

\* A notification wakes a waiter or stores the permit.
LEMMA NotifyOneType ==
  ASSUME waiters \in Seq(Sessions), permit \in BOOLEAN,
         NEW f \in [Sessions -> ForwarderStates], NotifyOne(waiters, f)
  PROVE  /\ permit' \in BOOLEAN
         /\ waiters' \in Seq(Sessions)
         /\ fwd' \in [Sessions -> ForwarderStates]
BY HeadTailProperties, Zenon DEF NotifyOne, ForwarderStates

\* Steps of run_agent_loop and of the collector keep the loop's state typed;
\* no other step touches it.
LEMMA LoopTypeStep ==
  ASSUME TypeOK, [Next]_vars
  PROVE  LoopTypeOK'
<1> USE DEF TypeOK, LoopTypeOK, loopVars
<1>1. CASE CollectorPush \/ CollectorNotify
  BY <1>1, Zenon DEF CollectorPush, CollectorNotify
<1>2. CASE Connect
  BY <1>2, AgentAssumption DEF Connect
<1>3. CASE ConnectFails \/ OpenFails \/ SessionFails
  <2>1. delay' \in Int
    BY <1>3, JitteredType, Zenon DEF ConnectFails, OpenFails, SessionFails, Fail
  <2> QED
    BY <1>3, <2>1, DoubleCappedType, Zenon DEF ConnectFails, OpenFails, SessionFails, Fail
<1>4. CASE SessionEnds \/ SessionCancelled
  BY <1>4, BackoffAssumption DEF SessionEnds, SessionCancelled, CleanEnd
<1>5. CASE StreamOpened \/ BackoffOver \/ Cancel \/ LoopCancelled
  BY <1>5, Zenon DEF StreamOpened, BackoffOver, Cancel, LoopCancelled
<1>6. ASSUME NEW s \in Sessions, Forwarder(s)
      PROVE  LoopTypeOK'
  BY <1>6, Zenon DEF Forwarder, ForwarderProceeds, ForwarderRuns, ForwarderDrains, ForwarderSends,
     ForwarderSendFails, ForwarderAwaits, ForwarderReaped
<1>7. ASSUME NEW s \in Sessions, Senders(s)
      PROVE  LoopTypeOK'
  BY <1>7, Zenon DEF Senders, HeartbeatSends, ProbeSpawned, ProbeReports, ProbeSendFails,
     SendControl
<1>8. ASSUME NEW s \in Sessions, Stream(s)
      PROVE  LoopTypeOK'
  BY <1>8, Zenon DEF Stream, Transmit, Deliver, LinkBreaks, LinkEnds, RxDropped, WireLost
<1>9. CASE UNCHANGED vars
  BY <1>9, Zenon DEF vars
<1> QED
  BY <1>1, <1>2, <1>3, <1>4, <1>5, <1>6, <1>7, <1>8, <1>9, Zenon DEF Next, Loop, Exited

\* The collector, a drain and the exit are the only steps that touch the
\* holdback buffer; they keep it typed and the newest run.
LEMMA BufStep ==
  ASSUME TypeOK, HoldbackIsNewestRun, [Next]_vars
  PROVE  BufTypeOK' /\ HoldbackIsNewestRun'
<1> USE DEF TypeOK, BufTypeOK, HoldbackIsNewestRun, bufVars
<1>1. CASE CollectorPush
  <2>1. buf \in Seq(Nat) /\ collected \in Nat /\ collected + 1 \in Snapshots
    BY <1>1, AgentAssumption DEF CollectorPush, Snapshots
  <2>2. buf' \in Seq(Snapshots)
    BY <1>1, <2>1, PushType, Zenon DEF CollectorPush
  <2>3. HoldbackIsNewestRun'
    BY <1>1, <2>1, PushKeepsRun, Zenon DEF CollectorPush
  <2> QED
    BY <1>1, <2>1, <2>2, <2>3 DEF CollectorPush, Snapshots
<1>2. CASE CollectorNotify
  BY <1>2, Zenon DEF CollectorNotify
<1>3. CASE LoopCancelled
  BY <1>3, BufferCapAssumption DEF LoopCancelled, EmptyBuffer
<1>4. CASE Loop /\ ~LoopCancelled
  BY <1>4, Zenon DEF Loop, Connect, ConnectFails, OpenFails, SessionFails, Fail, SessionEnds,
     SessionCancelled, CleanEnd, StreamOpened, BackoffOver, Cancel
<1>5. ASSUME NEW s \in Sessions, ForwarderDrains(s)
      PROVE  BufTypeOK' /\ HoldbackIsNewestRun'
  BY <1>5, BufferCapAssumption DEF ForwarderDrains, EmptyBuffer
<1>6. ASSUME NEW s \in Sessions, Forwarder(s), ~ForwarderDrains(s)
      PROVE  BufTypeOK' /\ HoldbackIsNewestRun'
  BY <1>6, Zenon DEF Forwarder, ForwarderProceeds, ForwarderRuns, ForwarderSends,
     ForwarderSendFails, ForwarderAwaits, ForwarderReaped
<1>7. ASSUME NEW s \in Sessions, Senders(s)
      PROVE  BufTypeOK' /\ HoldbackIsNewestRun'
  BY <1>7, Zenon DEF Senders, HeartbeatSends, ProbeSpawned, ProbeReports, ProbeSendFails,
     SendControl
<1>8. ASSUME NEW s \in Sessions, Stream(s)
      PROVE  BufTypeOK' /\ HoldbackIsNewestRun'
  BY <1>8, Zenon DEF Stream, Transmit, Deliver, LinkBreaks, LinkEnds, RxDropped, WireLost
<1>9. CASE UNCHANGED vars
  BY <1>9, Zenon DEF vars
<1> QED
  BY <1>1, <1>2, <1>3, <1>4, <1>5, <1>6, <1>7, <1>8, <1>9, Zenon DEF Next, Exited

\* Every step keeps the notifier and the tasks typed.
LEMMA TaskTypeStep ==
  ASSUME TypeOK, [Next]_vars
  PROVE  TaskTypeOK'
<1> USE DEF TypeOK, TaskTypeOK, notifyVars, taskVars
<1>1. CASE CollectorPush
  BY <1>1, Zenon DEF CollectorPush
<1>2. CASE CollectorNotify
  BY <1>2, NotifyOneType, Zenon DEF CollectorNotify
<1>3. CASE Connect
  BY <1>3, Zenon DEF Connect, ForwarderStates
<1>4. CASE ConnectFails \/ OpenFails \/ SessionFails
  BY <1>4, Zenon DEF ConnectFails, OpenFails, SessionFails, Fail
<1>5. CASE SessionEnds \/ SessionCancelled
  BY <1>5, Zenon DEF SessionEnds, SessionCancelled, CleanEnd
<1>6. CASE StreamOpened \/ BackoffOver \/ Cancel
  BY <1>6, Zenon DEF StreamOpened, BackoffOver, Cancel
<1>7. CASE LoopCancelled
  <2>1. permit' \in BOOLEAN /\ waiters' = <<>>
    BY <1>7, Zenon DEF LoopCancelled
  <2>2. fwd' \in [Sessions -> ForwarderStates]
    BY <1>7, Zenon DEF LoopCancelled, ForwarderStates
  <2>3. batch' \in [Sessions -> Seq(Snapshots)]
    BY <1>7 DEF LoopCancelled
  <2>4. probes' \in [Sessions -> 0 .. MaxProbes]
    BY <1>7, AgentAssumption DEF LoopCancelled
  <2> QED
    BY <1>7, <2>1, <2>2, <2>3, <2>4 DEF LoopCancelled
<1>8. ASSUME NEW s \in Sessions, Forwarder(s)
      PROVE  TaskTypeOK'
  <2>1. CASE ForwarderRuns(s)
    BY <2>1, Zenon DEF ForwarderRuns, ForwarderStates
  <2>2. CASE ForwarderDrains(s)
    <3>1. batch' \in [Sessions -> Seq(Snapshots)]
      BY <2>2, Zenon DEF ForwarderDrains, Drained, BufTypeOK
    <3> QED
      BY <2>2, <3>1, Zenon DEF ForwarderDrains, ForwarderStates
  <2>3. CASE ForwarderSends(s)
    <3>1. batch' \in [Sessions -> Seq(Snapshots)]
      BY <2>3, HeadTailProperties, Zenon DEF ForwarderSends
    <3> QED
      BY <2>3, <3>1, Zenon DEF ForwarderSends
  <2>4. CASE ForwarderSendFails(s)
    BY <2>4 DEF ForwarderSendFails, ForwarderStates
  <2>5. CASE ForwarderAwaits(s)
    <3>1. permit' \in BOOLEAN
      BY <2>5, Zenon DEF ForwarderAwaits
    <3>3. waiters' \in Seq(Sessions)
      <4>1. Append(waiters, s) \in Seq(Sessions)
        BY AppendProperties, Zenon
      <4> QED
        BY <2>5, <4>1, Zenon DEF ForwarderAwaits
    <3>2. fwd' \in [Sessions -> ForwarderStates]
      BY <2>5, Zenon DEF ForwarderAwaits, ForwarderStates
    <3> QED
      BY <2>5, <3>1, <3>2, <3>3, Zenon DEF ForwarderAwaits
  <2>6. CASE ForwarderReaped(s)
    <3>1. batch' \in [Sessions -> Seq(Snapshots)]
      BY <2>6 DEF ForwarderReaped
    <3>2. [fwd EXCEPT ![s] = "done"] \in [Sessions -> ForwarderStates]
      BY Zenon DEF ForwarderStates
    <3>3. /\ permit' \in BOOLEAN
          /\ waiters' \in Seq(Sessions)
          /\ fwd' \in [Sessions -> ForwarderStates]
      <4>1. CASE fwd[s] = "notified"
        BY <2>6, <3>2, <4>1, NotifyOneType, Zenon DEF ForwarderReaped
      <4>2. CASE fwd[s] = "wait"
        <5>1. PICK i \in DOMAIN waiters : waiters' = LeaveQueue(waiters, i)
          BY <2>6, <4>2, Zenon DEF ForwarderReaped
        <5>2. waiters' \in Seq(Sessions)
          BY <5>1, LeaveQueueType, Zenon
        <5> QED
          BY <2>6, <3>2, <4>2, <5>2, Zenon DEF ForwarderReaped
      <4>3. CASE fwd[s] \in {"spawned", "send"}
        BY <2>6, <3>2, <4>3, Zenon DEF ForwarderReaped
      <4> QED
        BY <2>6, <4>1, <4>2, <4>3, Zenon DEF ForwarderReaped
    <3> QED
      BY <2>6, <3>1, <3>3, Zenon DEF ForwarderReaped
  <2> QED
    BY <1>8, <2>1, <2>2, <2>3, <2>4, <2>5, <2>6, Zenon DEF Forwarder, ForwarderProceeds
<1>9. ASSUME NEW s \in Sessions, Senders(s)
      PROVE  TaskTypeOK'
  <2>1. probes' \in [Sessions -> 0 .. MaxProbes]
    BY <1>9, AgentAssumption DEF Senders, HeartbeatSends, ProbeSpawned,
       ProbeReports, ProbeSendFails
  <2> QED
    BY <1>9, <2>1, Zenon DEF Senders, HeartbeatSends, ProbeSpawned, ProbeReports,
       ProbeSendFails, SendControl
<1>10. ASSUME NEW s \in Sessions, Stream(s)
       PROVE  TaskTypeOK'
  BY <1>10, Zenon DEF Stream, Transmit, Deliver, LinkBreaks, LinkEnds, RxDropped, WireLost
<1>11. CASE UNCHANGED vars
  BY <1>11, Zenon DEF vars
<1> QED
  BY <1>1, <1>2, <1>3, <1>4, <1>5, <1>6, <1>7, <1>8, <1>9, <1>10, <1>11, Zenon
     DEF Next, Loop, Exited

\* Every step keeps the channels and the streams typed.
LEMMA NetTypeStep ==
  ASSUME TypeOK, [Next]_vars
  PROVE  NetTypeOK'
<1> USE DEF TypeOK, NetTypeOK, netVars
<1>1. CASE CollectorPush \/ CollectorNotify
  BY <1>1, Zenon DEF CollectorPush, CollectorNotify
<1>2. CASE Connect
  BY <1>2, Zenon DEF Connect
<1>3. CASE ConnectFails \/ OpenFails \/ SessionFails
  BY <1>3, Zenon DEF ConnectFails, OpenFails, SessionFails
<1>4. CASE SessionEnds \/ SessionCancelled
  BY <1>4, Zenon DEF SessionEnds, SessionCancelled, CleanEnd
<1>5. CASE StreamOpened \/ BackoffOver \/ Cancel
  BY <1>5, Zenon DEF StreamOpened, BackoffOver, Cancel
<1>6. CASE LoopCancelled
  <2>1. chan' \in [Sessions -> Seq(Snapshots \cup {Control})]
    BY <1>6 DEF LoopCancelled
  <2>2. /\ rxOpen' \in [Sessions -> BOOLEAN]
        /\ link' \in [Sessions -> {"none", "up", "ended", "broken"}]
    BY <1>6, Zenon DEF LoopCancelled
  <2> QED
    BY <1>6, <2>1, <2>2, Zenon DEF LoopCancelled
<1>7. ASSUME NEW s \in Sessions, Forwarder(s)
      PROVE  NetTypeOK'
  <2>1. CASE ForwarderSends(s)
    <3>1. Head(batch[s]) \in Snapshots
      BY <2>1, HeadTailProperties, Zenon DEF ForwarderSends, TaskTypeOK
    <3>2. chan' \in [Sessions -> Seq(Snapshots \cup {Control})]
      BY <2>1, <3>1 DEF ForwarderSends
    <3> QED
      BY <2>1, <3>2, Zenon DEF ForwarderSends
  <2> QED
    BY <1>7, <2>1, Zenon DEF Forwarder, ForwarderProceeds, ForwarderRuns, ForwarderDrains,
       ForwarderSendFails, ForwarderAwaits, ForwarderReaped
<1>8. ASSUME NEW s \in Sessions, Senders(s)
      PROVE  NetTypeOK'
  <2>1. CASE SendControl(s)
    <3>1. chan' \in [Sessions -> Seq(Snapshots \cup {Control})]
      BY <2>1 DEF SendControl
    <3> QED
      BY <2>1, <3>1, Zenon DEF SendControl
  <2> QED
    BY <1>8, <2>1, Zenon DEF Senders, HeartbeatSends, ProbeSpawned, ProbeReports,
       ProbeSendFails
<1>9. ASSUME NEW s \in Sessions, Stream(s)
      PROVE  NetTypeOK'
  <2>1. CASE Transmit(s)
    <3>1. /\ Head(chan[s]) \in Snapshots \cup {Control}
          /\ Tail(chan[s]) \in Seq(Snapshots \cup {Control})
      BY <2>1, HeadTailProperties, Zenon DEF Transmit
    <3>2. /\ chan' \in [Sessions -> Seq(Snapshots \cup {Control})]
          /\ wire' \in [Sessions -> Seq(Snapshots \cup {Control})]
      BY <2>1, <3>1 DEF Transmit
    <3> QED
      BY <2>1, <3>2, Zenon DEF Transmit
  <2>2. CASE Deliver(s)
    <3>1. /\ Head(wire[s]) \in Snapshots \cup {Control}
          /\ Tail(wire[s]) \in Seq(Snapshots \cup {Control})
      BY <2>2, HeadTailProperties, Zenon DEF Deliver
    <3>2. /\ wire' \in [Sessions -> Seq(Snapshots \cup {Control})]
          /\ recv' \in [Sessions -> Seq(Snapshots)]
      BY <2>2, <3>1 DEF Deliver
    <3> QED
      BY <2>2, <3>2, Zenon DEF Deliver
  <2>3. CASE LinkBreaks(s) \/ LinkEnds(s)
    BY <2>3, Zenon DEF LinkBreaks, LinkEnds
  <2>4. CASE RxDropped(s)
    BY <2>4 DEF RxDropped
  <2>5. CASE WireLost(s)
    BY <2>5 DEF WireLost
  <2> QED
    BY <1>9, <2>1, <2>2, <2>3, <2>4, <2>5, Zenon DEF Stream
<1>10. CASE UNCHANGED vars
  BY <1>10, Zenon DEF vars
<1> QED
  BY <1>1, <1>2, <1>3, <1>4, <1>5, <1>6, <1>7, <1>8, <1>9, <1>10, Zenon
     DEF Next, Loop, Exited

-----------------------------------------------------------------------------
(* No lost wakeup.                                                         *)

\* Nothing restarts an agent that has exited.
LEMMA ExitIsFinal ==
  ASSUME phase = "exited", [Next]_vars
  PROVE  phase' = "exited"
<1> USE DEF Running, loopVars
<1>1. ~CollectorPush /\ ~CollectorNotify
  BY Zenon DEF CollectorPush, CollectorNotify
<1>2. ~Loop
  BY Zenon DEF Loop, Connect, ConnectFails, OpenFails, SessionFails, SessionEnds,
     SessionCancelled, StreamOpened, BackoffOver, Cancel, LoopCancelled
<1>3. ASSUME NEW s \in Sessions, Forwarder(s) \/ Senders(s) \/ Stream(s)
      PROVE  phase' = phase
  BY <1>3, Zenon DEF Forwarder, ForwarderProceeds, ForwarderRuns, ForwarderDrains, ForwarderSends,
     ForwarderSendFails, ForwarderAwaits, ForwarderReaped, Senders, HeartbeatSends,
     ProbeSpawned, ProbeReports, ProbeSendFails, SendControl, Stream, Transmit,
     Deliver, LinkBreaks, LinkEnds, RxDropped, WireLost
<1> QED
  BY <1>1, <1>2, <1>3, Zenon DEF Next, Exited, vars

\* Forwarders and waiters belong to opened sessions.
LEMMA FutureSessionsStep ==
  ASSUME TypeOK, FutureSessions, [Next]_vars
  PROVE  FutureSessions'
<1> SUFFICES ASSUME Running'
             PROVE  /\ \A s \in Sessions : s > sess' => fwd'[s] = "none"
                    /\ \A i \in DOMAIN waiters' : waiters'[i] <= sess'
  BY Zenon DEF FutureSessions
<1> USE DEF TypeOK, LoopTypeOK, TaskTypeOK, loopVars, notifyVars, taskVars
<1>0. Running /\ sess \in Int /\ Sessions \subseteq Int
  BY ExitIsFinal, AgentAssumption DEF Running, Sessions
<1>a. /\ \A s \in Sessions : s > sess => fwd[s] = "none"
      /\ \A i \in DOMAIN waiters : waiters[i] <= sess
  BY <1>0, Zenon DEF FutureSessions
<1>b. ASSUME NEW f \in [Sessions -> ForwarderStates], NotifyOne(waiters, f),
             sess' = sess, \A s \in Sessions : s > sess => f[s] = "none"
      PROVE  /\ \A s \in Sessions : s > sess' => fwd'[s] = "none"
             /\ \A i \in DOMAIN waiters' : waiters'[i] <= sess'
  <2>1. CASE waiters = <<>>
    BY <1>a, <1>b, <2>1, Zenon DEF NotifyOne
  <2>2. CASE waiters # <<>>
    <3>1. /\ Tail(waiters) \in Seq(Sessions)
          /\ Len(Tail(waiters)) = Len(waiters) - 1
          /\ \A i \in 1 .. Len(Tail(waiters)) : Tail(waiters)[i] = waiters[i + 1]
      BY <2>2, HeadTailProperties, Zenon
    <3>2. Head(waiters) = waiters[1] /\ 1 \in DOMAIN waiters
      BY <2>2
    <3>3. Head(waiters) <= sess /\ Head(waiters) \in Sessions
      BY <1>a, <3>2, <2>2, HeadTailProperties, Zenon
    <3>4. \A s \in Sessions : s > sess' => fwd'[s] = "none"
      BY <1>0, <1>b, <2>2, <3>3 DEF NotifyOne
    <3>5. ASSUME NEW i \in DOMAIN Tail(waiters)
          PROVE  Tail(waiters)[i] <= sess
      <4>1. i \in 1 .. Len(Tail(waiters)) /\ i + 1 \in DOMAIN waiters
        BY <3>1, SMTT(60)
      <4> QED
        BY <1>a, <3>1, <4>1, Zenon
    <3> QED
      BY <1>b, <2>2, <3>4, <3>5, Zenon DEF NotifyOne
  <2> QED
    BY <2>1, <2>2, Zenon
<1>1. CASE CollectorPush
  BY <1>a, <1>1, Zenon DEF CollectorPush
<1>2. CASE CollectorNotify
  BY <1>a, <1>b, <1>2, Zenon DEF CollectorNotify
<1>3. CASE Connect
  <2>1. \A s \in Sessions : s > sess' => fwd'[s] = "none"
    BY <1>0, <1>a, <1>3 DEF Connect
  <2>2. \A i \in DOMAIN waiters : waiters[i] \in Int
    BY <1>0
  <2> QED
    BY <1>0, <1>a, <1>3, <2>1, <2>2 DEF Connect
<1>4. CASE Loop /\ ~Connect /\ ~LoopCancelled
  BY <1>a, <1>4, Zenon DEF Loop, ConnectFails, OpenFails, SessionFails, Fail, SessionEnds,
     SessionCancelled, CleanEnd, StreamOpened, BackoffOver, Cancel
<1>5. CASE LoopCancelled
  BY <1>5, Zenon DEF LoopCancelled, Running
<1>6. ASSUME NEW s \in Sessions, Forwarder(s)
      PROVE  /\ \A t \in Sessions : t > sess' => fwd'[t] = "none"
             /\ \A i \in DOMAIN waiters' : waiters'[i] <= sess'
  <2>0. sess' = sess
    BY <1>6, Zenon DEF Forwarder, ForwarderProceeds, ForwarderRuns, ForwarderDrains, ForwarderSends,
       ForwarderSendFails, ForwarderAwaits, ForwarderReaped
  <2>1. CASE ForwarderRuns(s) \/ ForwarderDrains(s) \/ ForwarderSends(s)
             \/ ForwarderSendFails(s)
    BY <1>a, <2>0, <2>1, Zenon DEF ForwarderRuns, ForwarderDrains, ForwarderSends,
       ForwarderSendFails
  <2>2. CASE ForwarderAwaits(s)
    <3>1. s <= sess
      BY <1>0, <1>a, <2>2 DEF ForwarderAwaits
    <3>2. \A t \in Sessions : t > sess' => fwd'[t] = "none"
      BY <1>a, <2>0, <2>2, Zenon DEF ForwarderAwaits
    <3>3. \A i \in DOMAIN Append(waiters, s) : Append(waiters, s)[i] <= sess
      BY <1>a, <3>1
    <3> QED
      BY <1>a, <2>0, <2>2, <3>2, <3>3, Zenon DEF ForwarderAwaits
  <2>3. CASE ForwarderReaped(s)
    <3> DEFINE f == [fwd EXCEPT ![s] = "done"]
    <3>1. f \in [Sessions -> ForwarderStates] /\ \A t \in Sessions : t > sess => f[t] = "none"
      BY <1>a, <2>3, Zenon DEF ForwarderReaped, ForwarderStates
    <3>2. CASE fwd[s] = "notified"
      BY <1>b, <2>0, <2>3, <3>1, <3>2, Zenon DEF ForwarderReaped
    <3>3. CASE fwd[s] = "wait"
      <4>1. PICK i \in DOMAIN waiters : waiters' = LeaveQueue(waiters, i)
        BY <2>3, <3>3, Zenon DEF ForwarderReaped
      <4>2. \A j \in DOMAIN waiters' : waiters'[j] <= sess
        BY <1>a, <4>1, LeaveQueueType
      <4> QED
        BY <2>0, <2>3, <3>1, <3>3, <4>2 DEF ForwarderReaped
    <3>4. CASE fwd[s] \in {"spawned", "send"}
      BY <1>a, <2>0, <2>3, <3>1, <3>4, Zenon DEF ForwarderReaped
    <3> QED
      BY <2>3, <3>2, <3>3, <3>4, Zenon DEF ForwarderReaped
  <2> QED
    BY <1>6, <2>1, <2>2, <2>3, Zenon DEF Forwarder, ForwarderProceeds
<1>7. ASSUME NEW s \in Sessions, Senders(s) \/ Stream(s)
      PROVE  UNCHANGED <<sess, fwd, waiters>>
  BY <1>7, Zenon DEF Senders, HeartbeatSends, ProbeSpawned, ProbeReports, ProbeSendFails,
     SendControl, Stream, Transmit, Deliver, LinkBreaks, LinkEnds, RxDropped, WireLost
<1>8. CASE UNCHANGED vars
  BY <1>a, <1>8, Zenon DEF vars
<1> QED
  BY <1>a, <1>1, <1>2, <1>3, <1>4, <1>5, <1>6, <1>7, <1>8, Zenon DEF Next, Exited

\* Whoever owes the buffer a drain keeps owing it until the buffer is empty.
LEMMA NoLostWakeupStep ==
  ASSUME TypeOK, FutureSessions, NoLostWakeup, [Next]_vars
  PROVE  NoLostWakeup'
<1> USE DEF TypeOK, LoopTypeOK, TaskTypeOK, NoLostWakeup, loopVars, bufVars,
        notifyVars, taskVars
<1>a. ASSUME NEW f \in [Sessions -> ForwarderStates], NotifyOne(waiters, f)
      PROVE  permit' \/ \E s \in Sessions : fwd'[s] \in {"notified", "drain"}
  <2>1. CASE waiters = <<>>
    BY <1>a, <2>1, Zenon DEF NotifyOne
  <2>2. CASE waiters # <<>>
    <3>1. Head(waiters) \in Sessions
      BY <2>2, HeadTailProperties, Zenon
    <3>2. fwd'[Head(waiters)] = "notified"
      BY <1>a, <2>2, <3>1, Zenon DEF NotifyOne
    <3> QED
      BY <3>1, <3>2, Zenon
  <2> QED
    BY <2>1, <2>2, Zenon
<1>1. CASE CollectorPush
  BY <1>1, Zenon DEF CollectorPush
<1>2. CASE CollectorNotify
  BY <1>a, <1>2, Zenon DEF CollectorNotify
<1>3. CASE Connect
  <2>1. fwd[sess + 1] = "none"
    BY <1>3, AgentAssumption DEF Connect, FutureSessions, Running, Sessions
  <2> QED
    BY <1>3, <2>1, Zenon DEF Connect
<1>4. CASE Loop /\ ~Connect /\ ~LoopCancelled
  BY <1>4 DEF Loop, ConnectFails, OpenFails, SessionFails, Fail, SessionEnds,
     SessionCancelled, CleanEnd, StreamOpened, BackoffOver, Cancel
<1>5. CASE LoopCancelled
  BY <1>5, Zenon DEF LoopCancelled, EmptyBuffer
<1>6. ASSUME NEW s \in Sessions, Forwarder(s)
      PROVE  NoLostWakeup'
  <2>1. CASE ForwarderRuns(s)
    BY <2>1, Zenon DEF ForwarderRuns
  <2>2. CASE ForwarderDrains(s)
    BY <2>2, Zenon DEF ForwarderDrains, EmptyBuffer
  <2>3. CASE ForwarderSends(s) \/ ForwarderSendFails(s)
    BY <2>3, Zenon DEF ForwarderSends, ForwarderSendFails
  <2>4. CASE ForwarderAwaits(s)
    BY <2>4, Zenon DEF ForwarderAwaits
  <2>5. CASE ForwarderReaped(s)
    <3>1. CASE fwd[s] = "notified"
      <4>1. [fwd EXCEPT ![s] = "done"] \in [Sessions -> ForwarderStates]
        BY Zenon DEF ForwarderStates
      <4> QED
        BY <1>a, <2>5, <3>1, <4>1, Zenon DEF ForwarderReaped
    <3>2. CASE fwd[s] \in {"spawned", "send", "wait"}
      <4>1. /\ fwd' = [fwd EXCEPT ![s] = "done"]
            /\ UNCHANGED <<permit, buf, collector>>
        BY <2>5, <3>2, Zenon DEF ForwarderReaped
      <4> QED
        BY <3>2, <4>1, Zenon
    <3> QED
      BY <2>5, <3>1, <3>2, Zenon DEF ForwarderReaped
  <2> QED
    BY <1>6, <2>1, <2>2, <2>3, <2>4, <2>5, Zenon DEF Forwarder, ForwarderProceeds
<1>7. ASSUME NEW s \in Sessions, Senders(s) \/ Stream(s)
      PROVE  UNCHANGED <<buf, collector, permit, fwd>>
  BY <1>7, Zenon DEF Senders, HeartbeatSends, ProbeSpawned, ProbeReports, ProbeSendFails,
     SendControl, Stream, Transmit, Deliver, LinkBreaks, LinkEnds, RxDropped, WireLost
<1>8. CASE UNCHANGED vars
  BY <1>8, Zenon DEF vars
<1> QED
  BY <1>1, <1>2, <1>3, <1>4, <1>5, <1>6, <1>7, <1>8, Zenon DEF Next, Exited

-----------------------------------------------------------------------------
(* The theorems.                                                           *)

\* The inductive invariant: the three properties and FutureSessions, without
\* which a new session could overwrite the forwarder that owes a drain.
IInv == TypeOK /\ HoldbackIsNewestRun /\ NoLostWakeup /\ FutureSessions

\* The agent starts in the invariant: nothing collected, no session.
LEMMA InitIInv == Init => IInv
<1> SUFFICES ASSUME Init PROVE IInv
  BY Zenon
<1> USE DEF Init, EmptyBuffer
<1>1. LoopTypeOK
  <2>1. sess \in 0 .. MaxSessions /\ backoff \in BackoffBase .. BackoffMax /\ delay \in Int
    BY AgentAssumption, BackoffAssumption
  <2> QED
    BY <2>1, Zenon DEF LoopTypeOK
<1>2. BufTypeOK
  BY AgentAssumption DEF BufTypeOK
<1>3. TaskTypeOK
  <2>1. probes \in [Sessions -> 0 .. MaxProbes]
    BY AgentAssumption
  <2>2. waiters \in Seq(Sessions) /\ batch \in [Sessions -> Seq(Snapshots)]
    OBVIOUS
  <2> QED
    BY <2>1, <2>2, Zenon DEF TaskTypeOK, ForwarderStates
<1>4. NetTypeOK
  BY DEF NetTypeOK
<1>5. HoldbackIsNewestRun /\ NoLostWakeup
  BY BufferCapAssumption DEF HoldbackIsNewestRun, NoLostWakeup
<1>6. FutureSessions
  BY DEF FutureSessions
<1> QED
  BY <1>1, <1>2, <1>3, <1>4, <1>5, <1>6, Zenon DEF IInv, TypeOK

\* Every step of the agent keeps the invariant.
LEMMA NextIInv == IInv /\ [Next]_vars => IInv'
BY LoopTypeStep, BufStep, TaskTypeStep, NetTypeStep, FutureSessionsStep,
   NoLostWakeupStep, Zenon DEF IInv, TypeOK

\* The invariant holds in every state of every behaviour of the agent.
THEOREM Invariance == Spec => []IInv
BY InitIInv, NextIInv, PTL DEF Spec

\* The agent's state is always well typed.
THEOREM TypeCorrect == Spec => []TypeOK
<1>1. IInv => TypeOK
  BY Zenon DEF IInv
<1> QED
  BY <1>1, Invariance, PTL

\* The collector's push-then-notify and the forwarders' drain-then-await never
\* leave a snapshot in the holdback buffer that nobody is going to drain, with
\* any number of forwarders of dead sessions around.
THEOREM NoLostWakeupHolds == Spec => []NoLostWakeup
<1>1. IInv => NoLostWakeup
  BY Zenon DEF IInv
<1> QED
  BY <1>1, Invariance, PTL

\* The holdback buffer always holds the newest snapshots, without gaps, in
\* order and within its capacity.
THEOREM HoldbackIsNewestRunHolds == Spec => []HoldbackIsNewestRun
<1>1. IInv => HoldbackIsNewestRun
  BY Zenon DEF IInv
<1> QED
  BY <1>1, Invariance, PTL

-----------------------------------------------------------------------------
(* The forwarders.                                                         *)

\* A forwarder that is queued on the Notify is queued once, and waits.
WaitersWait ==
  /\ \A i \in DOMAIN waiters : fwd[waiters[i]] = "wait"
  /\ \A i, j \in DOMAIN waiters : i # j => waiters[i] # waiters[j]

\* A forwarder has messages in hand only while it sends.
BatchIsSent == \A s \in Sessions : batch[s] # <<>> => fwd[s] = "send"

\* The stream that is up is the latest one, and its receiver exists; sessions
\* to come have nothing.
LatestIsUp ==
  /\ phase \in {"opening", "streaming"} => sess \in Sessions
  /\ \A s \in Sessions :
       /\ link[s] = "up" => /\ s = sess
                            /\ phase \in {"opening", "streaming"}
                            /\ rxOpen[s] /\ ~aborted[s]
       /\ rxOpen[s] \/ aborted[s] => s <= sess
       /\ s > sess => wire[s] = <<>> /\ chan[s] = <<>> /\ batch[s] = <<>>

\* A notification takes the first waiter off the queue and out of its wait.
LEMMA NotifyStep ==
  ASSUME waiters \in Seq(Sessions), NEW f \in [Sessions -> ForwarderStates],
         \A i \in DOMAIN waiters : f[waiters[i]] = "wait",
         \A i, j \in DOMAIN waiters : i # j => waiters[i] # waiters[j],
         NotifyOne(waiters, f)
  PROVE  WaitersWait' /\ \A s \in Sessions : fwd'[s] # f[s] => f[s] = "wait"
<1>1. CASE waiters = <<>>
  BY <1>1, Zenon DEF NotifyOne, WaitersWait
<1>2. CASE waiters # <<>>
  <2> DEFINE t == Tail(waiters)
  <2>1. /\ DOMAIN waiters = 1 .. Len(waiters) /\ Len(waiters) \in Nat /\ Len(waiters) > 0
        /\ DOMAIN t = 1 .. Len(waiters) - 1
        /\ \A i \in DOMAIN t : t[i] = waiters[i + 1]
        /\ Head(waiters) = waiters[1] /\ 1 \in DOMAIN waiters
        /\ Head(waiters) \in Sessions
    BY <1>2, HeadTailProperties, LenProperties
  <2>2. waiters' = t /\ fwd' = [f EXCEPT ![Head(waiters)] = "notified"]
    BY <1>2, Zenon DEF NotifyOne
  <2> HIDE DEF t
  <2>3. \A i \in DOMAIN t : i + 1 \in DOMAIN waiters /\ i + 1 # 1 /\ i \in Nat
    BY <2>1
  <2>4. \A i \in DOMAIN t : t[i] \in Sessions /\ t[i] # Head(waiters) /\ f[t[i]] = "wait"
    BY <2>1, <2>3
  <2>5. \A i, j \in DOMAIN t : i # j => t[i] # t[j]
    BY <2>1, <2>3
  <2> QED
    <3>1. ASSUME NEW i \in DOMAIN t PROVE fwd'[t[i]] = "wait"
      BY <2>2, <2>4, Zenon
    <3>2. WaitersWait'
      BY <2>2, <2>5, <3>1, Zenon DEF WaitersWait
    <3>3. ASSUME NEW s \in Sessions, fwd'[s] # f[s] PROVE f[s] = "wait"
      <4>1. CASE s = Head(waiters)
        BY <2>1, <4>1, Zenon
      <4>2. CASE s # Head(waiters)
        BY <2>2, <3>3, <4>2, Zenon
      <4> QED
        BY <4>1, <4>2, Zenon
    <3> QED
      BY <3>2, <3>3, Zenon
<1> QED
  BY <1>1, <1>2, Zenon

\* Steps that touch neither the queue nor a forwarder that waits.
LEMMA WaitersStay ==
  ASSUME TypeOK, WaitersWait, waiters' = waiters,
         \A s \in Sessions : fwd[s] = "wait" => fwd'[s] = "wait"
  PROVE  WaitersWait'
BY DEF WaitersWait, TypeOK, TaskTypeOK

\* Every step keeps the queue of the Notify in step with the forwarders.
LEMMA WaitersStep ==
  ASSUME IInv, WaitersWait, [Next]_vars
  PROVE  WaitersWait'
<1> TypeOK
  BY Zenon DEF IInv
<1>0. /\ waiters \in Seq(Sessions) /\ fwd \in [Sessions -> ForwarderStates]
      /\ sess \in Int /\ \A s \in Sessions : s \in Int
  BY DEF TypeOK, TaskTypeOK, LoopTypeOK, Sessions
<1>1. CASE CollectorNotify
  BY <1>0, <1>1, NotifyStep, Zenon DEF CollectorNotify, WaitersWait
<1>2. CASE Connect
  <2>1. sess + 1 \in Sessions /\ fwd[sess + 1] = "none"
    BY <1>0, <1>2, AgentAssumption
       DEF Connect, IInv, TypeOK, LoopTypeOK, Sessions, FutureSessions, Running
  <2> QED
    BY <1>0, <1>2, <2>1, WaitersStay, Zenon DEF Connect, notifyVars
<1>3. CASE LoopCancelled
  BY <1>3 DEF LoopCancelled, WaitersWait
<1>4. CASE UNCHANGED <<waiters, fwd>>
  BY <1>4, WaitersStay, Zenon
<1>5. ASSUME NEW s \in Sessions, Forwarder(s)
      PROVE  WaitersWait'
  <2>1. CASE \/ ForwarderRuns(s) \/ ForwarderDrains(s) \/ ForwarderSends(s)
             \/ ForwarderSendFails(s)
    BY <1>0, <2>1, WaitersStay, Zenon DEF ForwarderRuns, ForwarderDrains, ForwarderSends,
       ForwarderSendFails, notifyVars
  <2>2. CASE ForwarderAwaits(s)
    <3>1. CASE permit
      BY <1>0, <2>2, <3>1, WaitersStay, Zenon DEF ForwarderAwaits
    <3>2. CASE ~permit
      <4>1. fwd[s] = "send" /\ fwd' = [fwd EXCEPT ![s] = "wait"]
            /\ waiters' = Append(waiters, s)
        BY <2>2, <3>2, Zenon DEF ForwarderAwaits
      <4>2. /\ DOMAIN waiters = 1 .. Len(waiters) /\ Len(waiters) \in Nat
            /\ DOMAIN waiters' = 1 .. Len(waiters) + 1
            /\ \A i \in DOMAIN waiters : waiters'[i] = waiters[i]
            /\ waiters'[Len(waiters) + 1] = s
            /\ \A i \in DOMAIN waiters : waiters[i] \in Sessions
        BY <1>0, <4>1
      <4>3. DOMAIN waiters' = DOMAIN waiters \cup {Len(waiters) + 1}
        BY <4>2
      <4>4. \A i \in DOMAIN waiters : waiters[i] # s
        BY <4>1, Zenon DEF WaitersWait
      <4>5. \A i \in DOMAIN waiters' : fwd'[waiters'[i]] = "wait"
        BY <1>0, <4>1, <4>2, <4>3 DEF WaitersWait
      <4>6. \A i, j \in DOMAIN waiters' : i # j => waiters'[i] # waiters'[j]
        BY <4>2, <4>3, <4>4, Zenon DEF WaitersWait
      <4> QED
        BY <4>5, <4>6, Zenon DEF WaitersWait
    <3> QED
      BY <3>1, <3>2, Zenon
  <2>3. CASE ForwarderReaped(s)
    <3>1. CASE fwd[s] = "notified"
      <4> DEFINE f == [fwd EXCEPT ![s] = "done"]
      <4>1. f \in [Sessions -> ForwarderStates] /\ NotifyOne(waiters, f)
        BY <1>0, <2>3, <3>1, Zenon DEF ForwarderReaped, ForwarderStates
      <4>2. \A i \in DOMAIN waiters : waiters[i] \in Sessions /\ f[waiters[i]] = "wait"
        BY <1>0, <3>1 DEF WaitersWait
      <4> HIDE DEF f
      <4> QED
        BY <1>0, <4>1, <4>2, NotifyStep, Zenon DEF WaitersWait
    <3>2. CASE fwd[s] = "wait"
      <4>1. PICK k \in DOMAIN waiters :
              waiters[k] = s /\ waiters' = LeaveQueue(waiters, k)
        BY <2>3, <3>2, Zenon DEF ForwarderReaped
      <4>2. fwd' = [fwd EXCEPT ![s] = "done"]
        BY <2>3, <3>2, Zenon DEF ForwarderReaped
      <4>3. \A i \in DOMAIN waiters' :
              /\ Skip(i, k) \in DOMAIN waiters /\ Skip(i, k) # k /\ i \in Nat
              /\ waiters'[i] = waiters[Skip(i, k)]
        BY <1>0, <4>1, LeaveQueueType
      <4>4. \A i \in DOMAIN waiters' :
              waiters'[i] # s /\ waiters'[i] \in Sessions /\ fwd[waiters'[i]] = "wait"
        BY <1>0, <4>1, <4>3 DEF WaitersWait
      <4>5. \A i, j \in DOMAIN waiters' : i # j => waiters'[i] # waiters'[j]
        <5> SUFFICES ASSUME NEW i \in DOMAIN waiters', NEW j \in DOMAIN waiters', i # j
                     PROVE  waiters'[i] # waiters'[j]
          BY Zenon
        <5>1. i \in Nat /\ j \in Nat /\ k \in Nat
          BY <1>0, <4>3
        <5>2. Skip(i, k) # Skip(j, k)
          BY <5>1 DEF Skip
        <5>3. waiters[Skip(i, k)] # waiters[Skip(j, k)]
          BY <4>3, <5>2, Zenon DEF WaitersWait
        <5> QED
          BY <4>3, <5>3, Zenon
      <4> QED
        BY <1>0, <4>2, <4>4, <4>5, Zenon DEF WaitersWait
    <3>3. CASE fwd[s] \in {"spawned", "send"}
      BY <1>0, <2>3, <3>3, WaitersStay, Zenon DEF ForwarderReaped, notifyVars
    <3> QED
      BY <2>3, <3>1, <3>2, <3>3, Zenon DEF ForwarderReaped
  <2> QED
    BY <1>5, <2>1, <2>2, <2>3, Zenon DEF Forwarder, ForwarderProceeds
<1>6. CASE CollectorPush \/ UNCHANGED vars
  BY <1>6, <1>4, Zenon DEF CollectorPush, vars, notifyVars, taskVars
<1>7. CASE ConnectFails \/ OpenFails \/ SessionFails \/ SessionEnds \/ SessionCancelled
  BY <1>7, <1>4, Zenon DEF ConnectFails, OpenFails, SessionFails, SessionEnds,
     SessionCancelled, Fail, CleanEnd, notifyVars, taskVars
<1>8. CASE StreamOpened \/ BackoffOver \/ Cancel
  BY <1>8, <1>4, Zenon DEF StreamOpened, BackoffOver, Cancel, notifyVars, taskVars
<1>9. ASSUME NEW s \in Sessions, Senders(s) \/ Stream(s)
      PROVE  UNCHANGED <<waiters, fwd>>
  BY <1>9, Zenon DEF Senders, HeartbeatSends, ProbeSpawned, ProbeReports, ProbeSendFails,
     SendControl, Stream, Transmit, Deliver, LinkBreaks, LinkEnds, RxDropped,
     WireLost, notifyVars, taskVars
<1> QED
  BY <1>1, <1>2, <1>3, <1>4, <1>5, <1>6, <1>7, <1>8, <1>9, Zenon DEF Next, Loop, Exited

\* Only a forwarder that sends has messages in hand, step by step.
LEMMA BatchStep ==
  ASSUME IInv, WaitersWait, BatchIsSent, [Next]_vars
  PROVE  BatchIsSent'
<1>0. /\ waiters \in Seq(Sessions) /\ fwd \in [Sessions -> ForwarderStates]
      /\ batch \in [Sessions -> Seq(Snapshots)]
  BY Zenon DEF IInv, TypeOK, TaskTypeOK
<1>1. CASE CollectorNotify
  <2>1. \A s \in Sessions : fwd'[s] # fwd[s] => fwd[s] = "wait"
    BY <1>0, <1>1, NotifyStep, Zenon DEF CollectorNotify, WaitersWait
  <2> QED
    BY <1>1, <2>1, Zenon DEF CollectorNotify, BatchIsSent
<1>2. CASE Connect
  <2>1. sess + 1 \in Sessions /\ fwd[sess + 1] = "none"
    BY <1>0, <1>2, AgentAssumption
       DEF Connect, IInv, TypeOK, LoopTypeOK, Sessions, FutureSessions, Running
  <2> QED
    BY <1>0, <1>2, <2>1, Zenon DEF Connect, BatchIsSent
<1>3. CASE LoopCancelled
  BY <1>3, Zenon DEF LoopCancelled, BatchIsSent
<1>4. CASE UNCHANGED <<batch, fwd>>
  BY <1>4, Zenon DEF BatchIsSent
<1>5. ASSUME NEW s \in Sessions, Forwarder(s)
      PROVE  BatchIsSent'
  <2>1. CASE ForwarderRuns(s)
    BY <1>0, <2>1, Zenon DEF ForwarderRuns, BatchIsSent
  <2>2. CASE ForwarderDrains(s)
    BY <1>0, <2>2, Zenon DEF ForwarderDrains, BatchIsSent
  <2>3. CASE ForwarderSends(s)
    BY <1>0, <2>3, Zenon DEF ForwarderSends, BatchIsSent
  <2>4. CASE ForwarderSendFails(s)
    BY <1>0, <2>4, Zenon DEF ForwarderSendFails, BatchIsSent
  <2>5. CASE ForwarderAwaits(s)
    BY <1>0, <2>5, Zenon DEF ForwarderAwaits, BatchIsSent
  <2>6. CASE ForwarderReaped(s)
    <3>1. CASE fwd[s] = "notified"
      <4> DEFINE f == [fwd EXCEPT ![s] = "done"]
      <4>1. f \in [Sessions -> ForwarderStates] /\ NotifyOne(waiters, f)
        BY <1>0, <2>6, <3>1, Zenon DEF ForwarderReaped, ForwarderStates
      <4>2. \A i \in DOMAIN waiters : waiters[i] \in Sessions /\ f[waiters[i]] = "wait"
        BY <1>0, <3>1 DEF WaitersWait
      <4>3. \A t \in Sessions : t # s => f[t] = fwd[t]
        BY <1>0, Zenon
      <4> HIDE DEF f
      <4>4. \A t \in Sessions : fwd'[t] # f[t] => f[t] = "wait"
        BY <1>0, <4>1, <4>2, NotifyStep, Zenon DEF WaitersWait
      <4>5. batch' = [batch EXCEPT ![s] = <<>>]
        BY <2>6, Zenon DEF ForwarderReaped
      <4> QED
        BY <1>0, <4>3, <4>4, <4>5, Zenon DEF BatchIsSent
    <3>2. CASE fwd[s] # "notified"
      BY <1>0, <2>6, <3>2, Zenon DEF ForwarderReaped, BatchIsSent
    <3> QED
      BY <3>1, <3>2, Zenon
  <2> QED
    BY <1>5, <2>1, <2>2, <2>3, <2>4, <2>5, <2>6, Zenon DEF Forwarder, ForwarderProceeds
<1>6. CASE CollectorPush \/ UNCHANGED vars
  BY <1>6, <1>4, Zenon DEF CollectorPush, vars, taskVars
<1>7. CASE ConnectFails \/ OpenFails \/ SessionFails \/ SessionEnds \/ SessionCancelled
  BY <1>7, <1>4, Zenon DEF ConnectFails, OpenFails, SessionFails, SessionEnds,
     SessionCancelled, Fail, CleanEnd, taskVars
<1>8. CASE StreamOpened \/ BackoffOver \/ Cancel
  BY <1>8, <1>4, Zenon DEF StreamOpened, BackoffOver, Cancel, taskVars
<1>9. ASSUME NEW s \in Sessions, Senders(s) \/ Stream(s)
      PROVE  UNCHANGED <<batch, fwd>>
  BY <1>9, Zenon DEF Senders, HeartbeatSends, ProbeSpawned, ProbeReports, ProbeSendFails,
     SendControl, Stream, Transmit, Deliver, LinkBreaks, LinkEnds, RxDropped,
     WireLost, taskVars
<1> QED
  BY <1>1, <1>2, <1>3, <1>4, <1>5, <1>6, <1>7, <1>8, <1>9, Zenon DEF Next, Loop, Exited

-----------------------------------------------------------------------------
(* The sessions.                                                           *)

\* Sessions are numbers, and the types of what they own.
LEMMA SessionTypes ==
  ASSUME TypeOK
  PROVE  /\ sess \in Nat /\ \A s \in Sessions : s \in Nat
         /\ link \in [Sessions -> {"none", "up", "ended", "broken"}]
         /\ rxOpen \in [Sessions -> BOOLEAN] /\ aborted \in [Sessions -> BOOLEAN]
         /\ fwd \in [Sessions -> ForwarderStates]
         /\ batch \in [Sessions -> Seq(Snapshots)]
         /\ chan \in [Sessions -> Seq(Snapshots \cup {Control})]
         /\ wire \in [Sessions -> Seq(Snapshots \cup {Control})]
         /\ recv \in [Sessions -> Seq(Snapshots)]
BY SMTT(60) DEF TypeOK, LoopTypeOK, TaskTypeOK, NetTypeOK, Sessions

\* Every step keeps the stream that is up the latest.
LEMMA LatestStep ==
  ASSUME IInv, LatestIsUp, [Next]_vars
  PROVE  LatestIsUp'
<1> TypeOK
  BY Zenon DEF IInv
<1>0. /\ sess \in Nat /\ \A s \in Sessions : s \in Nat
      /\ link \in [Sessions -> {"none", "up", "ended", "broken"}]
      /\ rxOpen \in [Sessions -> BOOLEAN] /\ aborted \in [Sessions -> BOOLEAN]
      /\ fwd \in [Sessions -> ForwarderStates]
      /\ batch \in [Sessions -> Seq(Snapshots)]
      /\ chan \in [Sessions -> Seq(Snapshots \cup {Control})]
      /\ wire \in [Sessions -> Seq(Snapshots \cup {Control})]
  BY SessionTypes, Zenon
<1> USE <1>0 DEF LatestIsUp
<1>1. CASE Connect
  <2>1. sess + 1 \in Sessions
    BY <1>1, AgentAssumption DEF Connect, TypeOK, LoopTypeOK, Sessions
  <2>2. \A s \in Sessions : link[s] # "up"
    BY <1>1, Zenon DEF Connect
  <2>3. ~aborted[sess + 1] /\ sess' = sess + 1
    BY <1>1, <2>1 DEF Connect
  <2> QED
    BY <1>1, <2>1, <2>2, <2>3 DEF Connect
<1>2. CASE ConnectFails \/ SessionFails
  BY <1>2, Zenon DEF ConnectFails, SessionFails, Fail, taskVars, netVars
<1>3. CASE OpenFails
  BY <1>3, Zenon DEF OpenFails, Fail, taskVars
<1>4. CASE SessionEnds \/ SessionCancelled
  <2>1. phase = "streaming" /\ sess \in Sessions
    BY <1>4, Zenon DEF SessionEnds, SessionCancelled
  <2>2. CleanEnd
    BY <1>4, Zenon DEF SessionEnds, SessionCancelled
  <2>3. \A s \in Sessions : link'[s] # "up"
    BY <2>1, <2>2, Zenon DEF CleanEnd
  <2>4. \A s \in Sessions : aborted'[s] => aborted[s] \/ s = sess
    BY <2>1, <2>2, Zenon DEF CleanEnd
  <2>5. UNCHANGED <<sess, rxOpen, wire, chan, batch>> /\ phase' = "connecting"
    BY <2>2, Zenon DEF CleanEnd
  <2> QED
    BY <2>3, <2>4, <2>5
<1>5. CASE StreamOpened \/ BackoffOver \/ Cancel
  BY <1>5, Zenon DEF StreamOpened, BackoffOver, Cancel, taskVars, netVars
<1>6. CASE LoopCancelled
  BY <1>6, Zenon DEF LoopCancelled
<1>7. CASE CollectorPush \/ CollectorNotify \/ UNCHANGED vars
  BY <1>7, Zenon DEF CollectorPush, CollectorNotify, vars, loopVars, taskVars, netVars
<1>8. ASSUME NEW s \in Sessions, Forwarder(s)
      PROVE  LatestIsUp'
  <2>1. UNCHANGED <<phase, sess, link, rxOpen, aborted, wire>>
    BY <1>8, Zenon DEF Forwarder, ForwarderProceeds, ForwarderRuns, ForwarderDrains,
       ForwarderSends, ForwarderSendFails, ForwarderAwaits, ForwarderReaped,
       loopVars, netVars
  <2>2. CASE ForwarderDrains(s)
    <3>1. s <= sess
      BY <2>2 DEF ForwarderDrains, IInv, FutureSessions
    <3> QED
      BY <2>1, <2>2, <3>1 DEF ForwarderDrains, netVars
  <2>3. CASE ForwarderSends(s)
    <3>1. s <= sess
      BY <2>3, Zenon DEF ForwarderSends
    <3> QED
      BY <2>1, <2>3, <3>1, Zenon DEF ForwarderSends
  <2>4. CASE ForwarderSendFails(s) \/ ForwarderReaped(s)
    BY <2>1, <2>4, Zenon DEF ForwarderSendFails, ForwarderReaped, netVars
  <2>5. CASE ForwarderRuns(s) \/ ForwarderAwaits(s)
    BY <2>1, <2>5, Zenon DEF ForwarderRuns, ForwarderAwaits, netVars
  <2> QED
    BY <1>8, <2>2, <2>3, <2>4, <2>5, Zenon DEF Forwarder, ForwarderProceeds
<1>9. ASSUME NEW s \in Sessions, Senders(s)
      PROVE  LatestIsUp'
  <2>1. CASE SendControl(s)
    <3>1. s <= sess
      BY <2>1, Zenon DEF SendControl
    <3> QED
      BY <2>1, <3>1 DEF SendControl, loopVars
  <2>2. CASE ProbeSpawned(s) \/ ProbeSendFails(s)
    BY <2>2 DEF ProbeSpawned, ProbeSendFails, loopVars, netVars
  <2> QED
    BY <1>9, <2>1, <2>2, Zenon DEF Senders, HeartbeatSends, ProbeReports
<1>10. ASSUME NEW s \in Sessions, Stream(s)
       PROVE  LatestIsUp'
  <2>1. CASE Transmit(s)
    <3>1. s <= sess
      BY <2>1, Zenon DEF Transmit
    <3> QED
      BY <2>1, <3>1, Zenon DEF Transmit, loopVars, taskVars
  <2>2. CASE Deliver(s)
    <3>1. s <= sess
      BY <2>2 DEF Deliver
    <3> QED
      BY <2>2, <3>1, Zenon DEF Deliver, loopVars, taskVars
  <2>3. CASE LinkBreaks(s) \/ LinkEnds(s)
    BY <2>3 DEF LinkBreaks, LinkEnds, loopVars, taskVars
  <2>4. CASE RxDropped(s)
    BY <2>4, Zenon DEF RxDropped, loopVars, taskVars
  <2>5. CASE WireLost(s)
    BY <2>5, Zenon DEF WireLost, loopVars, taskVars
  <2> QED
    BY <1>10, <2>1, <2>2, <2>3, <2>4, <2>5, Zenon DEF Stream
<1> QED
  BY <1>1, <1>2, <1>3, <1>4, <1>5, <1>6, <1>7, <1>8, <1>9, <1>10, Zenon
     DEF Next, Loop, Exited
=============================================================================
