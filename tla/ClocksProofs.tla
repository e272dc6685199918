---------------------------- MODULE ClocksProofs ----------------------------
(***************************************************************************)
(* Proofs about Clocks, for every period, timeout, retention time, skew    *)
(* and delay.                                                              *)
(***************************************************************************)
EXTENDS Clocks, TLAPS

\* Only a node whose clock authentication admits has a stream or was heard.
Admitted ==
  up \/ heard # Never => -BehindMax <= offset /\ offset <= AheadMax

\* The checker's schedule: its last scan was due in the past, its next one is
\* not overdue.
ScansOnTime == due - CheckEvery <= now /\ now <= due + Late

\* A scan that leaves the node online proves that it was heard recently.
OnlineWasHeard ==
  status = "online" =>
    /\ heard \in Nat
    /\ last_seen <= heard + offset
    /\ due <= heard + OfflineAfter + AheadMax + CheckEvery

\* The heartbeats' schedule, and the oldest last_seen a message can leave.
BeatsOnTime ==
  /\ ~up => ~heardHere
  /\ up => now <= beat + MaxDelay /\ beat <= now + HeartbeatEvery
  /\ up /\ heardHere /\ status = "online" =>
       beat - HeartbeatEvery - MaxAge + offset <= last_seen

\* A snapshot that is gone was past the retention time, by its timestamp.
OnlyOldArePurged ==
  /\ purge.next # "tick" => purge.before <= now - Retain
  /\ stored # {} => heard # Never
  /\ \A r \in stored :
       /\ r.ts = r.at + offset
       /\ r \in snapshots \/ r.ts < now - Retain

IInv ==
  TypeOK /\ Admitted /\ ScansOnTime /\ OnlineWasHeard /\ BeatsOnTime /\ OnlyOldArePurged

-----------------------------------------------------------------------------
(* Arithmetic.                                                             *)

\* Times within K whole seconds of each other are less than K + 1 apart.
LEMMA SameSeconds ==
  ASSUME NEW a \in Int, NEW b \in Int, NEW S \in Nat \ {0}, NEW K \in Nat,
         a \div S - b \div S <= K
  PROVE  a - b <= (K + 1) * S - 1
<1> DEFINE p == a \div S
           q == b \div S
<1>1. p \in Int /\ q \in Int /\ a < S * p + S /\ S * q <= b
  OBVIOUS
<1>2. p <= q + K
  BY <1>1
<1> HIDE DEF p, q
<1>3. S * p <= S * (q + K)
  <2>1. ASSUME NEW x \in Int, NEW y \in Int, x <= y PROVE S * x <= S * y
    BY <2>1
  <2> QED
    BY <1>1, <1>2, <2>1
<1>4. S * (q + K) = S * q + S * K /\ (K + 1) * S = S * K + S
  BY <1>1
<1> QED
  BY <1>1, <1>3, <1>4

\* What verify_request admits, for a request signed d units ago.
LEMMA AdmittedOffset ==
  ASSUME TypeOK, NEW d \in 0 .. MaxDelay,
         verify_request((now - d + offset) \div Second)
  PROVE  -BehindMax <= offset /\ offset <= AheadMax
<1> DEFINE sent == now - d + offset
<1>1. now \in Int /\ sent \in Int /\ d \in Int /\ offset \in Int
  BY ClocksAssumption DEF TypeOK
<1>2. now \div Second \in Int /\ sent \div Second \in Int
  BY <1>1, ClocksAssumption
<1>3. /\ now \div Second - sent \div Second <= MAX_CLOCK_SKEW
      /\ sent \div Second - now \div Second <= MAX_CLOCK_SKEW
  BY <1>2, ClocksAssumption DEF verify_request, Abs
<1>4. /\ now - sent <= BehindMax
      /\ sent - now <= BehindMax
  BY <1>1, <1>3, SameSeconds, ClocksAssumption, Zenon DEF BehindMax
<1>5. BehindMax \in Int /\ AheadMax = BehindMax + MaxDelay
  BY ClocksAssumption DEF BehindMax, AheadMax
<1> QED
  BY <1>1, <1>4, <1>5, ClocksAssumption

\* The bounds are natural numbers.
LEMMA BoundsType == BehindMax \in Nat /\ AheadMax \in Nat
<1>1. (MAX_CLOCK_SKEW + 1) * Second \in Nat /\ (MAX_CLOCK_SKEW + 1) * Second >= 1
  <2>1. MAX_CLOCK_SKEW * Second \in Nat
    BY ClocksAssumption
  <2> QED
    BY <2>1, ClocksAssumption
<1> QED
  BY <1>1, ClocksAssumption DEF BehindMax, AheadMax

-----------------------------------------------------------------------------
(* The inductive invariant.                                                *)

\* The invariant holds when the server starts.
LEMMA InitInv == Init => IInv
<1> SUFFICES ASSUME Init PROVE IInv
  OBVIOUS
<1>1. TypeOK
  <2>1. purge \in [next : {"tick", "snapshots", "probes"}, before : Int]
    BY DEF Init, Asleep
  <2>2. snapshots \subseteq Rows /\ stored \subseteq Rows /\ probes \subseteq Nat
    BY DEF Init
  <2>3. now \in 0 .. MaxTime /\ beat \in Nat /\ due \in Nat /\ last_seen \in Int
    BY ClocksAssumption DEF Init
  <2> QED
    BY <2>1, <2>2, <2>3, Zenon DEF Init, TypeOK
<1>2. ScansOnTime
  BY ClocksAssumption DEF Init, ScansOnTime
<1>3. Admitted /\ OnlineWasHeard /\ BeatsOnTime /\ OnlyOldArePurged
  BY DEF Init, Admitted, OnlineWasHeard, BeatsOnTime, OnlyOldArePurged, Asleep
<1> QED
  BY <1>1, <1>2, <1>3 DEF IInv

\* Every step keeps the types.
LEMMA TypeStep == TypeOK /\ [Next]_vars => TypeOK'
<1> SUFFICES ASSUME TypeOK, [Next]_vars PROVE TypeOK'
  OBVIOUS
<1> USE ClocksAssumption DEF TypeOK, streamVars, registryVars, tables, Asleep
<1>1. CASE Connect
  BY <1>1 DEF Connect
<1>2. CASE Disconnect
  BY <1>2, Zenon DEF Disconnect
<1>3. CASE HeartbeatReceived
  BY <1>3 DEF HeartbeatReceived, Hears
<1>4. CASE StatsReceived
  BY <1>4 DEF StatsReceived, Hears, Rows
<1>5. CASE ProbeReceived
  BY <1>5 DEF ProbeReceived
<1>6. CASE CheckerScans
  BY <1>6 DEF CheckerScans
<1>7. CASE PurgeStarts
  BY <1>7 DEF PurgeStarts
<1>8. CASE SnapshotsPurged
  BY <1>8 DEF SnapshotsPurged
<1>9. CASE ProbesPurged
  <2>1. probes' \subseteq Nat
    BY <1>9, Zenon DEF ProbesPurged
  <2>2. purge' \in [next : {"tick", "snapshots", "probes"}, before : Int]
    BY <1>9 DEF ProbesPurged
  <2> QED
    BY <1>9, <2>1, <2>2 DEF ProbesPurged
<1>10. CASE PurgeFails
  <2>1. snapshots' \subseteq Rows /\ probes' \subseteq Nat
    BY <1>10, Zenon DEF PurgeFails
  <2>2. purge' \in [next : {"tick", "snapshots", "probes"}, before : Int]
    BY <1>10 DEF PurgeFails
  <2> QED
    BY <1>10, <2>1, <2>2 DEF PurgeFails
<1>11. CASE Tick
  BY <1>11 DEF Tick
<1>12. CASE UNCHANGED vars
  BY <1>12 DEF vars
<1> QED
  BY <1>1, <1>2, <1>3, <1>4, <1>5, <1>6, <1>7, <1>8, <1>9, <1>10, <1>11, <1>12
  DEF Next

\* Every action but Connect leaves the offset and who is admitted alone.
LEMMA AdmittedStep == TypeOK /\ Admitted /\ [Next]_vars => Admitted'
<1> SUFFICES ASSUME TypeOK, Admitted, [Next]_vars PROVE Admitted'
  OBVIOUS
<1> USE DEF Admitted, BehindMax, AheadMax
<1>1. CASE Connect
  BY <1>1, AdmittedOffset DEF Connect
<1>2. CASE HeartbeatReceived \/ StatsReceived
  BY <1>2 DEF HeartbeatReceived, StatsReceived
<1>3. CASE Disconnect
  BY <1>3 DEF Disconnect
<1>4. CASE UNCHANGED <<offset, up, heard>>
  BY <1>4
<1>5. ASSUME ProbeReceived \/ CheckerScans \/ PurgeStarts \/ SnapshotsPurged
             \/ ProbesPurged \/ PurgeFails \/ Tick \/ UNCHANGED vars
      PROVE  UNCHANGED <<offset, up, heard>>
  BY <1>5 DEF ProbeReceived, CheckerScans, PurgeStarts, SnapshotsPurged,
       ProbesPurged, PurgeFails, Tick, vars, streamVars
<1> QED
  BY <1>1, <1>2, <1>3, <1>4, <1>5 DEF Next

\* The clock waits for the checker.
LEMMA ScansStep == TypeOK /\ ScansOnTime /\ [Next]_vars => ScansOnTime'
<1> SUFFICES ASSUME TypeOK, ScansOnTime, [Next]_vars PROVE ScansOnTime'
  OBVIOUS
<1>1. now \in Nat /\ due \in Nat
  BY ClocksAssumption DEF TypeOK
<1>2. CASE CheckerScans
  BY <1>1, <1>2, ClocksAssumption DEF CheckerScans, ScansOnTime
<1>3. CASE Tick
  BY <1>1, <1>3, ClocksAssumption DEF Tick, ScansOnTime
<1>4. ASSUME Connect \/ Disconnect \/ HeartbeatReceived \/ StatsReceived
             \/ ProbeReceived \/ PurgeStarts \/ SnapshotsPurged
             \/ ProbesPurged \/ PurgeFails \/ UNCHANGED vars
      PROVE  UNCHANGED <<now, due>>
  BY <1>4 DEF Connect, Disconnect, HeartbeatReceived, StatsReceived, ProbeReceived,
       PurgeStarts, SnapshotsPurged, ProbesPurged, PurgeFails, vars
<1> QED
  BY <1>2, <1>3, <1>4 DEF Next, ScansOnTime

\* A message makes heard the present; a scan compares last_seen with it.
LEMMA OnlineStep ==
  IInv /\ [Next]_vars => OnlineWasHeard'
<1> SUFFICES ASSUME IInv, [Next]_vars PROVE OnlineWasHeard'
  OBVIOUS
<1>1. /\ now \in Nat /\ due \in Nat /\ beat \in Nat /\ offset \in Int
      /\ last_seen \in Int /\ AheadMax \in Nat
  BY ClocksAssumption, BoundsType DEF IInv, TypeOK
<1>2. CASE HeartbeatReceived
  BY <1>1, <1>2, ClocksAssumption
  DEF HeartbeatReceived, Hears, IInv, ScansOnTime, OnlineWasHeard, registryVars, AheadMax
<1>3. CASE StatsReceived
  <2>1. PICK age \in 0 .. MaxAge : last_seen' = now - age + offset
    BY <1>3 DEF StatsReceived
  <2>2. heard' = now /\ due' = due /\ offset' = offset
    BY <1>3 DEF StatsReceived, Hears
  <2>3. AheadMax' = AheadMax
    BY DEF AheadMax
  <2> QED
    BY <1>1, <2>1, <2>2, <2>3, ClocksAssumption DEF IInv, ScansOnTime, OnlineWasHeard
<1>4. CASE CheckerScans
  <2> SUFFICES ASSUME status' = "online" PROVE OnlineWasHeard'
    BY DEF OnlineWasHeard
  <2>1. status = "online" /\ ~TimedOut
    BY <1>4 DEF CheckerScans
  <2>2. heard \in Nat /\ last_seen <= heard + offset
    BY <2>1 DEF IInv, OnlineWasHeard
  <2>3. offset <= AheadMax
    BY <2>2 DEF IInv, Admitted, Never
  <2>4. now - last_seen <= OfflineAfter /\ due <= now
    BY <1>1, <1>4, <2>1, ClocksAssumption DEF TimedOut, CheckerScans
  <2>5. due + CheckEvery <= heard + OfflineAfter + AheadMax + CheckEvery
    BY <1>1, <2>2, <2>3, <2>4, ClocksAssumption
  <2>6. due' = due + CheckEvery /\ UNCHANGED <<heard, last_seen, offset>> /\ AheadMax' = AheadMax
    BY <1>4 DEF CheckerScans, streamVars, AheadMax
  <2> QED
    BY <2>2, <2>5, <2>6 DEF OnlineWasHeard
<1>5. ASSUME Connect \/ Disconnect \/ ProbeReceived \/ PurgeStarts
             \/ SnapshotsPurged \/ ProbesPurged \/ PurgeFails \/ Tick
             \/ UNCHANGED vars
      PROVE  UNCHANGED <<status, last_seen, heard, due, offset>>
  BY <1>5 DEF Connect, Disconnect, ProbeReceived, PurgeStarts, SnapshotsPurged,
       ProbesPurged, PurgeFails, Tick, vars, streamVars, registryVars
<1>6. CASE UNCHANGED <<status, last_seen, heard, due, offset>>
  BY <1>6 DEF IInv, OnlineWasHeard, AheadMax
<1> QED
  BY <1>2, <1>3, <1>4, <1>5, <1>6 DEF Next

\* The clock waits for the heartbeats of an open stream.
LEMMA BeatsStep == TypeOK /\ BeatsOnTime /\ [Next]_vars => BeatsOnTime'
<1> SUFFICES ASSUME TypeOK, BeatsOnTime, [Next]_vars PROVE BeatsOnTime'
  OBVIOUS
<1>1. now \in Nat /\ beat \in Nat /\ offset \in Int /\ last_seen \in Int
  BY ClocksAssumption DEF TypeOK
<1>2. CASE Connect
  BY <1>1, <1>2, ClocksAssumption DEF Connect, BeatsOnTime
<1>3. CASE Disconnect
  BY <1>3 DEF Disconnect, BeatsOnTime
<1>4. CASE HeartbeatReceived
  <2>1. up /\ beat <= now /\ now <= beat + MaxDelay
    BY <1>4 DEF HeartbeatReceived, BeatsOnTime
  <2>2. beat' = beat + HeartbeatEvery /\ up' = up /\ now' = now /\ offset' = offset
    BY <1>4 DEF HeartbeatReceived
  <2>3. status' = "online" => last_seen' = beat + offset
    BY <1>4 DEF HeartbeatReceived, registryVars
  <2>4. beat' - HeartbeatEvery - MaxAge + offset <= beat + offset
    BY <1>1, <2>2, ClocksAssumption
  <2>5. now <= beat' + MaxDelay /\ beat' <= now + HeartbeatEvery
    BY <1>1, <2>1, <2>2, ClocksAssumption
  <2> QED
    BY <2>1, <2>2, <2>3, <2>4, <2>5 DEF BeatsOnTime
<1>5. CASE StatsReceived
  <2>1. up /\ beat <= now + HeartbeatEvery
    BY <1>5 DEF StatsReceived, BeatsOnTime
  <2>2. PICK age \in 0 .. MaxAge : last_seen' = now - age + offset
    BY <1>5 DEF StatsReceived
  <2>3. UNCHANGED <<up, beat, now, offset>>
    BY <1>5 DEF StatsReceived
  <2>4. beat - HeartbeatEvery - MaxAge + offset <= last_seen'
    BY <1>1, <2>1, <2>2, ClocksAssumption
  <2> QED
    BY <2>1, <2>3, <2>4 DEF BeatsOnTime
<1>6. CASE CheckerScans
  BY <1>6 DEF CheckerScans, streamVars, BeatsOnTime
<1>7. CASE Tick
  <2>1. UNCHANGED <<up, heardHere, status, beat, offset, last_seen>> /\ now' = now + 1
    BY <1>7 DEF Tick, streamVars, registryVars
  <2>2. up => now' <= beat + MaxDelay /\ beat <= now' + HeartbeatEvery
    BY <1>1, <1>7, <2>1, ClocksAssumption DEF Tick, BeatsOnTime
  <2> QED
    BY <2>1, <2>2 DEF BeatsOnTime
<1>8. ASSUME ProbeReceived \/ PurgeStarts \/ SnapshotsPurged \/ ProbesPurged
             \/ PurgeFails \/ UNCHANGED vars
      PROVE  UNCHANGED <<now, offset, up, beat, heardHere, status, last_seen>>
  BY <1>8 DEF ProbeReceived, PurgeStarts, SnapshotsPurged, ProbesPurged, PurgeFails,
       vars, streamVars, registryVars
<1>9. CASE UNCHANGED <<now, offset, up, beat, heardHere, status, last_seen>>
  BY <1>9 DEF BeatsOnTime
<1> QED
  BY <1>2, <1>3, <1>4, <1>5, <1>6, <1>7, <1>8, <1>9 DEF Next

\* before_ms only gets staler while the deletes run, which errs on keeping.
LEMMA PurgeStep == TypeOK /\ OnlyOldArePurged /\ [Next]_vars => OnlyOldArePurged'
<1> SUFFICES ASSUME TypeOK, OnlyOldArePurged, [Next]_vars PROVE OnlyOldArePurged'
  OBVIOUS
<1>1. /\ now \in Nat /\ purge.before \in Int /\ offset \in Int
      /\ \A r \in stored : r.ts \in Int /\ r.at \in Int
  BY ClocksAssumption DEF TypeOK, Rows
<1>2. CASE StatsReceived
  <2>1. PICK age \in 0 .. MaxAge :
          LET row == [ts |-> now - age + offset, at |-> now - age] IN
          snapshots' = snapshots \cup {row} /\ stored' = stored \cup {row}
    BY <1>2 DEF StatsReceived
  <2>2. UNCHANGED <<now, offset, purge>> /\ heard' # Never
    BY <1>1, <1>2 DEF StatsReceived, Hears, Never
  <2> QED
    BY <2>1, <2>2 DEF OnlyOldArePurged
<1>3. CASE PurgeStarts
  BY <1>1, <1>3, ClocksAssumption DEF PurgeStarts, OnlyOldArePurged, streamVars, tables
<1>4. ASSUME purge.next = "snapshots", snapshots' = {r \in snapshots : ~Old(r.ts)}
      PROVE  \A r \in stored : r \in snapshots' \/ r.ts < now - Retain
  <2> SUFFICES ASSUME NEW r \in stored, r \in snapshots, r.ts < purge.before
               PROVE  r.ts < now - Retain
    BY <1>4 DEF Old, OnlyOldArePurged
  <2> QED
    BY <1>1, <1>4, ClocksAssumption DEF OnlyOldArePurged
<1>5. CASE SnapshotsPurged
  <2>1. purge' = [next |-> "probes", before |-> purge.before] /\ purge.next = "snapshots"
    BY <1>5 DEF SnapshotsPurged
  <2>2. UNCHANGED <<now, offset, stored, heard>>
    BY <1>5 DEF SnapshotsPurged, streamVars
  <2>3. \A r \in stored : r \in snapshots' \/ r.ts < now - Retain
    BY <1>4, <1>5 DEF SnapshotsPurged
  <2> QED
    BY <2>1, <2>2, <2>3 DEF OnlyOldArePurged
<1>6. CASE ProbesPurged
  BY <1>6 DEF ProbesPurged, OnlyOldArePurged, Asleep, streamVars
<1>7. CASE PurgeFails
  <2>1. purge' = Asleep /\ UNCHANGED <<now, offset, stored, heard>>
    BY <1>7 DEF PurgeFails, streamVars
  <2>2. \A r \in stored : r \in snapshots' \/ r.ts < now - Retain
    BY <1>4, <1>7 DEF PurgeFails, OnlyOldArePurged
  <2> QED
    BY <2>1, <2>2 DEF OnlyOldArePurged, Asleep
<1>8. CASE Tick
  <2>1. UNCHANGED <<offset, stored, snapshots, heard, purge>> /\ now' = now + 1
    BY <1>8 DEF Tick, streamVars, tables
  <2>2. purge.next # "tick" => purge.before <= now' - Retain
    BY <1>1, <2>1, ClocksAssumption DEF OnlyOldArePurged
  <2>3. \A r \in stored : r.ts < now - Retain => r.ts < now' - Retain
    BY <1>1, <2>1, ClocksAssumption
  <2> QED
    BY <2>1, <2>2, <2>3 DEF OnlyOldArePurged
<1>9. CASE HeartbeatReceived
  BY <1>1, <1>9 DEF HeartbeatReceived, Hears, Never, OnlyOldArePurged, tables
<1>10. ASSUME Connect \/ Disconnect \/ ProbeReceived \/ CheckerScans \/ UNCHANGED vars
       PROVE  UNCHANGED <<now, offset, purge, stored, snapshots, heard>>
  BY <1>10 DEF Connect, Disconnect, ProbeReceived, CheckerScans, vars, streamVars, tables
<1>11. CASE UNCHANGED <<now, offset, purge, stored, snapshots, heard>>
  BY <1>11 DEF OnlyOldArePurged
<1> QED
  BY <1>2, <1>3, <1>5, <1>6, <1>7, <1>8, <1>9, <1>10, <1>11 DEF Next

-----------------------------------------------------------------------------
(* The theorems.                                                           *)

\* The invariant is inductive.
THEOREM Invariance == Spec => []IInv
<1>1. IInv /\ [Next]_vars => IInv'
  BY TypeStep, AdmittedStep, ScansStep, OnlineStep, BeatsStep, PurgeStep DEF IInv
<1> QED
  BY <1>1, InitInv, PTL DEF Spec

\* The clocks, the registry's entry of the node, the tables and the clean-up
\* task are always well typed, wherever the agent's clock is.
THEOREM TypeCorrect == Spec => []TypeOK
<1>1. IInv => TypeOK
  BY DEF IInv
<1> QED
  BY <1>1, Invariance, PTL

\* The detection time of a silent node, with any admitted clock.
THEOREM DetectionBoundHolds == Spec => []DetectionBound
<1>1. IInv => DetectionBound
  <2> SUFFICES ASSUME IInv, status = "online"
               PROVE  now - heard <= OfflineAfter + AheadMax + CheckEvery + Late
    BY DEF DetectionBound
  <2>1. now \in Nat /\ due \in Nat /\ AheadMax \in Nat
    BY ClocksAssumption, BoundsType DEF IInv, TypeOK
  <2> QED
    BY <2>1, ClocksAssumption DEF IInv, ScansOnTime, OnlineWasHeard
<1> QED
  BY <1>1, Invariance, PTL

\* A streaming node stays online under the stated sum of delays.
THEOREM StreamingStaysOnlineHolds == Spec => StreamingStaysOnline
<1> DEFINE A == up /\ heardHere /\ status = "online" /\ status' = "offline"
                  => HeartbeatEvery + MaxDelay + MaxAge - offset > OfflineAfter
<1>1. IInv /\ [Next]_vars => A
  <2> SUFFICES ASSUME IInv, [Next]_vars, up, heardHere,
                      status = "online", status' = "offline"
               PROVE  HeartbeatEvery + MaxDelay + MaxAge - offset > OfflineAfter
    OBVIOUS
  <2>1. TimedOut
    BY DEF Next, Connect, Disconnect, HeartbeatReceived, StatsReceived, ProbeReceived,
       CheckerScans, PurgeStarts, SnapshotsPurged, ProbesPurged, PurgeFails, Tick,
       vars, registryVars
  <2>2. now \in Nat /\ beat \in Nat /\ offset \in Int /\ last_seen \in Int
    BY ClocksAssumption DEF IInv, TypeOK
  <2>3. now <= beat + MaxDelay /\ beat - HeartbeatEvery - MaxAge + offset <= last_seen
    BY DEF IInv, BeatsOnTime
  <2> QED
    BY <2>1, <2>2, <2>3, ClocksAssumption DEF TimedOut
<1> QED
  BY <1>1, Invariance, PTL DEF Spec, StreamingStaysOnline

\* No stored snapshot is missing from the history while it should be there.
THEOREM HistoryCompleteHolds == Spec => []HistoryComplete
<1>1. IInv => HistoryComplete
  <2> SUFFICES ASSUME IInv, NEW r \in stored,
                      AheadMax <= now - r.at, now - r.at <= Retain - BehindMax
               PROVE  r \in get_node_history(Retain)
    BY DEF HistoryComplete
  <2>1. /\ now \in Nat /\ r.ts \in Int /\ r.at \in Int /\ offset \in Int
        /\ AheadMax \in Nat /\ BehindMax \in Nat
    BY ClocksAssumption, BoundsType DEF IInv, TypeOK, Rows
  <2>2. r.ts = r.at + offset /\ (r \in snapshots \/ r.ts < now - Retain)
    BY DEF IInv, OnlyOldArePurged
  <2>3. -BehindMax <= offset /\ offset <= AheadMax
    BY DEF IInv, OnlyOldArePurged, Admitted
  <2>4. now - Retain <= r.ts /\ r.ts <= now
    BY <2>1, <2>2, <2>3, ClocksAssumption
  <2>5. r \in snapshots
    BY <2>1, <2>2, <2>4, ClocksAssumption
  <2> QED
    BY <2>4, <2>5 DEF get_node_history, get_snapshots
<1> QED
  BY <1>1, Invariance, PTL
=============================================================================
