------------------------------- MODULE Clocks -------------------------------
(***************************************************************************)
(* Every decision the server makes by comparing its own clock with a time  *)
(* an agent wrote: whether a stream is admitted (pulse-core/src/auth.rs),  *)
(* whether the node is online (the liveness checker of main.rs) and        *)
(* whether a snapshot is kept and shown (the clean-up task of main.rs,     *)
(* get_node_history of api.rs, db.rs).  One node, whose clock is offset    *)
(* from the server's; module Server has the same handlers and checker in   *)
(* smaller steps but with a clock that only orders events.                 *)
(*                                                                         *)
(* Time is the server's clock.  Ticks of tokio intervals are deadlines:    *)
(* the clock does not pass a heartbeat's or a scan's latest moment.        *)
(***************************************************************************)
EXTENDS Integers, FiniteSets

CONSTANTS
  Second,          \* clock units in a second; 1000
  MAX_CLOCK_SKEW,  \* seconds; 60
  HeartbeatEvery,  \* 15 s
  OfflineAfter,    \* 30 s
  CheckEvery,      \* 10 s
  Retain,          \* 7 days
  Offsets,         \* agent clock minus server clock
  MaxDelay,        \* bound: from signing or a heartbeat's tick to the handler
  MaxAge,          \* bound: from collecting a snapshot to the handler
  Late,            \* bound: from the checker's tick to its scan
  MaxTime,         \* bound: clock units
  MaxRows          \* bound: snapshots ever and probe results at once

ASSUME ClocksAssumption ==
  /\ Second \in Nat \ {0}
  /\ HeartbeatEvery \in Nat \ {0}
  /\ CheckEvery \in Nat \ {0}
  /\ {MAX_CLOCK_SKEW, OfflineAfter, Retain, MaxDelay, MaxAge, Late, MaxTime,
      MaxRows} \subseteq Nat
  /\ Offsets \subseteq Int

Never == -1                                  \* no message yet
Asleep == [next |-> "tick", before |-> 0]    \* the clean-up task between ticks

VARIABLES
  now,          \* the server's clock
  offset,       \* the agent's clock is now + offset
  up,           \* the stream is open
  beat,         \* next tick of heartbeat_loop
  status, last_seen,     \* NodeInfo in the registry
  due,          \* next tick of the liveness checker
  snapshots,    \* table snapshots: ts, and at, when it was collected
  probes,       \* timestamps in table probe_results
  purge,        \* the clean-up task, and its before_ms
  heard,        \* history: when a message was last received
  heardHere,    \* history: one was received on the open stream
  stored        \* history: every snapshot ever inserted

streamVars == <<up, beat, heard, heardHere>>
registryVars == <<status, last_seen>>
tables == <<snapshots, probes, stored>>
vars == <<now, offset, streamVars, registryVars, due, tables, purge>>

Rows == [ts : Int, at : Int]

TypeOK ==
  /\ now \in 0 .. MaxTime
  /\ offset \in Offsets
  /\ up \in BOOLEAN
  /\ beat \in Nat
  /\ status \in {"absent", "online", "offline"}
  /\ last_seen \in Int
  /\ due \in Nat
  /\ snapshots \subseteq Rows
  /\ probes \subseteq Nat
  /\ purge \in [next : {"tick", "snapshots", "probes"}, before : Int]
  /\ heard \in Nat \cup {Never}
  /\ heardHere \in BOOLEAN
  /\ stored \subseteq Rows

Init ==
  /\ now = 0
  /\ offset \in Offsets
  /\ up = FALSE
  /\ beat = 0
  /\ status = "absent"
  /\ last_seen = 0
  /\ due = 0
  /\ snapshots = {}
  /\ probes = {}
  /\ purge = Asleep
  /\ heard = Never
  /\ heardHere = FALSE
  /\ stored = {}

-----------------------------------------------------------------------------
(* The stream.                                                             *)

Abs(d) == IF d < 0 THEN -d ELSE d

\* The freshness check of verify_request, in whole seconds.
verify_request(timestamp) == Abs(now \div Second - timestamp) <= MAX_CLOCK_SKEW

\* A request the agent signed a moment ago (inject_auth_headers) is verified.
\* The first heartbeat is due at once.
Connect ==
  /\ ~up
  /\ \E d \in 0 .. MaxDelay : verify_request((now - d + offset) \div Second)
  /\ up' = TRUE
  /\ beat' = now
  /\ UNCHANGED <<now, offset, heard, heardHere, registryVars, due, tables, purge>>

\* The agent stops or the stream breaks, and its heartbeat task with it.
Disconnect ==
  /\ up
  /\ up' = FALSE
  /\ beat' = 0
  /\ heardHere' = FALSE
  /\ UNCHANGED <<now, offset, heard, registryVars, due, tables, purge>>

Hears == heard' = now /\ heardHere' = TRUE

\* A heartbeat carries the agent's time of its tick and refreshes a known node.
HeartbeatReceived ==
  /\ up
  /\ now >= beat
  /\ Hears
  /\ beat' = beat + HeartbeatEvery
  /\ IF status = "absent" THEN UNCHANGED registryVars
     ELSE status' = "online" /\ last_seen' = beat + offset
  /\ UNCHANGED <<now, offset, up, due, tables, purge>>

\* A snapshot collected age units ago carries the agent's time of that
\* moment; it is registered, queued and inserted.
StatsReceived ==
  /\ up
  /\ Cardinality(stored) + Cardinality(probes) < MaxRows
  /\ Hears
  /\ \E age \in 0 .. MaxAge :
       LET row == [ts |-> now - age + offset, at |-> now - age] IN
       /\ status' = "online"
       /\ last_seen' = row.ts
       /\ snapshots' = snapshots \cup {row}
       /\ stored' = stored \cup {row}
  /\ UNCHANGED <<now, offset, up, beat, due, probes, purge>>

\* A probe result is stamped by the server and leaves the registry alone.
ProbeReceived ==
  /\ up
  /\ Cardinality(stored) + Cardinality(probes) < MaxRows
  /\ probes' = probes \cup {now}
  /\ UNCHANGED <<now, offset, streamVars, registryVars, due, snapshots, stored, purge>>

-----------------------------------------------------------------------------
(* The liveness checker.                                                   *)

\* Variant: a node is timed out at the limit, not past it.
TimedOutEarly == status = "online" /\ now - last_seen >= OfflineAfter

\* Variant: a node is given one more unit.
TimedOutLate == status = "online" /\ now - last_seen > OfflineAfter + 1

TimedOut == status = "online" /\ now - last_seen > OfflineAfter

CheckerScans ==
  /\ now >= due
  /\ due' = due + CheckEvery
  /\ status' = IF TimedOut THEN "offline" ELSE status
  /\ UNCHANGED <<now, offset, streamVars, last_seen, tables, purge>>

-----------------------------------------------------------------------------
(* Retention.                                                              *)

\* The task wakes and fixes before_ms for both deletes.
PurgeStarts ==
  /\ purge.next = "tick"
  /\ purge' = [next |-> "snapshots", before |-> now - Retain]
  /\ UNCHANGED <<now, offset, streamVars, registryVars, due, tables>>

\* Variant: the boundary is deleted too.
OldUpTo(ts) == ts <= purge.before

\* The WHERE of both deletes.
Old(ts) == ts < purge.before

\* cleanup_old_snapshots: the first delete ...
SnapshotsPurged ==
  /\ purge.next = "snapshots"
  /\ snapshots' = {r \in snapshots : ~Old(r.ts)}
  /\ purge' = [next |-> "probes", before |-> purge.before]
  /\ UNCHANGED <<now, offset, streamVars, registryVars, due, probes, stored>>

\* Variant: the second delete is forgotten.
ProbesKept ==
  /\ purge.next = "probes"
  /\ purge' = Asleep
  /\ UNCHANGED <<now, offset, streamVars, registryVars, due, tables>>

\* ... and the second.
ProbesPurged ==
  /\ purge.next = "probes"
  /\ probes' = {t \in probes : ~Old(t)}
  /\ purge' = Asleep
  /\ UNCHANGED <<now, offset, streamVars, registryVars, due, snapshots, stored>>

\* Variant: an error ends the task.
PurgeEnds ==
  /\ purge.next # "tick"
  /\ purge' = [purge EXCEPT !.next = "ended"]
  /\ UNCHANGED <<now, offset, streamVars, registryVars, due, tables>>

\* Either delete fails, carried out or not: the other one is not tried, the
\* error is logged and the task waits for its next tick.
PurgeFails ==
  /\ purge.next # "tick"
  /\ \/ UNCHANGED <<snapshots, probes>>
     \/ /\ purge.next = "snapshots"
        /\ snapshots' = {r \in snapshots : ~Old(r.ts)}
        /\ UNCHANGED probes
     \/ /\ purge.next = "probes"
        /\ probes' = {t \in probes : ~Old(t)}
        /\ UNCHANGED snapshots
  /\ purge' = Asleep
  /\ UNCHANGED <<now, offset, streamVars, registryVars, due, stored>>

\* get_snapshots: what a history request may choose its newest rows from.
get_snapshots(from_ms, to_ms) == {r \in snapshots : from_ms <= r.ts /\ r.ts <= to_ms}

\* get_node_history for a range.
get_node_history(range) == get_snapshots(now - range, now)

-----------------------------------------------------------------------------
\* Time passes, but not over a heartbeat or a scan that must have happened.
Tick ==
  /\ now < MaxTime
  /\ now < due + Late
  /\ up => now < beat + MaxDelay
  /\ now' = now + 1
  /\ UNCHANGED <<offset, streamVars, registryVars, due, tables, purge>>

Next ==
  \/ Connect \/ Disconnect
  \/ HeartbeatReceived \/ StatsReceived \/ ProbeReceived
  \/ CheckerScans
  \/ PurgeStarts \/ SnapshotsPurged \/ ProbesPurged \/ PurgeFails
  \/ Tick

Spec == Init /\ [][Next]_vars

\* The clean-up task wakes again and again, and the database does not fail
\* every time.
Fairness ==
  /\ WF_vars(PurgeStarts)
  /\ SF_vars(SnapshotsPurged)
  /\ SF_vars(ProbesPurged)

FairSpec == Spec /\ Fairness

-----------------------------------------------------------------------------
(* Properties.                                                             *)

\* How far the clock of an admitted agent can be behind and ahead: the
\* comparison of whole seconds admits almost a second more than the limit,
\* and a request that took long hides as much of an advance.
BehindMax == (MAX_CLOCK_SKEW + 1) * Second - 1
AheadMax == (MAX_CLOCK_SKEW + 1) * Second - 1 + MaxDelay

\* Whatever the offset of its clock, a node is not shown online for longer than
\* this after its last message: the timeout, the advance that authentication
\* admits, and one late period of the checker.
DetectionBound ==
  status = "online" => now - heard <= OfflineAfter + AheadMax + CheckEvery + Late

\* A streaming node is not marked offline, as long as the heartbeat period,
\* the transport delay, the age of its snapshots and the lag of its clock fit
\* into the timeout together: a held back snapshot moves last_seen backwards.
StreamingStaysOnline ==
  [][up /\ heardHere /\ status = "online" /\ status' = "offline"
       => HeartbeatEvery + MaxDelay + MaxAge - offset > OfflineAfter]_vars

\* Every stored snapshot is in the history of the full retention time from
\* AheadMax after its collection until BehindMax before that time is over: the
\* purge and the query, both by the agent's timestamps, leave no gap at their
\* common boundary, whatever deletes fail in between.  (A request still takes
\* only the newest 1000 rows of it, or fewer if it says so.)
HistoryComplete ==
  \A r \in stored :
    AheadMax <= now - r.at /\ now - r.at <= Retain - BehindMax
      => r \in get_node_history(Retain)

\* A row of time t, a snapshot collected or a probe result received then, is
\* past the retention time and still there.
Overdue(t) ==
  \/ \E r \in snapshots : r.at = t /\ r.ts < now - Retain
  \/ t \in probes /\ t < now - Retain

\* No row stays past the retention time: each overdue row is deleted in the end,
\* although the first delete's failure skips the second and other rows come and
\* expire meanwhile.  The clock does not go back and a deleted row does not come
\* back: []<>~Overdue(t) is what Overdue(t) ~> deleted says.  (Rows of times
\* outside this range do not expire by MaxTime.)
ExpiredArePurged ==
  \A t \in -MaxAge .. MaxTime - Retain + BehindMax : []<>~Overdue(t)
=============================================================================
