----------------------------- MODULE Collector -----------------------------
(***************************************************************************)
(* SystemCollector (pulse-agent/src/collector.rs) and the loop that drives *)
(* it (collection_loop of main.rs).  A collection reads eight files in a   *)
(* fixed order and ends at the first one that cannot be read; three of the *)
(* readers keep the counters they saw, and the time of a collection is     *)
(* kept only when all eight succeed.  The kernel goes on counting between  *)
(* two readers.                                                            *)
(*                                                                         *)
(* Counters only grow, except that an interface may return with its        *)
(* counter at zero and a disk may leave.  rx and tx, and read and written  *)
(* sectors, are treated alike: one counter stands for each pair.  A CPU    *)
(* line is its active and its idle jiffies, as active() and total() add    *)
(* them up.  A clock unit is the floor of the elapsed time, 1 ms.          *)
(***************************************************************************)
EXTENDS Integers, FiniteSets

CONSTANTS
  Ifaces,         \* network interfaces other than lo
  Second,         \* clock units in a second; 1000 ms
  Intervals,      \* collection intervals the agent is ever told
  MaxWork,        \* bound: steps of the kernel's counters
  MaxTime         \* bound: clock units

ASSUME CollectorAssumption ==
  /\ IsFiniteSet(Ifaces)
  /\ Second \in Nat \ {0}
  /\ Intervals \subseteq Nat
  /\ MaxWork \in Nat
  /\ MaxTime \in Nat

\* Option::None of a counter or a time, of CpuJiffies, and of a reading.
None == -1
NoJiffies == [active |-> None, idle |-> None]
NoReading == [count |-> None, at |-> None]

VARIABLES
  now,        \* Instant::now
  work,       \* steps the counters have made
  net,        \* byte counter of each interface
  listed,     \* interfaces /proc/net/dev lists
  sectors,    \* sectors, summed over the disks /proc/diskstats lists
  jiffies,    \* the cpu line of /proc/stat
  interval,   \* the shared interval
  wake,       \* end of collection_loop's sleep
  reader,     \* the next reader of the running collection, or "sleep"
  started,    \* local now of the running collection
  elapsed,    \* local elapsed_secs, in clock units
  prev_cpu, prev_net, prev_disk, prev_time,
  cpu_percent, net_rate, disk_rate,  \* the sample under construction
  seen        \* history: what the readers last saw, and whether the last
              \* collection succeeded

kernelVars == <<work, net, listed, sectors, jiffies>>
loopVars == <<interval, wake>>
prevVars == <<prev_cpu, prev_net, prev_disk, prev_time>>
sampleVars == <<cpu_percent, net_rate, disk_rate>>
vars == <<now, kernelVars, loopVars, reader, started, elapsed, prevVars,
          sampleVars, seen>>

Readers == {"cpu", "meminfo", "loadavg", "net_dev", "diskstats",
            "connections", "uptime", "temperatures"}

TypeOK ==
  /\ now \in 0 .. MaxTime
  /\ work \in 0 .. MaxWork
  /\ net \in [Ifaces -> 0 .. MaxWork]
  /\ listed \subseteq Ifaces
  /\ sectors \in 0 .. MaxWork
  /\ jiffies \in [active : 0 .. MaxWork, idle : 0 .. MaxWork]
  /\ interval \in Intervals
  /\ reader \in Readers \cup {"sleep"}
  /\ elapsed >= 1
  /\ cpu_percent \in 0 .. 100
  /\ net_rate \in [Ifaces -> Nat]
  /\ disk_rate \in Nat

Init ==
  /\ now = 0
  /\ work = 0
  /\ net = [i \in Ifaces |-> 0]
  /\ listed = Ifaces
  /\ sectors = 0
  /\ jiffies = [active |-> 0, idle |-> 0]
  /\ interval \in Intervals
  /\ wake = interval
  /\ reader = "sleep"
  /\ started = 0
  /\ elapsed = Second
  /\ prev_cpu = NoJiffies
  /\ prev_net = [i \in Ifaces |-> None]
  /\ prev_disk = None
  /\ prev_time = None
  /\ cpu_percent = 0
  /\ net_rate = [i \in Ifaces |-> 0]
  /\ disk_rate = 0
  /\ seen = [cpu |-> NoJiffies, net |-> [i \in Ifaces |-> NoReading],
             disk |-> NoReading,
             listed |-> {}, ok |-> FALSE]

-----------------------------------------------------------------------------
(* The kernel and the clock.                                               *)

Works ==
  /\ work < MaxWork
  /\ work' = work + 1
  /\ UNCHANGED <<now, loopVars, reader, started, elapsed, prevVars, sampleVars, seen>>

PacketsPass ==
  /\ Works
  /\ \E i \in listed : net' = [net EXCEPT ![i] = @ + 1]
  /\ UNCHANGED <<listed, sectors, jiffies>>

\* ... or a disk leaves, and takes its part out of the sum.
DiskWorks ==
  /\ Works
  /\ \/ sectors' = sectors + 1
     \/ sectors > 0 /\ sectors' = 0
  /\ UNCHANGED <<net, listed, jiffies>>

CpuWorks ==
  /\ Works
  /\ \E f \in {"active", "idle"} : jiffies' = [jiffies EXCEPT ![f] = @ + 1]
  /\ UNCHANGED <<net, listed, sectors>>

\* An interface is taken away, or comes back with its counter or a new one.
IfaceChanges ==
  /\ Works
  /\ \E i \in Ifaces :
       \/ listed' = listed \ {i} /\ i \in listed /\ net' = net
       \/ /\ i \notin listed
          /\ listed' = listed \cup {i}
          /\ \E c \in {0, net[i]} : net' = [net EXCEPT ![i] = c]
  /\ UNCHANGED <<sectors, jiffies>>

ClockTicks ==
  /\ now < MaxTime
  /\ now' = now + 1
  /\ UNCHANGED <<kernelVars, loopVars, reader, started, elapsed, prevVars,
                 sampleVars, seen>>

-----------------------------------------------------------------------------
(* collection_loop.                                                        *)

\* A ConfigUpdate stores the interval; the sleep in progress keeps the old.
ConfigUpdate ==
  /\ \E ms \in Intervals : interval' = ms
  /\ UNCHANGED <<now, kernelVars, wake, reader, started, elapsed, prevVars,
                 sampleVars, seen>>

\* collect returns and its locals are gone; the loop loads the interval and
\* sleeps again.
SleepAgain ==
  /\ reader' = "sleep"
  /\ wake' = now + interval
  /\ started' = 0
  /\ elapsed' = Second
  /\ cpu_percent' = 0
  /\ net_rate' = [i \in Ifaces |-> 0]
  /\ disk_rate' = 0
  /\ UNCHANGED <<now, kernelVars, interval>>

\* A reader's `?`: the collection ends, and the loop logs it.  Readers that
\* ran before keep what they stored.
CollectFails ==
  /\ SleepAgain
  /\ seen' = [seen EXCEPT !.ok = FALSE]
  /\ UNCHANGED prevVars

\* Variant: no floor under the elapsed time.
ElapsedUnfloored(t, prev) == IF prev = None THEN Second ELSE t - prev

Elapsed(t, prev) ==
  LET e == IF prev = None THEN Second ELSE t - prev
  IN  IF e < 1 THEN 1 ELSE e

\* Variant: the collection's time is kept as soon as it starts.
CollectKeepsTime ==
  /\ reader = "sleep"
  /\ now >= wake
  /\ reader' = "cpu"
  /\ started' = now
  /\ elapsed' = Elapsed(now, prev_time)
  /\ prev_time' = now
  /\ UNCHANGED <<now, kernelVars, loopVars, prev_cpu, prev_net, prev_disk,
                 sampleVars, seen>>

\* The sleep is over: collect takes the time and the time since prev_time.
CollectStarts ==
  /\ reader = "sleep"
  /\ now >= wake
  /\ reader' = "cpu"
  /\ started' = now
  /\ elapsed' = Elapsed(now, prev_time)
  /\ UNCHANGED <<now, kernelVars, loopVars, prevVars, sampleVars, seen>>

-----------------------------------------------------------------------------
(* The readers.                                                            *)

Minus(a, b) == IF a < b THEN 0 ELSE a - b          \* saturating_sub

Total(j) == j.active + j.idle

\* Variant: the share of the idle jiffies is not part of the total.
PercentOfActive(prev, curr) ==
  LET total == Minus(curr.idle, prev.idle)
  IN  IF total = 0 THEN 0 ELSE (100 * Minus(curr.active, prev.active)) \div total

compute_cpu_percent(prev, curr) ==
  LET total == Minus(Total(curr), Total(prev))
  IN  IF total = 0 THEN 0 ELSE (100 * Minus(curr.active, prev.active)) \div total

\* Bytes per second since the counter prev, cut to an integer.
Rate(curr, prev, bytes) ==
  IF prev = None THEN 0 ELSE (Minus(curr, prev) * bytes * Second) \div elapsed

SectorBytes == 512

\* /proc/stat.  The aggregate line and the lines of the cores are computed
\* alike; one of them is followed here, and a later one may fail to parse
\* when this one has been stored.
ReadCpu ==
  /\ reader = "cpu"
  /\ \/ /\ reader' = "meminfo"
        /\ cpu_percent' = IF prev_cpu = NoJiffies THEN 0
                          ELSE compute_cpu_percent(prev_cpu, jiffies)
        /\ prev_cpu' = jiffies
        /\ seen' = [seen EXCEPT !.cpu = jiffies]
        /\ UNCHANGED <<now, kernelVars, loopVars, started, elapsed, prev_net,
                       prev_disk, prev_time, net_rate, disk_rate>>
     \/ /\ SleepAgain
        /\ prev_cpu' = jiffies
        /\ seen' = [seen EXCEPT !.cpu = jiffies, !.ok = FALSE]
        /\ UNCHANGED <<prev_net, prev_disk, prev_time>>
     \/ CollectFails

\* A reader without state of its own: the next reader, or the end.
ReadsOnly(this, next) ==
  /\ reader = this
  /\ \/ /\ reader' = next
        /\ UNCHANGED <<now, kernelVars, loopVars, started, elapsed, prevVars,
                       sampleVars, seen>>
     \/ CollectFails

ReadMeminfo == ReadsOnly("meminfo", "loadavg")
ReadLoadavg == ReadsOnly("loadavg", "net_dev")

\* Every listed interface gets a rate and is remembered; an interface that
\* is gone stays in prev_net.
ReadNetDev ==
  /\ reader = "net_dev"
  /\ \/ /\ reader' = "diskstats"
        /\ net_rate' = [i \in Ifaces |-> IF i \in listed THEN Rate(net[i], prev_net[i], 1) ELSE 0]
        /\ prev_net' = [i \in Ifaces |-> IF i \in listed THEN net[i] ELSE prev_net[i]]
        /\ seen' = [seen EXCEPT !.listed = listed,
                      !.net = [i \in Ifaces |-> IF i \in listed
                                 THEN [count |-> net[i], at |-> started] ELSE @[i]]]
        /\ UNCHANGED <<now, kernelVars, loopVars, started, elapsed, prev_cpu,
                       prev_disk, prev_time, cpu_percent, disk_rate>>
     \/ CollectFails

ReadDiskstats ==
  /\ reader = "diskstats"
  /\ \/ /\ reader' = "connections"
        /\ disk_rate' = Rate(sectors, prev_disk, SectorBytes)
        /\ prev_disk' = sectors
        /\ seen' = [seen EXCEPT !.disk = [count |-> sectors, at |-> started]]
        /\ UNCHANGED <<now, kernelVars, loopVars, started, elapsed, prev_cpu,
                       prev_net, prev_time, cpu_percent, net_rate>>
     \/ CollectFails

ReadConnections == ReadsOnly("connections", "uptime")
ReadUptime == ReadsOnly("uptime", "temperatures")

\* Variant: the sample is returned and its time is not kept.
TemperaturesEndSample ==
  /\ reader = "temperatures"
  /\ SleepAgain
  /\ seen' = [seen EXCEPT !.ok = TRUE]
  /\ UNCHANGED prevVars

\* The sensors never fail.  The time of the collection is kept and the
\* sample returned; Agent's CollectorPush follows it from here.
ReadTemperatures ==
  /\ reader = "temperatures"
  /\ SleepAgain
  /\ prev_time' = started
  /\ seen' = [seen EXCEPT !.ok = TRUE]
  /\ UNCHANGED <<prev_cpu, prev_net, prev_disk>>

-----------------------------------------------------------------------------
Kernel == PacketsPass \/ DiskWorks \/ CpuWorks \/ IfaceChanges

Collect ==
  \/ CollectStarts
  \/ ReadCpu \/ ReadMeminfo \/ ReadLoadavg \/ ReadNetDev
  \/ ReadDiskstats \/ ReadConnections \/ ReadUptime \/ ReadTemperatures

Next == Kernel \/ ClockTicks \/ ConfigUpdate \/ Collect

Spec == Init /\ [][Next]_vars

-----------------------------------------------------------------------------
(* Properties.                                                             *)

\* The time between the collections that last read a counter and read it now.
Gap(last) == IF started - last.at < 1 THEN 1 ELSE started - last.at

\* r is c bytes in the gap, cut to whole bytes per second.
IsRate(r, c, gap) == r * gap <= c * Second /\ c * Second < (r + 1) * gap

ReadsNet == reader = "net_dev" /\ reader' = "diskstats"
ReadsDisk == reader = "diskstats" /\ reader' = "connections"

\* "Computes delta rates for I/O metrics by retaining the previous sample"
\* (collector.rs): after a collection that succeeded, the rate of every
\* interface it listed and the disk rate are exactly the traffic between the
\* two samples over the time between them, with intervals of any length, zero
\* included, and whatever failed earlier.
RatesSpanTheSamples ==
  [][/\ ReadsNet /\ seen.ok =>
          \A i \in listed \cap seen.listed :
            IsRate(net_rate'[i], Minus(net[i], seen.net[i].count), Gap(seen.net[i]))
     /\ ReadsDisk /\ seen.ok =>
          IsRate(disk_rate', 512 * Minus(sectors, seen.disk.count), Gap(seen.disk))]_vars

\* Once a collection has succeeded, failed ones never make the next rates too
\* high: a reader that ran in a failed collection moved its counter on while
\* prev_time stayed, so the rate is at most the true one.  Before the first
\* success it may be too high, because collect then assumes a second; so may
\* the rate of an interface that left the list for a while.
FailuresNeverInflate ==
  [][prev_time # None =>
       /\ ReadsNet =>
            \A i \in listed \cap seen.listed :
              net_rate'[i] * Gap(seen.net[i])
                <= Minus(net[i], seen.net[i].count) * Second
       /\ ReadsDisk /\ seen.disk # NoReading =>
            disk_rate' * Gap(seen.disk)
              <= 512 * Minus(sectors, seen.disk.count) * Second]_vars

\* The CPU share is the active part of exactly the jiffies since /proc/stat was
\* last read, also by a collection that failed later on, and within 0 .. 100.
CpuShareSinceLastReading ==
  [][reader = "cpu" /\ reader' = "meminfo" /\ seen.cpu # NoJiffies =>
       LET total == Total(jiffies) - Total(seen.cpu)
           active == jiffies.active - seen.cpu.active
       IN  /\ cpu_percent' <= 100
           /\ cpu_percent' * total <= 100 * active
           /\ total > 0 => 100 * active < (cpu_percent' + 1) * total]_vars
=============================================================================
