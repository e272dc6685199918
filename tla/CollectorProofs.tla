-------------------------- MODULE CollectorProofs --------------------------
(***************************************************************************)
(* Proofs about Collector, for every set of interfaces, every interval and *)
(* every sequence of failures.                                             *)
(***************************************************************************)
EXTENDS Collector, TLAPS

Times == 0 .. MaxTime
Readings == [count : Nat, at : Times]
Jiffies == [active : Nat, idle : Nat]

\* A counter has counted at most the steps made, and the history is well
\* formed: an interface of the last list was read.
Counted ==
  /\ \A i \in Ifaces : net[i] <= work
  /\ sectors <= work /\ jiffies.active <= work /\ jiffies.idle <= work
  /\ elapsed \in Nat
  /\ started \in Times /\ prev_time \in Times \cup {None}
  /\ seen \in [cpu : Jiffies \cup {NoJiffies},
               net : [Ifaces -> Readings \cup {NoReading}],
               disk : Readings \cup {NoReading},
               listed : SUBSET Ifaces, ok : BOOLEAN]
  /\ \A i \in seen.listed : seen.net[i] \in Readings

\* The readers keep exactly what they saw, and jiffies never go back.
Kept ==
  /\ prev_cpu = seen.cpu
  /\ prev_net = [i \in Ifaces |-> seen.net[i].count]
  /\ prev_disk = seen.disk.count
  /\ seen.cpu.active <= jiffies.active /\ seen.cpu.idle <= jiffies.idle

\* The time of the latest complete collection is past, and the running one
\* spans the time since.
Spanned ==
  /\ prev_time <= now
  /\ reader # "sleep" => /\ prev_time <= started /\ started <= now
                         /\ elapsed = Elapsed(started, prev_time)

BeforeNet == {"sleep", "cpu", "meminfo", "loadavg", "net_dev"}
BeforeDisk == BeforeNet \cup {"diskstats"}

\* The running collection has read the interfaces, the disks, or it is still
\* the last one that counts; and that one is not older than the latest
\* complete one.
ReadAt(r, before) ==
  /\ prev_time <= r.at
  /\ reader \notin before => r.at = started
  /\ reader \in before /\ seen.ok => r.at = prev_time

NetReadAt == \A i \in seen.listed : ReadAt(seen.net[i], BeforeNet)

DiskReadAt ==
  /\ prev_time # None \/ reader \notin BeforeDisk => seen.disk # NoReading
  /\ seen.disk # NoReading => ReadAt(seen.disk, BeforeDisk)
  /\ seen.ok => prev_time # None

CInv == TypeOK /\ Counted /\ Kept /\ Spanned /\ NetReadAt /\ DiskReadAt

-----------------------------------------------------------------------------
(* Arithmetic.                                                             *)

\* A quotient, cut to an integer.
LEMMA Quotient ==
  ASSUME NEW a \in Nat, NEW b \in Nat \ {0}
  PROVE  LET q == a \div b
         IN  q \in Nat /\ q * b <= a /\ a < (q + 1) * b
<1> DEFINE q == a \div b
<1>1. q \in Int /\ b * q <= a /\ a < b * q + b
  OBVIOUS
<1>2. q >= 0
  OBVIOUS
<1> HIDE DEF q
<1>3. q * b = b * q /\ (q + 1) * b = b * q + b
  BY <1>1
<1> QED
  BY <1>1, <1>2, <1>3 DEF q

LEMMA Products ==
  ASSUME NEW a \in Nat, NEW b \in Nat, NEW c \in Nat
  PROVE  a * b \in Nat /\ (b <= c => a * b <= a * c)
OBVIOUS

LEMMA MinusType ==
  ASSUME NEW a \in Nat, NEW b \in Nat
  PROVE  Minus(a, b) \in Nat /\ (b <= a => Minus(a, b) = a - b)
BY DEF Minus

\* A rate is zero for a counter that was never read, and the quotient of what
\* was counted and the time elapsed for every other one.
LEMMA RateIs ==
  ASSUME NEW c \in Nat, NEW p \in Nat \cup {None}, NEW bytes \in Nat,
         elapsed \in Nat, elapsed >= 1
  PROVE  LET a == Minus(c, p) * bytes * Second
             r == Rate(c, p, bytes)
         IN  /\ r \in Nat
             /\ p \in Nat => /\ a \in Nat
                             /\ r * elapsed <= a /\ a < (r + 1) * elapsed
<1>1. CASE p = None
  BY <1>1 DEF Rate, None
<1>2. CASE p \in Nat
  <2> DEFINE a == Minus(c, p) * bytes * Second
  <2>1. Minus(c, p) \in Nat
    BY <1>2, MinusType
  <2>2. Minus(c, p) * bytes \in Nat
    BY <2>1, Products
  <2>3. a \in Nat
    BY <2>2, Products, CollectorAssumption
  <2>4. Rate(c, p, bytes) = a \div elapsed
    BY <1>2 DEF Rate, None
  <2> HIDE DEF a
  <2>5. PICK e \in Nat \ {0} : e = elapsed
    OBVIOUS
  <2>6. LET q == a \div e IN q \in Nat /\ q * e <= a /\ a < (q + 1) * e
    BY <2>3, Quotient, Zenon
  <2> QED
    BY <1>2, <2>3, <2>4, <2>5, <2>6 DEF a
<1> QED
  BY <1>1, <1>2

\* The CPU share of a later reading is a percentage, and exact.
LEMMA PercentIs ==
  ASSUME NEW p \in Jiffies, NEW c \in Jiffies, p.active <= c.active, p.idle <= c.idle
  PROVE  LET total == Total(c) - Total(p)
             active == c.active - p.active
             r == compute_cpu_percent(p, c)
         IN  /\ r \in 0 .. 100
             /\ r * total <= 100 * active
             /\ total > 0 => 100 * active < (r + 1) * total
<1> DEFINE total == Total(c) - Total(p)
           active == c.active - p.active
<1>1. p.active \in Nat /\ p.idle \in Nat /\ c.active \in Nat /\ c.idle \in Nat
  BY DEF Jiffies
<1>2. total \in Nat /\ active \in Nat /\ active <= total
  BY <1>1 DEF Total
<1>3. compute_cpu_percent(p, c) = IF total = 0 THEN 0 ELSE (100 * active) \div total
  <2>1. Total(p) \in Nat /\ Total(c) \in Nat /\ Total(p) <= Total(c)
    BY <1>1 DEF Total
  <2>2. Minus(Total(c), Total(p)) = total /\ Minus(c.active, p.active) = active
    BY <1>1, <2>1, MinusType
  <2> QED
    BY <2>2, Zenon DEF compute_cpu_percent
<1> HIDE DEF total, active
<1>4. CASE total = 0
  BY <1>2, <1>3, <1>4 DEF total, active
<1>5. CASE total # 0
  <2> DEFINE r == (100 * active) \div total
  <2>1. 100 * active \in Nat /\ total \in Nat \ {0}
    BY <1>2, <1>5
  <2>2. r \in Nat /\ r * total <= 100 * active /\ 100 * active < (r + 1) * total
    BY <2>1, Quotient, Zenon
  <2> HIDE DEF r
  <2>3. r <= 100
    <3>1. SUFFICES ASSUME r > 100 PROVE FALSE
      BY <2>2
    <3>2. total * 101 <= total * r
      BY <1>2, <2>2, <3>1, Products
    <3>3. total * r = r * total
      BY <1>2, <2>2
    <3> QED
      BY <1>2, <1>5, <2>2, <3>2, <3>3
  <2> QED
    BY <1>3, <1>5, <2>2, <2>3 DEF total, active, r
<1> QED
  BY <1>4, <1>5

-----------------------------------------------------------------------------
(* The invariant, action by action.                                        *)

\* Nothing is read yet when the agent starts.
LEMMA InitCInv == Init => CInv
<1> SUFFICES ASSUME Init PROVE CInv
  OBVIOUS
<1> USE CollectorAssumption DEF Init, None, NoReading, NoJiffies
<1>1. TypeOK
  BY DEF TypeOK, Readers
<1>2. Counted
  <2>1. /\ NoJiffies \in Jiffies \cup {NoJiffies} /\ NoReading \in Readings \cup {NoReading}
        /\ {} \in SUBSET Ifaces /\ FALSE \in BOOLEAN
    OBVIOUS
  <2>2. [i \in Ifaces |-> NoReading] \in [Ifaces -> Readings \cup {NoReading}]
    BY <2>1
  <2> QED
    BY <2>1, <2>2 DEF Counted, Times
<1>3. Kept
  BY DEF Kept
<1>4. Spanned /\ NetReadAt /\ DiskReadAt
  BY DEF Spanned, NetReadAt, DiskReadAt, ReadAt, BeforeDisk, BeforeNet
<1> QED
  BY <1>1, <1>2, <1>3, <1>4 DEF CInv

\* What the kernel counts grows with its steps, and the CPU's part only grows.
LEMMA KernelCounts ==
  ASSUME TypeOK, Counted, Kernel
  PROVE  /\ work' = work + 1 /\ work' \in 0 .. MaxWork
         /\ net' \in [Ifaces -> 0 .. MaxWork] /\ \A i \in Ifaces : net'[i] <= work'
         /\ listed' \subseteq Ifaces
         /\ sectors' \in 0 .. MaxWork /\ sectors' <= work'
         /\ jiffies' \in [active : 0 .. MaxWork, idle : 0 .. MaxWork]
         /\ jiffies'.active <= work' /\ jiffies'.idle <= work'
         /\ jiffies.active <= jiffies'.active /\ jiffies.idle <= jiffies'.idle
         /\ UNCHANGED <<now, loopVars, reader, started, elapsed, prevVars, sampleVars, seen>>
<1>1. /\ work' = work + 1 /\ work' \in 0 .. MaxWork
      /\ UNCHANGED <<now, loopVars, reader, started, elapsed, prevVars, sampleVars, seen>>
  BY CollectorAssumption DEF Kernel, PacketsPass, DiskWorks, CpuWorks, IfaceChanges, Works, TypeOK
<1>2. net' \in [Ifaces -> 0 .. MaxWork] /\ \A i \in Ifaces : net'[i] <= work'
  <2> USE CollectorAssumption DEF TypeOK, Counted
  <2>1. CASE net' = net
    BY <1>1, <2>1
  <2>2. ASSUME NEW i \in Ifaces, net' = [net EXCEPT ![i] = @ + 1]
        PROVE  net' \in [Ifaces -> 0 .. MaxWork] /\ \A k \in Ifaces : net'[k] <= work'
    <3>1. net[i] \in Nat /\ net[i] <= work /\ work \in Nat
      OBVIOUS
    <3>2. net[i] + 1 \in 0 .. MaxWork /\ net[i] + 1 <= work'
      BY <1>1, <3>1
    <3> QED
      BY <1>1, <2>2, <3>2
  <2>3. ASSUME NEW i \in Ifaces, NEW c \in {0, net[i]}, net' = [net EXCEPT ![i] = c]
        PROVE  net' \in [Ifaces -> 0 .. MaxWork] /\ \A k \in Ifaces : net'[k] <= work'
    <3>1. c \in 0 .. MaxWork /\ c <= work'
      BY <1>1
    <3> QED
      BY <1>1, <2>3, <3>1
  <2> QED
    BY <2>1, <2>2, <2>3 DEF Kernel, PacketsPass, DiskWorks, CpuWorks, IfaceChanges
<1>3. listed' \subseteq Ifaces
  BY DEF Kernel, PacketsPass, DiskWorks, CpuWorks, IfaceChanges, TypeOK
<1>4. sectors' \in 0 .. MaxWork /\ sectors' <= work'
  <2>1. sectors' \in {sectors, sectors + 1, 0}
    BY Zenon DEF Kernel, PacketsPass, DiskWorks, CpuWorks, IfaceChanges
  <2>2. sectors \in Nat /\ sectors <= work /\ work \in Nat
    BY DEF TypeOK, Counted
  <2> QED
    BY <1>1, <2>1, <2>2, CollectorAssumption
<1>5. /\ jiffies' \in [active : 0 .. MaxWork, idle : 0 .. MaxWork]
      /\ jiffies'.active <= work' /\ jiffies'.idle <= work'
      /\ jiffies.active <= jiffies'.active /\ jiffies.idle <= jiffies'.idle
  <2>1. /\ jiffies.active \in Nat /\ jiffies.active <= work
        /\ jiffies.idle \in Nat /\ jiffies.idle <= work /\ work \in Nat
        /\ jiffies \in [active : 0 .. MaxWork, idle : 0 .. MaxWork]
    BY DEF TypeOK, Counted
  <2>2. CASE jiffies' = jiffies
    BY <1>1, <2>1, <2>2
  <2>3. CASE jiffies' = [jiffies EXCEPT !.active = @ + 1]
    <3>1. jiffies'.active = jiffies.active + 1 /\ jiffies'.idle = jiffies.idle
      BY <2>1, <2>3
    <3>2. jiffies.active + 1 \in 0 .. MaxWork
      BY <1>1, <2>1, CollectorAssumption
    <3>3. jiffies' \in [active : 0 .. MaxWork, idle : 0 .. MaxWork]
      BY <2>1, <2>3, <3>2
    <3> QED
      BY <1>1, <2>1, <3>1, <3>3
  <2>4. CASE jiffies' = [jiffies EXCEPT !.idle = @ + 1]
    <3>1. jiffies'.idle = jiffies.idle + 1 /\ jiffies'.active = jiffies.active
      BY <2>1, <2>4
    <3>2. jiffies.idle + 1 \in 0 .. MaxWork
      BY <1>1, <2>1, CollectorAssumption
    <3>3. jiffies' \in [active : 0 .. MaxWork, idle : 0 .. MaxWork]
      BY <2>1, <2>4, <3>2
    <3> QED
      BY <1>1, <2>1, <3>1, <3>3
  <2> QED
    BY <2>2, <2>3, <2>4 DEF Kernel, PacketsPass, DiskWorks, CpuWorks, IfaceChanges
<1> QED
  BY <1>1, <1>2, <1>3, <1>4, <1>5, Zenon

LEMMA KernelStep ==
  ASSUME CInv, Kernel
  PROVE  CInv'
<1> TypeOK /\ Counted /\ Kept /\ Spanned /\ NetReadAt /\ DiskReadAt
  BY DEF CInv
<1>1. UNCHANGED <<now, loopVars, reader, started, elapsed, prevVars, sampleVars, seen>>
  BY KernelCounts
<1>2. TypeOK'
  BY <1>1, KernelCounts, Zenon DEF TypeOK, loopVars, sampleVars
<1>3. Counted'
  BY <1>1, KernelCounts, Zenon DEF Counted, prevVars
<1>4. Kept'
  <2>1. seen.cpu.active <= jiffies'.active /\ seen.cpu.idle <= jiffies'.idle
    <3>1. seen.cpu.active \in Int /\ seen.cpu.idle \in Int
      BY DEF Counted, Jiffies, NoJiffies, None
    <3>2. /\ jiffies.active \in Int /\ jiffies.idle \in Int
          /\ jiffies'.active \in Int /\ jiffies'.idle \in Int
      BY <1>2 DEF TypeOK
    <3> QED
      BY <3>1, <3>2, KernelCounts DEF Kept
  <2> QED
    BY <1>1, <2>1, Zenon DEF Kept, prevVars
<1>5. Spanned' /\ NetReadAt' /\ DiskReadAt'
  BY <1>1, Zenon DEF Spanned, NetReadAt, DiskReadAt, ReadAt, prevVars
<1> QED
  BY <1>2, <1>3, <1>4, <1>5 DEF CInv

\* Steps of the clock and of the interval.
LEMMA IdleStep ==
  ASSUME CInv, ClockTicks \/ ConfigUpdate \/ UNCHANGED vars
  PROVE  CInv'
<1> TypeOK /\ Counted /\ Kept /\ Spanned /\ NetReadAt /\ DiskReadAt
  BY DEF CInv
<1>1. UNCHANGED <<kernelVars, reader, started, elapsed, prevVars, sampleVars, seen>>
  BY Zenon DEF ClockTicks, ConfigUpdate, vars
<1>2. now' \in 0 .. MaxTime /\ now <= now' /\ interval' \in Intervals
  BY CollectorAssumption DEF ClockTicks, ConfigUpdate, vars, loopVars, TypeOK
<1>3. TypeOK'
  BY <1>1, <1>2, Zenon DEF TypeOK, kernelVars, sampleVars
<1>4. Counted' /\ Kept' /\ NetReadAt' /\ DiskReadAt'
  BY <1>1, Zenon DEF Counted, Kept, NetReadAt, DiskReadAt, ReadAt, kernelVars, prevVars
<1>5. Spanned'
  <2>1. now \in Int /\ now' \in Int /\ started \in Int /\ prev_time \in Int
    BY <1>2 DEF TypeOK, Counted, Times, None
  <2>2. UNCHANGED <<reader, started, elapsed, prev_time>>
    BY <1>1, Zenon DEF prevVars
  <2> QED
    BY <1>2, <2>1, <2>2 DEF Spanned
<1> QED
  BY <1>3, <1>4, <1>5 DEF CInv

\* A collection starts.
LEMMA StartStep ==
  ASSUME CInv, CollectStarts
  PROVE  CInv'
<1> TypeOK /\ Counted /\ Kept /\ Spanned /\ NetReadAt /\ DiskReadAt
  BY DEF CInv
<1>1. UNCHANGED <<now, kernelVars, loopVars, prevVars, sampleVars, seen>>
  BY DEF CollectStarts
<1>2. /\ reader = "sleep" /\ reader' = "cpu" /\ started' = now
      /\ elapsed' = Elapsed(now, prev_time)
  BY DEF CollectStarts
<1>3. now \in Times /\ now \in Int /\ prev_time \in Int /\ Second \in Nat \ {0}
  BY CollectorAssumption DEF TypeOK, Counted, Times, None
<1>4. elapsed' \in Nat /\ elapsed' >= 1
  BY <1>2, <1>3 DEF Elapsed
<1>5. TypeOK'
  <2>1. reader' \in Readers
    BY <1>2 DEF Readers
  <2> QED
    BY <1>1, <1>4, <2>1, Zenon DEF TypeOK, kernelVars, loopVars, sampleVars
<1>6. Counted' /\ Kept'
  BY <1>1, <1>2, <1>3, <1>4, Zenon DEF Counted, Kept, kernelVars, prevVars
<1>7. Spanned'
  <2>1. prev_time' = prev_time /\ now' = now
    BY <1>1, Zenon DEF prevVars
  <2> QED
    BY <1>2, <1>3, <2>1 DEF Spanned
<1>8. NetReadAt' /\ DiskReadAt'
  <2>1. /\ reader \in BeforeNet /\ reader' \in BeforeNet
        /\ reader \in BeforeDisk /\ reader' \in BeforeDisk
    BY <1>2 DEF BeforeNet, BeforeDisk
  <2> QED
    BY <1>1, <2>1, Zenon DEF NetReadAt, DiskReadAt, ReadAt, prevVars
<1> QED
  BY <1>5, <1>6, <1>7, <1>8 DEF CInv

\* A collection ends: its locals are gone.
LEMMA Ended ==
  ASSUME TypeOK, SleepAgain
  PROVE  TypeOK' /\ elapsed' \in Nat /\ started' \in Times
<1>1. /\ cpu_percent' \in 0 .. 100 /\ net_rate' \in [Ifaces -> Nat] /\ disk_rate' \in Nat
      /\ elapsed' \in Nat /\ elapsed' >= 1
  BY CollectorAssumption DEF SleepAgain
<1>2. started' \in Times
  BY CollectorAssumption DEF SleepAgain, Times
<1> QED
  BY <1>1, <1>2, Zenon DEF TypeOK, SleepAgain, kernelVars

\* A reader fails, the CPU's perhaps after it has stored what it saw.
LEMMA FailStep ==
  ASSUME CInv, SleepAgain, UNCHANGED <<prev_net, prev_disk, prev_time>>,
         \/ prev_cpu' = prev_cpu /\ seen' = [seen EXCEPT !.ok = FALSE]
         \/ prev_cpu' = jiffies /\ seen' = [seen EXCEPT !.cpu = jiffies, !.ok = FALSE]
  PROVE  CInv'
<1> TypeOK /\ Counted /\ Kept /\ Spanned /\ NetReadAt /\ DiskReadAt
  BY DEF CInv
<1>1. TypeOK' /\ elapsed' \in Nat /\ started' \in Times
  BY Ended
<1>2. UNCHANGED <<now, work, net, listed, sectors, jiffies>> /\ reader' = "sleep"
  BY Zenon DEF SleepAgain, kernelVars
<1>3. jiffies \in Jiffies /\ jiffies.active <= jiffies.active /\ jiffies.idle <= jiffies.idle
  BY DEF TypeOK, Jiffies
<1>4. /\ seen' \in [cpu : Jiffies \cup {NoJiffies}, net : [Ifaces -> Readings \cup {NoReading}],
                    disk : Readings \cup {NoReading}, listed : SUBSET Ifaces, ok : BOOLEAN]
      /\ seen'.net = seen.net /\ seen'.disk = seen.disk /\ seen'.listed = seen.listed
      /\ seen'.ok = FALSE /\ seen'.cpu \in {seen.cpu, jiffies} /\ prev_cpu' = seen'.cpu
  BY <1>3, Zenon DEF Counted, Kept
<1>5. Counted'
  BY <1>1, <1>2, <1>4, Zenon DEF Counted
<1>6. Kept'
  BY <1>2, <1>3, <1>4, Zenon DEF Kept
<1>7. Spanned' /\ NetReadAt' /\ DiskReadAt'
  <2>1. reader' \in BeforeNet /\ reader' \in BeforeDisk
    BY <1>2 DEF BeforeNet, BeforeDisk
  <2> QED
    BY <1>2, <1>4, <2>1, Zenon DEF Spanned, NetReadAt, DiskReadAt, ReadAt
<1> QED
  BY <1>1, <1>5, <1>6, <1>7 DEF CInv

\* The last reader: the time of the collection is kept.
LEMMA TemperaturesStep ==
  ASSUME CInv, ReadTemperatures
  PROVE  CInv'
<1> TypeOK /\ Counted /\ Kept /\ Spanned /\ NetReadAt /\ DiskReadAt
  BY DEF CInv
<1>1. TypeOK' /\ elapsed' \in Nat /\ started' \in Times
  BY Ended DEF ReadTemperatures
<1>2. /\ UNCHANGED <<now, work, net, listed, sectors, jiffies, prev_cpu, prev_net, prev_disk>>
      /\ reader = "temperatures" /\ reader' = "sleep" /\ prev_time' = started
  BY Zenon DEF ReadTemperatures, SleepAgain, kernelVars
<1>3. /\ seen' \in [cpu : Jiffies \cup {NoJiffies}, net : [Ifaces -> Readings \cup {NoReading}],
                    disk : Readings \cup {NoReading}, listed : SUBSET Ifaces, ok : BOOLEAN]
      /\ seen'.net = seen.net /\ seen'.disk = seen.disk /\ seen'.listed = seen.listed
      /\ seen'.cpu = seen.cpu
  BY Zenon DEF ReadTemperatures, Counted
<1>4. Counted'
  BY <1>1, <1>2, <1>3, Zenon DEF Counted
<1>5. Kept'
  BY <1>2, <1>3, Zenon DEF Kept
<1>6. Spanned'
  BY <1>2 DEF Spanned
<1>7. NetReadAt' /\ DiskReadAt'
  <2>1. /\ reader' \in BeforeNet /\ reader' \in BeforeDisk
        /\ reader \notin BeforeNet /\ reader \notin BeforeDisk
    BY <1>2 DEF BeforeNet, BeforeDisk
  <2>2. prev_time' # None /\ prev_time' \in Int /\ prev_time' <= prev_time'
    BY <1>2 DEF Counted, Times, None
  <2>3. seen.disk # NoReading /\ seen.disk.at = started
    BY <2>1, Zenon DEF DiskReadAt, ReadAt
  <2>4. \A i \in seen.listed : seen.net[i].at = started
    BY <2>1, Zenon DEF NetReadAt, ReadAt
  <2> QED
    BY <1>2, <1>3, <2>1, <2>2, <2>3, <2>4, Zenon DEF NetReadAt, DiskReadAt, ReadAt
<1> QED
  BY <1>1, <1>4, <1>5, <1>6, <1>7 DEF CInv

\* A reader that stores nothing, and not the first one after the interfaces or
\* the disks.
LEMMA ReadOnlyStep ==
  ASSUME CInv,
         UNCHANGED <<now, kernelVars, loopVars, started, elapsed, prevVars, sampleVars, seen>>,
         reader' \in Readers, reader # "sleep",
         reader \in BeforeNet <=> reader' \in BeforeNet,
         reader \in BeforeDisk <=> reader' \in BeforeDisk
  PROVE  CInv'
<1> TypeOK /\ Counted /\ Kept /\ Spanned /\ NetReadAt /\ DiskReadAt
  BY DEF CInv
<1>1. TypeOK' /\ Counted' /\ Kept'
  BY Zenon DEF TypeOK, Counted, Kept, kernelVars, loopVars, prevVars, sampleVars
<1>2. Spanned' /\ NetReadAt' /\ DiskReadAt'
  BY Zenon DEF Spanned, NetReadAt, DiskReadAt, ReadAt, prevVars
<1> QED
  BY <1>1, <1>2 DEF CInv

\* /proc/stat is read.
LEMMA CpuStep ==
  ASSUME CInv, ReadCpu, reader' = "meminfo"
  PROVE  CInv'
<1> TypeOK /\ Counted /\ Kept /\ Spanned /\ NetReadAt /\ DiskReadAt
  BY DEF CInv
<1>1. /\ reader = "cpu" /\ prev_cpu' = jiffies /\ seen' = [seen EXCEPT !.cpu = jiffies]
      /\ cpu_percent' = IF prev_cpu = NoJiffies THEN 0 ELSE compute_cpu_percent(prev_cpu, jiffies)
      /\ UNCHANGED <<now, kernelVars, loopVars, started, elapsed, prev_net,
                     prev_disk, prev_time, net_rate, disk_rate>>
  BY DEF ReadCpu, SleepAgain, CollectFails
<1>2. jiffies \in Jiffies /\ jiffies.active <= jiffies.active /\ jiffies.idle <= jiffies.idle
  BY DEF TypeOK, Jiffies
<1>3. cpu_percent' \in 0 .. 100
  <2>1. CASE prev_cpu = NoJiffies
    BY <1>1, <2>1
  <2>2. CASE prev_cpu # NoJiffies
    <3>1. PICK p \in Jiffies : p = prev_cpu
      BY <2>2 DEF Counted, Kept
    <3>2. PICK c \in Jiffies : c = jiffies
      BY <1>2
    <3>3. p.active <= c.active /\ p.idle <= c.idle
      BY <3>1, <3>2 DEF Kept
    <3>4. compute_cpu_percent(p, c) \in 0 .. 100
      BY <3>3, PercentIs
    <3> QED
      BY <1>1, <2>2, <3>1, <3>2, <3>4
  <2> QED
    BY <2>1, <2>2
<1>4. /\ seen' \in [cpu : Jiffies \cup {NoJiffies}, net : [Ifaces -> Readings \cup {NoReading}],
                    disk : Readings \cup {NoReading}, listed : SUBSET Ifaces, ok : BOOLEAN]
      /\ seen'.net = seen.net /\ seen'.disk = seen.disk /\ seen'.listed = seen.listed
      /\ seen'.ok = seen.ok /\ seen'.cpu = jiffies
  BY <1>1, <1>2, Zenon DEF Counted
<1>5. reader' \in Readers
  BY DEF Readers
<1>6. TypeOK' /\ Counted'
  BY <1>1, <1>3, <1>4, <1>5, Zenon DEF TypeOK, Counted, kernelVars, loopVars
<1>7. Kept'
  BY <1>1, <1>2, <1>4, Zenon DEF Kept, kernelVars
<1>8. Spanned' /\ NetReadAt' /\ DiskReadAt'
  <2>1. /\ reader \in BeforeNet /\ reader \in BeforeDisk /\ reader # "sleep"
        /\ reader' \in BeforeNet /\ reader' \in BeforeDisk
    BY <1>1 DEF BeforeNet, BeforeDisk
  <2> QED
    BY <1>1, <1>4, <2>1, Zenon DEF Spanned, NetReadAt, DiskReadAt, ReadAt
<1> QED
  BY <1>6, <1>7, <1>8 DEF CInv

\* /proc/net/dev is read.
LEMMA NetStep ==
  ASSUME CInv, ReadNetDev, reader' = "diskstats"
  PROVE  CInv'
<1> TypeOK /\ Counted /\ Kept /\ Spanned /\ NetReadAt /\ DiskReadAt
  BY DEF CInv
<1> DEFINE N == [i \in Ifaces |-> IF i \in listed THEN [count |-> net[i], at |-> started]
                                  ELSE seen.net[i]]
<1>1. /\ reader = "net_dev"
      /\ net_rate' = [i \in Ifaces |-> IF i \in listed THEN Rate(net[i], prev_net[i], 1) ELSE 0]
      /\ prev_net' = [i \in Ifaces |-> IF i \in listed THEN net[i] ELSE prev_net[i]]
      /\ seen' = [seen EXCEPT !.listed = listed, !.net = N]
      /\ UNCHANGED <<now, kernelVars, loopVars, started, elapsed, prev_cpu,
                     prev_disk, prev_time, cpu_percent, disk_rate>>
  BY DEF ReadNetDev, SleepAgain, CollectFails
<1>2. \A i \in Ifaces : net[i] \in Nat /\ prev_net[i] \in Nat \cup {None}
  BY DEF TypeOK, Counted, Kept, Readings, NoReading
<1>3. net_rate' \in [Ifaces -> Nat]
  <2>1. ASSUME NEW i \in Ifaces PROVE Rate(net[i], prev_net[i], 1) \in Nat
    <3>1. PICK c \in Nat : c = net[i]
      BY <1>2
    <3>2. PICK p \in Nat \cup {None} : p = prev_net[i]
      BY <1>2, Zenon
    <3>3. 1 \in Nat /\ elapsed \in Nat /\ elapsed >= 1
      BY DEF TypeOK, Counted
    <3>4. Rate(c, p, 1) \in Nat
      BY <3>3, RateIs, Zenon
    <3> QED
      BY <3>1, <3>2, <3>4
  <2> QED
    BY <1>1, <2>1
<1>4. /\ \A i \in listed : N[i] \in Readings /\ N[i].count = net[i] /\ N[i].at = started
      /\ \A i \in Ifaces \ listed : N[i] = seen.net[i]
      /\ N \in [Ifaces -> Readings \cup {NoReading}]
  <2>1. ASSUME NEW i \in Ifaces
        PROVE  [count |-> net[i], at |-> started] \in Readings
    BY <1>2 DEF Counted, Readings
  <2>2. listed \subseteq Ifaces /\ seen.net \in [Ifaces -> Readings \cup {NoReading}]
    BY Zenon DEF TypeOK, Counted
  <2> QED
    BY <2>1, <2>2
<1> HIDE DEF N
<1>5. /\ seen' \in [cpu : Jiffies \cup {NoJiffies}, net : [Ifaces -> Readings \cup {NoReading}],
                    disk : Readings \cup {NoReading}, listed : SUBSET Ifaces, ok : BOOLEAN]
      /\ seen'.net = N /\ seen'.disk = seen.disk /\ seen'.listed = listed
      /\ seen'.ok = seen.ok /\ seen'.cpu = seen.cpu
  <2>1. listed \in SUBSET Ifaces
    BY DEF TypeOK
  <2> QED
    BY <1>1, <1>4, <2>1, Zenon DEF Counted
<1>6. reader' \in Readers
  BY DEF Readers
<1>7. TypeOK' /\ Counted'
  <2>1. \A i \in seen'.listed : seen'.net[i] \in Readings
    BY <1>4, <1>5, Zenon
  <2> QED
    BY <1>1, <1>3, <1>5, <1>6, <2>1, Zenon DEF TypeOK, Counted, kernelVars, loopVars
<1>8. Kept'
  <2>1. prev_net' = [i \in Ifaces |-> N[i].count]
    BY <1>1, <1>4 DEF Kept
  <2> QED
    BY <1>1, <1>5, <2>1, Zenon DEF Kept, kernelVars
<1>9. Spanned' /\ NetReadAt' /\ DiskReadAt'
  <2>1. /\ reader \in BeforeDisk /\ reader # "sleep"
        /\ reader' \notin BeforeNet /\ reader' \in BeforeDisk
    BY <1>1 DEF BeforeNet, BeforeDisk
  <2>2. Spanned' /\ DiskReadAt'
    BY <1>1, <1>5, <2>1, Zenon DEF Spanned, DiskReadAt, ReadAt
  <2>3. prev_time <= started
    BY <2>1, Zenon DEF Spanned
  <2>4. NetReadAt'
    BY <1>1, <1>4, <1>5, <2>1, <2>3, Zenon DEF NetReadAt, ReadAt
  <2> QED
    BY <2>2, <2>4
<1> QED
  BY <1>7, <1>8, <1>9 DEF CInv

\* /proc/diskstats is read.
LEMMA DiskStep ==
  ASSUME CInv, ReadDiskstats, reader' = "connections"
  PROVE  CInv'
<1> TypeOK /\ Counted /\ Kept /\ Spanned /\ NetReadAt /\ DiskReadAt
  BY DEF CInv
<1> DEFINE R == [count |-> sectors, at |-> started]
<1>1. /\ reader = "diskstats" /\ disk_rate' = Rate(sectors, prev_disk, SectorBytes)
      /\ prev_disk' = sectors /\ seen' = [seen EXCEPT !.disk = R]
      /\ UNCHANGED <<now, kernelVars, loopVars, started, elapsed, prev_cpu,
                     prev_net, prev_time, cpu_percent, net_rate>>
  BY DEF ReadDiskstats, SleepAgain, CollectFails
<1>2. disk_rate' \in Nat
  <2>1. PICK c \in Nat : c = sectors
    BY DEF TypeOK
  <2>2. PICK p \in Nat \cup {None} : p = prev_disk
    BY DEF Counted, Kept, Readings, NoReading
  <2>3. SectorBytes \in Nat /\ elapsed \in Nat /\ elapsed >= 1
    BY DEF TypeOK, Counted, SectorBytes
  <2>4. Rate(c, p, SectorBytes) \in Nat
    BY <2>3, RateIs, Zenon
  <2> QED
    BY <1>1, <2>1, <2>2, <2>4
<1>3. R \in Readings /\ R # NoReading /\ R.count = sectors /\ R.at = started
  BY DEF TypeOK, Counted, Readings, NoReading, None
<1> HIDE DEF R
<1>4. /\ seen' \in [cpu : Jiffies \cup {NoJiffies}, net : [Ifaces -> Readings \cup {NoReading}],
                    disk : Readings \cup {NoReading}, listed : SUBSET Ifaces, ok : BOOLEAN]
      /\ seen'.net = seen.net /\ seen'.disk = R /\ seen'.listed = seen.listed
      /\ seen'.ok = seen.ok /\ seen'.cpu = seen.cpu
  BY <1>1, <1>3, Zenon DEF Counted
<1>5. reader' \in Readers
  BY DEF Readers
<1>6. TypeOK' /\ Counted'
  BY <1>1, <1>2, <1>4, <1>5, Zenon DEF TypeOK, Counted, kernelVars, loopVars
<1>7. Kept'
  BY <1>1, <1>3, <1>4, Zenon DEF Kept, kernelVars
<1>8. Spanned' /\ NetReadAt' /\ DiskReadAt'
  <2>1. /\ reader \notin BeforeNet /\ reader # "sleep"
        /\ reader' \notin BeforeNet /\ reader' \notin BeforeDisk
    BY <1>1 DEF BeforeNet, BeforeDisk
  <2>2. prev_time <= started
    BY <2>1, Zenon DEF Spanned
  <2> QED
    BY <1>1, <1>3, <1>4, <2>1, <2>2, Zenon DEF Spanned, NetReadAt, DiskReadAt, ReadAt
<1> QED
  BY <1>6, <1>7, <1>8 DEF CInv

\* Every step keeps the invariant.
LEMMA NextCInv == CInv /\ [Next]_vars => CInv'
<1> SUFFICES ASSUME CInv, [Next]_vars PROVE CInv'
  OBVIOUS
<1>1. CASE Kernel
  BY <1>1, KernelStep
<1>2. CASE ClockTicks \/ ConfigUpdate \/ UNCHANGED vars
  BY <1>2, IdleStep
<1>3. CASE CollectStarts
  BY <1>3, StartStep
<1>4. CASE CollectFails
  BY <1>4, FailStep DEF CollectFails, prevVars
<1>5. CASE ReadCpu
  <2>1. CASE /\ SleepAgain /\ prev_cpu' = jiffies
             /\ seen' = [seen EXCEPT !.cpu = jiffies, !.ok = FALSE]
             /\ UNCHANGED <<prev_net, prev_disk, prev_time>>
    BY <2>1, FailStep
  <2> QED
    BY <1>4, <1>5, <2>1, CpuStep DEF ReadCpu
<1>6. CASE ReadMeminfo \/ ReadLoadavg \/ ReadConnections \/ ReadUptime
  <2>1. CASE CollectFails
    BY <1>4, <2>1
  <2>2. CASE ~CollectFails
    <3>1. /\ UNCHANGED <<now, kernelVars, loopVars, started, elapsed, prevVars,
                         sampleVars, seen>>
          /\ \/ reader = "meminfo" /\ reader' = "loadavg"
             \/ reader = "loadavg" /\ reader' = "net_dev"
             \/ reader = "connections" /\ reader' = "uptime"
             \/ reader = "uptime" /\ reader' = "temperatures"
      BY <1>6, <2>2, Zenon DEF ReadMeminfo, ReadLoadavg, ReadConnections, ReadUptime, ReadsOnly
    <3>2. /\ reader' \in Readers /\ reader # "sleep"
          /\ reader \in BeforeNet <=> reader' \in BeforeNet
          /\ reader \in BeforeDisk <=> reader' \in BeforeDisk
      BY <3>1 DEF Readers, BeforeNet, BeforeDisk
    <3> QED
      BY <3>1, <3>2, ReadOnlyStep
  <2> QED
    BY <2>1, <2>2
<1>7. CASE ReadNetDev
  BY <1>4, <1>7, NetStep DEF ReadNetDev
<1>8. CASE ReadDiskstats
  BY <1>4, <1>8, DiskStep DEF ReadDiskstats
<1>9. CASE ReadTemperatures
  BY <1>9, TemperaturesStep
<1> QED
  BY <1>1, <1>2, <1>3, <1>5, <1>6, <1>7, <1>8, <1>9 DEF Next, Collect

-----------------------------------------------------------------------------
(* The theorems.                                                           *)

LEMMA Invariance == Spec => []CInv
  BY InitCInv, NextCInv, PTL DEF Spec

\* The collector's state is always well typed: a CPU share is a percentage and
\* no time span is zero, whatever fails and however short the interval.
THEOREM TypeCorrect == Spec => []TypeOK
<1>1. CInv => TypeOK
  BY DEF CInv
<1> QED
  BY <1>1, Invariance, PTL

\* The rate of a counter that was read at r spans the time since r exactly when
\* r belongs to the latest complete collection, and more if that one is older.
LEMMA RateSpans ==
  ASSUME NEW r \in Readings, NEW c \in Nat, NEW bytes \in Nat,
         NEW e \in Nat \ {0}, NEW t \in Times, NEW p \in Times, e = elapsed,
         t = started, p <= r.at, elapsed = Elapsed(started, p)
  PROVE  LET rate == Rate(c, r.count, bytes)
             n == Minus(c, r.count) * bytes
         IN  /\ n \in Nat
             /\ rate * Gap(r) <= n * Second
             /\ r.at = p => IsRate(rate, n, Gap(r))
<1> DEFINE rate == Rate(c, r.count, bytes)
           n == Minus(c, r.count) * bytes
           g == Gap(r)
<1>1. r.count \in Nat /\ r.at \in Nat /\ t \in Nat /\ p \in Nat
  BY CollectorAssumption DEF Readings, Times
<1>2. n \in Nat
  BY <1>1, MinusType, Products, Zenon
<1>3. rate \in Nat /\ rate * e <= n * Second /\ n * Second < (rate + 1) * e
  <2>1. PICK k \in Nat : k = r.count
    BY <1>1
  <2>2. e >= 1 /\ elapsed \in Nat
    OBVIOUS
  <2> QED
    BY <2>1, <2>2, RateIs, Zenon
<1>4. g \in Nat /\ g <= e /\ (r.at = p => g = e)
  BY <1>1 DEF Gap, Elapsed, None
<1> HIDE DEF rate, n, g
<1>5. rate * g <= rate * e
  BY <1>3, <1>4, Products
<1>6. rate * g <= n * Second
  <2>1. rate * g \in Int /\ rate * e \in Int /\ n * Second \in Int
    BY <1>2, <1>3, <1>4, Products, CollectorAssumption
  <2> QED
    BY <1>3, <1>5, <2>1
<1>7. r.at = p => IsRate(rate, n, g)
  BY <1>3, <1>4 DEF IsRate
<1> QED
  BY <1>2, <1>6, <1>7 DEF rate, n, g

\* What the reader of the interfaces computes.
LEMMA NetRate ==
  ASSUME CInv, Next, ReadsNet, NEW i \in listed \cap seen.listed, prev_time # None
  PROVE  LET last == seen.net[i]
             n == Minus(net[i], last.count)
         IN  /\ net_rate'[i] * Gap(last) <= n * Second
             /\ seen.ok => IsRate(net_rate'[i], n, Gap(last))
<1> TypeOK /\ Counted /\ Kept /\ Spanned /\ NetReadAt
  BY DEF CInv
<1>1. reader = "net_dev" /\ reader' = "diskstats"
  BY DEF ReadsNet
<1>2. ReadNetDev
  BY <1>1 DEF Next, Collect, Kernel, PacketsPass, DiskWorks, CpuWorks, IfaceChanges, Works,
     ClockTicks, ConfigUpdate, CollectStarts, ReadCpu, ReadMeminfo, ReadLoadavg, ReadsOnly,
     ReadDiskstats, ReadConnections, ReadUptime, ReadTemperatures
<1>3. i \in Ifaces /\ seen.net[i] \in Readings
  BY DEF TypeOK, Counted
<1>4. net_rate'[i] = Rate(net[i], seen.net[i].count, 1)
  BY <1>1, <1>2, <1>3 DEF ReadNetDev, CollectFails, SleepAgain, Kept
<1>5. PICK r \in Readings : r = seen.net[i]
  BY <1>3
<1>6. PICK c \in Nat : c = net[i]
  BY <1>3 DEF TypeOK
<1>7. PICK p \in Times : p = prev_time
  BY DEF Counted
<1>8. PICK e \in Nat \ {0} : e = elapsed
  BY DEF TypeOK, Counted
<1>9. PICK t \in Times : t = started
  BY DEF Counted
<1>10. p <= r.at /\ elapsed = Elapsed(started, p) /\ (seen.ok => r.at = p)
  <2>1. reader # "sleep" /\ reader \in BeforeNet
    BY <1>1 DEF BeforeNet
  <2> QED
    BY <1>5, <1>7, <2>1, Zenon DEF Spanned, NetReadAt, ReadAt
<1>11. LET n == Minus(c, r.count) * 1
       IN  /\ Rate(c, r.count, 1) * Gap(r) <= n * Second
           /\ r.at = p => IsRate(Rate(c, r.count, 1), n, Gap(r))
  <2>1. 1 \in Nat
    OBVIOUS
  <2> QED
    BY <1>8, <1>9, <1>10, <2>1, RateSpans, Zenon
<1>12. Minus(c, r.count) * 1 = Minus(c, r.count)
  BY MinusType DEF Readings
<1> QED
  BY <1>4, <1>5, <1>6, <1>10, <1>11, <1>12, Zenon

\* What the reader of the disks computes.
LEMMA DiskRate ==
  ASSUME CInv, Next, ReadsDisk, prev_time # None
  PROVE  LET last == seen.disk
             n == 512 * Minus(sectors, last.count)
         IN  /\ disk_rate' * Gap(last) <= n * Second
             /\ seen.ok => IsRate(disk_rate', n, Gap(last))
<1> TypeOK /\ Counted /\ Kept /\ Spanned /\ DiskReadAt
  BY DEF CInv
<1>1. reader = "diskstats" /\ reader' = "connections"
  BY DEF ReadsDisk
<1>2. ReadDiskstats
  BY <1>1 DEF Next, Collect, Kernel, PacketsPass, DiskWorks, CpuWorks, IfaceChanges, Works,
     ClockTicks, ConfigUpdate, CollectStarts, ReadCpu, ReadMeminfo, ReadLoadavg, ReadsOnly,
     ReadNetDev, ReadConnections, ReadUptime, ReadTemperatures
<1>3. seen.disk # NoReading /\ seen.disk \in Readings
  BY DEF DiskReadAt, Counted
<1>4. disk_rate' = Rate(sectors, seen.disk.count, SectorBytes)
  BY <1>1, <1>2 DEF ReadDiskstats, CollectFails, SleepAgain, Kept
<1>5. PICK r \in Readings : r = seen.disk
  BY <1>3
<1>6. PICK c \in Nat : c = sectors
  BY DEF TypeOK
<1>7. PICK p \in Times : p = prev_time
  BY DEF Counted
<1>8. PICK e \in Nat \ {0} : e = elapsed
  BY DEF TypeOK, Counted
<1>9. PICK t \in Times : t = started
  BY DEF Counted
<1>10. p <= r.at /\ elapsed = Elapsed(started, p) /\ (seen.ok => r.at = p)
  <2>1. reader # "sleep" /\ reader \in BeforeDisk
    BY <1>1 DEF BeforeNet, BeforeDisk
  <2> QED
    BY <1>3, <1>5, <1>7, <2>1, Zenon DEF Spanned, DiskReadAt, ReadAt
<1>11. LET n == Minus(c, r.count) * SectorBytes
       IN  /\ Rate(c, r.count, SectorBytes) * Gap(r) <= n * Second
           /\ r.at = p => IsRate(Rate(c, r.count, SectorBytes), n, Gap(r))
  <2>1. SectorBytes \in Nat
    BY DEF SectorBytes
  <2> QED
    BY <1>8, <1>9, <1>10, <2>1, RateSpans, Zenon
<1>12. Minus(c, r.count) * SectorBytes = 512 * Minus(c, r.count)
  BY MinusType DEF Readings, SectorBytes
<1> QED
  BY <1>4, <1>5, <1>6, <1>10, <1>11, <1>12, Zenon

\* After a collection that succeeded every rate is exactly the traffic between
\* the two samples over the time between them (collector.rs divides what the
\* readers retained by the time since prev_time), for any interval and any
\* failures before.
THEOREM RatesAreExact == Spec => RatesSpanTheSamples
<1>1. ASSUME CInv, Next, seen.ok PROVE prev_time # None
  BY <1>1 DEF CInv, DiskReadAt
<1>2. CInv /\ [Next]_vars =>
        [/\ ReadsNet /\ seen.ok =>
              \A i \in listed \cap seen.listed :
                IsRate(net_rate'[i], Minus(net[i], seen.net[i].count), Gap(seen.net[i]))
         /\ ReadsDisk /\ seen.ok =>
              IsRate(disk_rate', 512 * Minus(sectors, seen.disk.count), Gap(seen.disk))]_vars
  BY <1>1, NetRate, DiskRate, Zenon
<1> QED
  BY <1>2, Invariance, PTL DEF Spec, RatesSpanTheSamples

\* Once a collection has succeeded, failed ones in between never make a rate
\* exceed the true one: their readers move the counters on, prev_time stays.
THEOREM FailuresOnlyDeflate == Spec => FailuresNeverInflate
<1>1. CInv /\ [Next]_vars =>
        [prev_time # None =>
           /\ ReadsNet =>
                \A i \in listed \cap seen.listed :
                  net_rate'[i] * Gap(seen.net[i])
                    <= Minus(net[i], seen.net[i].count) * Second
           /\ ReadsDisk /\ seen.disk # NoReading =>
                disk_rate' * Gap(seen.disk)
                  <= 512 * Minus(sectors, seen.disk.count) * Second]_vars
  BY NetRate, DiskRate, Zenon
<1> QED
  BY <1>1, Invariance, PTL DEF Spec, FailuresNeverInflate

\* The CPU share is the active part of exactly the jiffies since /proc/stat was
\* last read, whether or not the collection that read it succeeded.
THEOREM CpuShareIsExact == Spec => CpuShareSinceLastReading
<1>1. ASSUME CInv, Next, reader = "cpu", reader' = "meminfo", seen.cpu # NoJiffies
      PROVE  LET total == Total(jiffies) - Total(seen.cpu)
                 active == jiffies.active - seen.cpu.active
             IN  /\ cpu_percent' <= 100
                 /\ cpu_percent' * total <= 100 * active
                 /\ total > 0 => 100 * active < (cpu_percent' + 1) * total
  <2> TypeOK /\ Counted /\ Kept
    BY <1>1 DEF CInv
  <2>1. ReadCpu
    BY <1>1 DEF Next, Collect, Kernel, PacketsPass, DiskWorks, CpuWorks, IfaceChanges, Works,
       ClockTicks, ConfigUpdate, CollectStarts, ReadMeminfo, ReadLoadavg, ReadsOnly,
       ReadNetDev, ReadDiskstats, ReadConnections, ReadUptime, ReadTemperatures
  <2>2. cpu_percent' = compute_cpu_percent(seen.cpu, jiffies)
    BY <1>1, <2>1 DEF ReadCpu, CollectFails, SleepAgain, Kept
  <2>3. PICK p \in Jiffies : p = seen.cpu
    BY <1>1 DEF Counted
  <2>4. PICK c \in Jiffies : c = jiffies
    BY DEF TypeOK, Jiffies
  <2>5. p.active <= c.active /\ p.idle <= c.idle
    BY <2>3, <2>4 DEF Kept
  <2>6. LET total == Total(c) - Total(p)
            active == c.active - p.active
            r == compute_cpu_percent(p, c)
        IN  /\ r \in 0 .. 100
            /\ r * total <= 100 * active
            /\ total > 0 => 100 * active < (r + 1) * total
    BY <2>5, PercentIs, Zenon
  <2>7. compute_cpu_percent(p, c) <= 100
    BY <2>6
  <2> QED
    BY <2>2, <2>3, <2>4, <2>6, <2>7, Zenon
<1>2. CInv /\ [Next]_vars =>
        [reader = "cpu" /\ reader' = "meminfo" /\ seen.cpu # NoJiffies =>
           LET total == Total(jiffies) - Total(seen.cpu)
               active == jiffies.active - seen.cpu.active
           IN  /\ cpu_percent' <= 100
               /\ cpu_percent' * total <= 100 * active
               /\ total > 0 => 100 * active < (cpu_percent' + 1) * total]_vars
  BY <1>1, Zenon
<1> QED
  BY <1>2, Invariance, PTL DEF Spec, CpuShareSinceLastReading
=============================================================================
