------------------------------ MODULE DockerStats ------------------------------
(***************************************************************************)
(* The figures that DockerMonitor makes of the statistics of a running     *)
(* container (services/docker.py: _cpu_percent, _mem, and their use in     *)
(* _build_state), next to the counters they come from.                     *)
(*                                                                         *)
(* The counters are the daemon's: CPU time of the container, which starts  *)
(* again at zero with the container, and CPU time of the whole machine.    *)
(* "used" is what no counter says: the CPU time the container has really   *)
(* had, restarts or not.  Percentages are in hundredths, as round(_, 2)    *)
(* leaves them.                                                            *)
(***************************************************************************)
EXTENDS Integers

CONSTANTS
  Cpus,        \* CPUs of the machine
  Absent,      \* a missing key, and Python's None
  MaxSystem,   \* bound on the CPU time of the machine
  MaxMemory    \* bound on amounts of memory

Reading == [total : Nat, system : Nat \cup {Absent}]

ASSUME StatsAssumption ==
  /\ Cpus \in Nat \ {0} /\ MaxSystem \in Nat /\ MaxMemory \in Nat
  /\ Absent \notin Int \cup Reading

VARIABLES
  system, total, used,   \* CPU time: machine, container's counter, container
  up,                    \* the container runs
  precpu, preUsed,       \* the daemon's previous reading; "used" at that time
  whole,                 \* the container has run without a break since then
  cpu, memory, memPercent,       \* the figures of the latest ContainerState
  span, share, counted, exact    \* the truth about the span they are about

world == <<system, total, used, up>>
previous == <<precpu, preUsed, whole>>
figures == <<cpu, memory, memPercent>>
truth == <<span, share, counted, exact>>
vars == <<world, previous, figures, truth>>

TypeOK ==
  /\ system \in Nat /\ total \in Nat /\ used \in Nat /\ up \in BOOLEAN
  /\ precpu \in Reading \cup {Absent} /\ preUsed \in Nat /\ whole \in BOOLEAN
  /\ cpu \in Nat \cup {Absent}
  /\ memory \in Nat \cup {Absent} /\ memPercent \in Nat \cup {Absent}
  /\ span \in Nat /\ share \in Nat /\ counted \in Nat \ {0} /\ exact \in BOOLEAN

Init ==
  /\ system = 0 /\ total = 0 /\ used = 0 /\ up \in BOOLEAN
  /\ precpu = Absent /\ preUsed = 0 /\ whole = FALSE
  /\ cpu = Absent /\ memory = Absent /\ memPercent = Absent
  /\ span = 0 /\ share = 0 /\ counted = 1 /\ exact = FALSE

-----------------------------------------------------------------------------
(* Machine, container and daemon (external) *)

(* Of d of CPU time that pass on the machine, c are the container's. *)
Run(d, c) ==
  /\ system + d <= MaxSystem /\ c <= d /\ (up \/ c = 0)
  /\ system' = system + d /\ total' = total + c /\ used' = used + c
  /\ UNCHANGED <<up, previous, figures, truth>>

Restart(b) ==
  /\ up' = b /\ total' = 0
  /\ whole' = FALSE
  /\ UNCHANGED <<system, used, precpu, preUsed, figures, truth>>

(***************************************************************************)
(* What the daemon reads.  Of a container that does not run there is no    *)
(* reading: its CPU time is given as 0, and that of the machine not at all.*)
(***************************************************************************)
Current ==
  IF up THEN [total |-> total, system |-> system]
  ELSE [total |-> 0, system |-> Absent]

DaemonReads ==
  /\ precpu' = Current
  /\ preUsed' = IF up THEN used ELSE 0
  /\ whole' = up
  /\ UNCHANGED <<world, figures, truth>>

-----------------------------------------------------------------------------
(* _cpu_percent *)

(* round(n / d, 2) in hundredths; of two that are as near, floats decide. *)
Nearest(n, d) == {h \in {n \div d, n \div d + 1} : 2 * (h * d) - 2 * n \in -d..d}

SystemBefore(pre) == IF pre.system = Absent THEN 0 ELSE pre.system

(* Mutant: a counter that went back is not noticed. *)
CpuPercentUnguarded(now, pre, online) ==
  IF now.system = Absent \/ pre = Absent THEN {Absent}
  ELSE LET cpuDelta == now.total - pre.total
           systemDelta == now.system - SystemBefore(pre)
       IN  IF systemDelta <= 0 THEN {0}
           ELSE Nearest(10000 * (cpuDelta * online), systemDelta)

(* Mutant: without a previous reading of the machine, one tick is assumed. *)
CpuPercentSpike(now, pre, online) ==
  IF now.system = Absent \/ pre = Absent THEN {Absent}
  ELSE LET cpuDelta == now.total - pre.total
           systemDelta == IF pre.system = Absent THEN 1 ELSE now.system - pre.system
       IN  IF systemDelta <= 0 \/ cpuDelta < 0 THEN {0}
           ELSE Nearest(10000 * (cpuDelta * online), systemDelta)

(* Mutant: the CPU time since the start is divided by that of the span. *)
CpuPercentOfStart(now, pre, online) ==
  IF now.system = Absent \/ pre = Absent THEN {Absent}
  ELSE LET systemDelta == now.system - SystemBefore(pre)
       IN  IF systemDelta <= 0 THEN {0}
           ELSE Nearest(10000 * (now.total * online), systemDelta)

(* Mutant: the share is of the machine, not of a CPU. *)
CpuPercentOfMachine(now, pre, online) ==
  IF now.system = Absent \/ pre = Absent THEN {Absent}
  ELSE LET cpuDelta == now.total - pre.total
           systemDelta == now.system - SystemBefore(pre)
       IN  IF systemDelta <= 0 \/ cpuDelta < 0 THEN {0}
           ELSE Nearest(10000 * cpuDelta, systemDelta)

CpuPercent(now, pre, online) ==
  IF now.system = Absent \/ pre = Absent THEN {Absent}
  ELSE LET cpuDelta == now.total - pre.total
           systemDelta == now.system - SystemBefore(pre)
       IN  IF systemDelta <= 0 \/ cpuDelta < 0 THEN {0}
           ELSE Nearest(10000 * (cpuDelta * online), systemDelta)

(* online_cpus, or the length of percpu_usage, or 1; 0 is a missing key. *)
Online(onlineCpus, percpu) ==
  IF onlineCpus # 0 THEN onlineCpus ELSE IF percpu # 0 THEN percpu ELSE 1

-----------------------------------------------------------------------------
(* _mem *)

(* Mutant: a cache larger than the usage is not noticed. *)
RealUsageUnclamped(usage, cache) == usage - cache

RealUsage(usage, cache) == IF usage >= cache THEN usage - cache ELSE 0

MemPercent(real, limit) ==
  IF limit = 0 THEN {Absent} ELSE Nearest(10000 * real, limit)

-----------------------------------------------------------------------------
(* _build_state *)

MeasureCpu(online) ==
  /\ cpu' \in CpuPercent(Current, precpu, online)
  /\ IF up /\ precpu # Absent
     THEN /\ span' = system - SystemBefore(precpu)
          /\ share' = used - preUsed
          /\ exact' = whole
     ELSE span' = 0 /\ share' = 0 /\ exact' = FALSE
  /\ counted' = online

(***************************************************************************)
(* Assumed of the kernel, not checked by _mem(): usage stays within the    *)
(* limit, if there is one.  Cache is read at another moment and may be     *)
(* larger than usage.                                                      *)
(***************************************************************************)
KeepsLimit(usage, limit) == limit = 0 \/ usage <= limit

MeasureMemory(usage, cache, limit) ==
  /\ memory' = RealUsage(usage, cache)
  /\ memPercent' \in MemPercent(RealUsage(usage, cache), limit)

NoMemory == memory' = Absent /\ memPercent' = Absent

(***************************************************************************)
(* The container showed as running.  It may have stopped since.            *)
(***************************************************************************)
BuildRunning ==
  /\ \E onlineCpus, percpu \in {0, Cpus} : MeasureCpu(Online(onlineCpus, percpu))
  /\ \/ NoMemory
     \/ \E usage, cache, limit \in 0..MaxMemory :
          KeepsLimit(usage, limit) /\ MeasureMemory(usage, cache, limit)
  /\ UNCHANGED <<world, previous>>

(***************************************************************************)
(* It showed another status, or the statistics are no dictionary: there    *)
(* are no figures.  It may have come up since.                             *)
(***************************************************************************)
BuildIdle ==
  /\ cpu' = Absent /\ NoMemory
  /\ span' = 0 /\ share' = 0 /\ counted' = 1 /\ exact' = FALSE
  /\ UNCHANGED <<world, previous>>

BuildState == BuildRunning \/ BuildIdle

-----------------------------------------------------------------------------

Next ==
  \/ \E d, c \in 0..MaxSystem : Run(d, c)
  \/ \E b \in BOOLEAN : Restart(b)
  \/ DaemonReads
  \/ BuildState

Spec == Init /\ [][Next]_vars

-----------------------------------------------------------------------------
(* Properties *)

(***************************************************************************)
(* The CPU figure never claims more than the container has really had,     *)
(* however its counters restart and whichever reading is missing, except   *)
(* for the rounding (_cpu_percent).                                        *)
(***************************************************************************)
CpuNeverOverstated ==
  cpu # Absent => 2 * (cpu * span) <= 20000 * (share * counted) + span

(***************************************************************************)
(* No container is shown to use more CPUs than the machine has, on a first *)
(* reading or after a restart either (_cpu_percent).                       *)
(***************************************************************************)
CpuWithinMachine == cpu # Absent => cpu <= 10000 * Cpus

(***************************************************************************)
(* Over a span in which the container ran without a break, the figure is   *)
(* not less than the truth either (_cpu_percent).                          *)
(***************************************************************************)
CpuExactWhenWhole ==
  exact => cpu # Absent /\ 20000 * (share * counted) <= 2 * (cpu * span) + span

(***************************************************************************)
(* A container is never shown above its limit, or below nothing, nor with  *)
(* a percentage without an amount, though cache and usage are read at      *)
(* different moments (_mem).                                               *)
(***************************************************************************)
MemoryWithinLimit == memPercent # Absent => memory # Absent /\ memPercent \in 0..10000
=============================================================================
