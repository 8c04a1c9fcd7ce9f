--------------------------- MODULE DockerStatsProofs ---------------------------
(***************************************************************************)
(* Proofs about the figures of a container, for counters of any size, any  *)
(* number of CPUs and any order of readings and restarts.                  *)
(***************************************************************************)
EXTENDS DockerStats, TLAPS

(***************************************************************************)
(* What the counters know of the truth.  The counter of a container that   *)
(* was restarted since the previous reading has missed some of what the    *)
(* container had, and never made anything up.                              *)
(***************************************************************************)
CountersHonest ==
  /\ total <= used /\ used <= system
  /\ preUsed <= used
  /\ precpu # Absent =>
       /\ SystemBefore(precpu) <= system
       /\ used - preUsed <= system - SystemBefore(precpu)
       /\ total - precpu.total <= used - preUsed
  /\ whole =>
       /\ up /\ precpu # Absent /\ precpu.system # Absent
       /\ total - precpu.total = used - preUsed

(* The share of a span is at most the span, and an empty span shows 0. *)
CpuTruth ==
  /\ share <= span /\ counted <= Cpus
  /\ span = 0 => cpu \in {0, Absent}
  /\ CpuNeverOverstated
  /\ CpuExactWhenWhole

TruthOK == CpuTruth /\ MemoryWithinLimit

IInv == TypeOK /\ CountersHonest /\ TruthOK

-----------------------------------------------------------------------------
(* Arithmetic *)

(* Scaling keeps the order of natural numbers. *)
LEMMA Scaling ==
  ASSUME NEW a \in Int, NEW b \in Int, NEW k \in Nat, a <= b
  PROVE  a * k <= b * k
  BY Z3

(* A figure that rounds at most k whole units is at most k. *)
LEMMA RoundedBelow ==
  ASSUME NEW h \in Nat, NEW k \in Nat, NEW d \in Nat \ {0},
         2 * (h * d) <= 2 * (k * d) + d
  PROVE  h <= k
<1> SUFFICES ASSUME h > k PROVE FALSE
  OBVIOUS
<1>1. (k + 1) * d <= h * d
  BY Scaling
<1>2. (k + 1) * d = k * d + d
  BY Z3
<1>3. k * d \in Nat /\ h * d \in Nat
  BY Z3
<1> QED
  BY <1>1, <1>2, <1>3

(* What round() returns is within half a hundredth, and natural. *)
LEMMA NearestIsNear ==
  ASSUME NEW n \in Nat, NEW d \in Nat \ {0}, NEW h \in Nearest(n, d)
  PROVE  /\ h \in Nat
         /\ 2 * (h * d) <= 2 * n + d
         /\ 2 * n <= 2 * (h * d) + d
<1>1. n \div d \in Nat
  BY Z3
<1>2. h \in Nat /\ 2 * (h * d) - 2 * n \in -d..d
  BY <1>1 DEF Nearest
<1>3. h * d \in Nat
  BY <1>2, Z3
<1> QED
  BY <1>2, <1>3

(* Every quotient has a figure: one of its neighbours is near enough. *)
LEMMA NearestExists ==
  ASSUME NEW n \in Nat, NEW d \in Nat \ {0}
  PROVE  \E h \in Nat : h \in Nearest(n, d)
<1> DEFINE q == n \div d
<1>1. q \in Nat /\ q * d <= n /\ n < q * d + d
  BY Z3
<1>2. q * d \in Nat /\ (q + 1) * d = q * d + d
  BY <1>1, Z3
<1> HIDE DEF q
<1>3. CASE 2 * (n - q * d) <= d
  <2>1. 2 * (q * d) - 2 * n \in -d..d
    BY <1>1, <1>2, <1>3
  <2> QED
    BY <1>1, <2>1 DEF Nearest, q
<1>4. CASE 2 * (n - q * d) > d
  <2>1. 2 * ((q + 1) * d) - 2 * n \in -d..d
    BY <1>1, <1>2, <1>4
  <2> QED
    BY <1>1, <2>1 DEF Nearest, q
<1> QED
  BY <1>1, <1>2, <1>3, <1>4

(* And a figure that rounds at least k whole units is at least k. *)
LEMMA RoundedAbove ==
  ASSUME NEW h \in Nat, NEW k \in Nat, NEW d \in Nat \ {0},
         2 * (k * d) <= 2 * (h * d) + d
  PROVE  k <= h
BY RoundedBelow

-----------------------------------------------------------------------------
(* The invariant *)

(* Before the first reading there is no figure and nothing to compare. *)
LEMMA InitIInv == Init => IInv
<1> SUFFICES ASSUME Init PROVE IInv
  OBVIOUS
<1> USE StatsAssumption DEF Init
<1>1. TypeOK
  <2>1. system \in Nat /\ total \in Nat /\ used \in Nat /\ preUsed \in Nat
    OBVIOUS
  <2>2. span \in Nat /\ share \in Nat /\ counted \in Nat \ {0}
    OBVIOUS
  <2>3. up \in BOOLEAN /\ whole \in BOOLEAN /\ exact \in BOOLEAN
    OBVIOUS
  <2>4. precpu \in Reading \cup {Absent} /\ cpu \in Nat \cup {Absent}
    OBVIOUS
  <2>5. memory \in Nat \cup {Absent} /\ memPercent \in Nat \cup {Absent}
    OBVIOUS
  <2> QED
    BY <2>1, <2>2, <2>3, <2>4, <2>5 DEF TypeOK
<1>2. CountersHonest /\ TruthOK
  BY DEF CountersHonest, TruthOK, CpuTruth, CpuNeverOverstated, CpuExactWhenWhole, MemoryWithinLimit
<1> QED
  BY <1>1, <1>2 DEF IInv

(* A previous reading has numbers where the figure needs them. *)
LEMMA ReadingOK ==
  ASSUME TypeOK, precpu # Absent
  PROVE  precpu.total \in Nat /\ SystemBefore(precpu) \in Nat
<1>1. precpu \in Reading
  BY DEF TypeOK
<1>2. precpu.total \in Nat /\ precpu.system \in Nat \cup {Absent}
  BY <1>1 DEF Reading
<1> QED
  BY <1>2 DEF SystemBefore

(* Time that passes keeps the counters honest. *)
LEMMA RunStep ==
  ASSUME IInv, NEW d \in 0..MaxSystem, NEW c \in 0..MaxSystem, Run(d, c)
  PROVE  TypeOK' /\ CountersHonest'
<1> USE DEF IInv, Run, previous, figures, truth
<1>1. TypeOK'
  <2>1. system' \in Nat /\ total' \in Nat /\ used' \in Nat
    BY StatsAssumption DEF TypeOK
  <2> QED
    BY <2>1 DEF TypeOK
<1>2. CASE precpu = Absent
  <2>1. ~whole
    BY <1>2 DEF CountersHonest
  <2>2. total' <= used' /\ used' <= system' /\ preUsed' <= used'
    BY StatsAssumption DEF TypeOK, CountersHonest
  <2> QED
    BY <1>1, <1>2, <2>1, <2>2 DEF CountersHonest
<1>3. CASE precpu # Absent
  <2>1. precpu.total \in Nat /\ SystemBefore(precpu) \in Nat
    BY <1>3, ReadingOK
  <2>2. precpu' = precpu /\ SystemBefore(precpu)' = SystemBefore(precpu)
    BY DEF SystemBefore
  <2>3. /\ total' <= used' /\ used' <= system' /\ preUsed' <= used'
        /\ SystemBefore(precpu) <= system'
        /\ used' - preUsed' <= system' - SystemBefore(precpu)
        /\ total' - precpu.total <= used' - preUsed'
        /\ total - precpu.total = used - preUsed
             => total' - precpu.total = used' - preUsed'
    <3>1. /\ system \in Nat /\ total \in Nat /\ used \in Nat /\ preUsed \in Nat
          /\ d \in Nat /\ c \in Nat
      BY StatsAssumption DEF TypeOK
    <3>2. /\ total <= used /\ used <= system /\ preUsed <= used
          /\ SystemBefore(precpu) <= system
          /\ used - preUsed <= system - SystemBefore(precpu)
          /\ total - precpu.total <= used - preUsed
      BY <1>3 DEF CountersHonest
    <3>3. /\ system' = system + d /\ total' = total + c /\ used' = used + c
          /\ preUsed' = preUsed /\ c <= d
      OBVIOUS
    <3> QED
      BY <2>1, <3>1, <3>2, <3>3
  <2> QED
    BY <1>1, <1>3, <2>2, <2>3 DEF CountersHonest
<1> QED
  BY <1>2, <1>3, <1>1

(* A restart only takes from the counter. *)
LEMMA RestartStep ==
  ASSUME IInv, NEW b \in BOOLEAN, Restart(b)
  PROVE  TypeOK' /\ CountersHonest'
<1> USE DEF IInv, Restart, figures, truth
<1>1. TypeOK'
  BY DEF TypeOK
<1>2. CASE precpu = Absent
  BY <1>1, <1>2 DEF CountersHonest, TypeOK
<1>3. CASE precpu # Absent
  <2>1. precpu.total \in Nat /\ SystemBefore(precpu) \in Nat
    BY <1>3, ReadingOK
  <2>2. precpu' = precpu /\ SystemBefore(precpu)' = SystemBefore(precpu)
    BY DEF SystemBefore
  <2>3. total' <= used /\ total' - precpu.total <= used - preUsed
    BY <2>1 DEF TypeOK, CountersHonest
  <2> QED
    BY <1>1, <1>3, <2>2, <2>3 DEF CountersHonest
<1> QED
  BY <1>2, <1>3, <1>1

(* A reading that the daemon keeps is of honest counters. *)
LEMMA ReadStep ==
  ASSUME IInv, DaemonReads
  PROVE  TypeOK' /\ CountersHonest'
<1> USE DEF IInv, DaemonReads, Current, world, figures, truth
<1>1. CASE up
  <2>1. precpu' = [total |-> total, system |-> system] /\ preUsed' = used /\ whole' = TRUE
    BY <1>1
  <2>2. precpu' \in Reading /\ precpu' # Absent
    <3>1. system \in Nat /\ total \in Nat
      BY DEF TypeOK
    <3>2. precpu' \in Reading
      BY <2>1, <3>1 DEF Reading
    <3> QED
      BY <3>2, StatsAssumption
  <2>3. TypeOK'
    BY <2>1, <2>2 DEF TypeOK
  <2>4. precpu'.total = total /\ precpu'.system = system /\ system # Absent
    BY <2>1, StatsAssumption DEF TypeOK
  <2>5. SystemBefore(precpu)' = system
    BY <2>4 DEF SystemBefore
  <2> QED
    BY <1>1, <2>1, <2>2, <2>3, <2>4, <2>5 DEF CountersHonest, TypeOK
<1>2. CASE ~up
  <2>1. precpu' = [total |-> 0, system |-> Absent] /\ preUsed' = 0 /\ whole' = FALSE
    BY <1>2 DEF TypeOK
  <2>2. precpu' \in Reading
    BY <2>1 DEF Reading
  <2>3. TypeOK'
    BY <2>1, <2>2 DEF TypeOK
  <2>4. precpu'.total = 0 /\ SystemBefore(precpu)' = 0
    BY <2>1 DEF SystemBefore
  <2> QED
    BY <2>1, <2>3, <2>4 DEF CountersHonest, TypeOK
<1> QED
  BY <1>1, <1>2 DEF TypeOK

(* None of them changes the figures, nor the span they are about. *)
LEMMA WorldStep ==
  ASSUME IInv,
         \/ \E d, c \in 0..MaxSystem : Run(d, c)
         \/ \E b \in BOOLEAN : Restart(b)
         \/ DaemonReads
         \/ UNCHANGED vars
  PROVE  IInv'
<1>1. TypeOK' /\ CountersHonest'
  <2>1. CASE UNCHANGED vars
    BY <2>1 DEF IInv, TypeOK, CountersHonest, SystemBefore, vars, world, previous, figures, truth
  <2> QED
    BY <2>1, RunStep, RestartStep, ReadStep
<1>2. TruthOK'
  <2>1. UNCHANGED <<figures, truth>>
    BY DEF Run, Restart, DaemonReads, vars
  <2> QED
    BY <2>1 DEF IInv, TruthOK, CpuTruth, CpuNeverOverstated, CpuExactWhenWhole,
      MemoryWithinLimit, figures, truth
<1> QED
  BY <1>1, <1>2 DEF IInv

(***************************************************************************)
(* The figure of one measurement, against the truth about its span.        *)
(***************************************************************************)
LEMMA MeasureStep ==
  ASSUME IInv, NEW online \in 1..Cpus, MeasureCpu(online)
  PROVE  /\ cpu' \in Nat \cup {Absent}
         /\ span' \in Nat /\ share' \in Nat /\ counted' = online /\ exact' \in BOOLEAN
         /\ CpuTruth'
<1> USE StatsAssumption DEF IInv, TypeOK, Reading
<1>1. CASE ~(up /\ precpu # Absent)
  <2>1. cpu' = Absent /\ span' = 0 /\ share' = 0 /\ exact' = FALSE /\ counted' = online
    BY <1>1 DEF MeasureCpu, CpuPercent, Current
  <2>2. CpuNeverOverstated' /\ CpuExactWhenWhole'
    BY <2>1 DEF CpuNeverOverstated, CpuExactWhenWhole
  <2>3. share' <= span' /\ counted' <= Cpus /\ (span' = 0 => cpu' \in {0, Absent})
    BY <2>1
  <2> QED
    BY <2>1, <2>2, <2>3 DEF CpuTruth
<1>2. CASE up /\ precpu # Absent
  <2> DEFINE delta == total - precpu.total
             passed == system - SystemBefore(precpu)
             true == used - preUsed
  <2>1. /\ span' = passed /\ share' = true
        /\ exact' = whole /\ counted' = online
    BY <1>2 DEF MeasureCpu
  <2>2. cpu' \in IF passed <= 0 \/ delta < 0 THEN {0}
                 ELSE Nearest(10000 * (delta * online), passed)
    BY <1>2 DEF MeasureCpu, CpuPercent, Current
  <2>3. /\ passed \in Nat /\ delta \in Int /\ true \in Nat
        /\ delta <= true /\ true <= passed
        /\ whole => delta = true
    BY <1>2 DEF CountersHonest, SystemBefore
  <2> HIDE DEF delta, passed, true
  <2>4. CASE passed <= 0 \/ delta < 0
    <3>1. cpu' = 0
      BY <2>2, <2>4
    <3>2. whole => delta = 0 /\ true = 0
      BY <2>3, <2>4
    <3>3. true * online \in Nat
      BY <2>3, Z3
    <3> QED
      BY <2>1, <2>3, <3>1, <3>2, <3>3 DEF CpuTruth, CpuNeverOverstated, CpuExactWhenWhole
  <2>5. CASE passed > 0 /\ delta >= 0
    <3>1. cpu' \in Nearest(10000 * (delta * online), passed)
      BY <2>2, <2>3, <2>5
    <3>2. /\ delta \in Nat /\ true \in Nat /\ delta <= true
          /\ online \in Nat /\ passed \in Nat \ {0}
      BY <2>3, <2>5
    <3>3. /\ cpu' \in Nat
          /\ 2 * (cpu' * passed) <= 20000 * (true * online) + passed
          /\ delta = true => 20000 * (true * online) <= 2 * (cpu' * passed) + passed
      <4> DEFINE n == 10000 * (delta * online)
      <4>1. delta * online \in Nat /\ true * online \in Nat /\ n \in Nat
        BY <3>2, Z3
      <4>2. delta * online <= true * online
        BY <3>2, Scaling
      <4>3. PICK h \in Nearest(n, passed) : cpu' = h
        BY <3>1
      <4>4. 2 * n = 20000 * (delta * online)
        BY <4>1
      <4> HIDE DEF n
      <4>5. h \in Nat /\ 2 * (h * passed) <= 2 * n + passed /\ 2 * n <= 2 * (h * passed) + passed
        BY <3>2, <4>1, NearestIsNear
      <4>6. h * passed \in Nat
        BY <3>2, <4>5, Z3
      <4>7. /\ 2 * (h * passed) <= 20000 * (true * online) + passed
            /\ delta = true => 20000 * (true * online) <= 2 * (h * passed) + passed
        BY <3>2, <4>1, <4>2, <4>4, <4>5, <4>6
      <4> QED
        BY <4>3, <4>5, <4>7
    <3>4. cpu' # Absent
      BY <3>3, StatsAssumption
    <3>5. CpuNeverOverstated' /\ CpuExactWhenWhole'
      <4>1. CpuNeverOverstated'
        BY <2>1, <3>3 DEF CpuNeverOverstated
      <4>2. ASSUME whole PROVE 20000 * (share' * counted') <= 2 * (cpu' * span') + span'
        <5>1. delta = true
          BY <2>3, <4>2
        <5>2. 20000 * (true * online) <= 2 * (cpu' * passed) + passed
          BY <3>3, <5>1
        <5> QED
          BY <2>1, <5>2
      <4>3. CpuExactWhenWhole'
        BY <2>1, <3>4, <4>2 DEF CpuExactWhenWhole
      <4> QED
        BY <4>1, <4>3
    <3>6. share' <= span' /\ counted' <= Cpus /\ (span' = 0 => cpu' \in {0, Absent})
      BY <2>1, <2>3, <2>5
    <3> QED
      BY <2>1, <2>3, <3>3, <3>5, <3>6 DEF CpuTruth
  <2> QED
    BY <2>3, <2>4, <2>5
<1> QED
  BY <1>1, <1>2

(* Of at most the limit, at most 100% is shown. *)
LEMMA PercentOfLimit ==
  ASSUME NEW real \in Nat, NEW limit \in Nat \ {0}, real <= limit,
         NEW h \in Nearest(10000 * real, limit)
  PROVE  h \in Nat /\ h <= 10000
<1>1. 10000 * real \in Nat
  OBVIOUS
<1>2. h \in Nat /\ 2 * (h * limit) <= 2 * (10000 * real) + limit
  BY <1>1, NearestIsNear
<1>3. 2 * (10000 * real) <= 2 * (10000 * limit)
  OBVIOUS
<1>4. h * limit \in Nat
  BY <1>2, Z3
<1>5. 2 * (h * limit) <= 2 * (10000 * limit) + limit
  BY <1>2, <1>3, <1>4
<1> QED
  BY <1>2, <1>5, RoundedBelow

(* Memory figures are amounts within the limit, or missing. *)
LEMMA MemoryStep ==
  ASSUME \/ NoMemory
         \/ \E usage, cache, limit \in 0..MaxMemory :
              KeepsLimit(usage, limit) /\ MeasureMemory(usage, cache, limit)
  PROVE  /\ memory' \in Nat \cup {Absent} /\ memPercent' \in Nat \cup {Absent}
         /\ MemoryWithinLimit'
<1> USE StatsAssumption DEF MemoryWithinLimit
<1>1. CASE NoMemory
  BY <1>1 DEF NoMemory
<1>2. ASSUME NEW usage \in 0..MaxMemory, NEW cache \in 0..MaxMemory,
             NEW limit \in 0..MaxMemory,
             KeepsLimit(usage, limit), MeasureMemory(usage, cache, limit)
      PROVE  /\ memory' \in Nat /\ memPercent' \in Nat \cup {Absent}
             /\ MemoryWithinLimit'
  <2> DEFINE real == RealUsage(usage, cache)
  <2>1. memory' = real /\ real \in Nat /\ real <= usage /\ real # Absent
    BY <1>2 DEF MeasureMemory, RealUsage
  <2>2. memPercent' \in MemPercent(real, limit) /\ (limit = 0 \/ usage <= limit)
    BY <1>2 DEF MeasureMemory, KeepsLimit
  <2> HIDE DEF real
  <2>3. CASE limit = 0
    BY <2>1, <2>2, <2>3 DEF MemPercent
  <2>4. CASE limit # 0
    <3>1. memPercent' \in Nearest(10000 * real, limit)
      BY <2>2, <2>4 DEF MemPercent
    <3>2. limit \in Nat \ {0} /\ real <= limit
      BY <2>1, <2>2, <2>4
    <3>3. memPercent' \in Nat /\ memPercent' <= 10000
      BY <2>1, <3>1, <3>2, PercentOfLimit
    <3>4. memPercent' \in 0..10000
      BY <3>3
    <3> QED
      BY <2>1, <3>3, <3>4
  <2> QED
    BY <2>3, <2>4
<1> QED
  BY <1>1, <1>2

(* What a measurement shows keeps the types and the truth. *)
LEMMA RunningStep ==
  ASSUME IInv, BuildRunning
  PROVE  TypeOK' /\ TruthOK'
<1> USE StatsAssumption
<1>1. PICK onlineCpus, percpu \in {0, Cpus} : MeasureCpu(Online(onlineCpus, percpu))
  BY DEF BuildRunning
<1>2. Online(onlineCpus, percpu) \in 1..Cpus
  BY DEF Online
<1>3. /\ cpu' \in Nat \cup {Absent}
      /\ span' \in Nat /\ share' \in Nat /\ counted' \in Nat \ {0} /\ exact' \in BOOLEAN
      /\ CpuTruth'
  <2>1. \A online \in 1..Cpus : online \in Nat \ {0}
    OBVIOUS
  <2> QED
    BY <1>1, <1>2, <2>1, MeasureStep
<1>4. /\ memory' \in Nat \cup {Absent} /\ memPercent' \in Nat \cup {Absent}
      /\ MemoryWithinLimit'
  BY MemoryStep DEF BuildRunning
<1>5. UNCHANGED <<world, previous>>
  BY DEF BuildRunning
<1>6. TypeOK'
  BY <1>3, <1>4, <1>5 DEF IInv, TypeOK, world, previous
<1> QED
  BY <1>3, <1>4, <1>6 DEF TruthOK

(* Without figures there is nothing to be wrong about. *)
LEMMA IdleStep ==
  ASSUME IInv, BuildIdle
  PROVE  TypeOK' /\ TruthOK'
<1> USE StatsAssumption DEF BuildIdle
<1>1. /\ memory' \in Nat \cup {Absent} /\ memPercent' \in Nat \cup {Absent}
      /\ MemoryWithinLimit'
  BY MemoryStep
<1>2. UNCHANGED <<world, previous>>
  OBVIOUS
<1>3. TypeOK'
  <2>1. cpu' = Absent /\ span' = 0 /\ share' = 0 /\ counted' = 1 /\ exact' = FALSE
    OBVIOUS
  <2>2. cpu' \in Nat \cup {Absent} /\ span' \in Nat /\ share' \in Nat
    BY <2>1
  <2>3. counted' \in Nat \ {0}
    BY <2>1
  <2>4. exact' \in BOOLEAN
    BY <2>1
  <2> QED
    BY <1>1, <1>2, <2>2, <2>3, <2>4 DEF IInv, TypeOK, world, previous
<1>4. CpuTruth'
  BY DEF CpuTruth, CpuNeverOverstated, CpuExactWhenWhole
<1> QED
  BY <1>1, <1>3, <1>4 DEF TruthOK

(* A ContainerState that is built keeps the invariant. *)
LEMMA BuildStep ==
  ASSUME IInv, BuildState
  PROVE  IInv'
<1>1. TypeOK' /\ TruthOK'
  BY RunningStep, IdleStep DEF BuildState
<1>2. UNCHANGED <<world, previous>>
  BY DEF BuildState, BuildRunning, BuildIdle
<1>3. CountersHonest'
  BY <1>2 DEF IInv, CountersHonest, SystemBefore, world, previous
<1> QED
  BY <1>1, <1>3 DEF IInv

(* IInv holds whatever the daemon, the machine and the container do. *)
THEOREM Invariance == Spec => []IInv
<1>1. IInv /\ [Next]_vars => IInv'
  BY WorldStep, BuildStep DEF Next
<1> QED
  BY InitIInv, <1>1, PTL DEF Spec

-----------------------------------------------------------------------------
(* What IInv gives *)

(***************************************************************************)
(* Every figure is a natural number or missing: none is ever negative.     *)
(***************************************************************************)
THEOREM TypeCorrect == Spec => []TypeOK
<1>1. IInv => TypeOK
  BY DEF IInv
<1> QED
  BY <1>1, Invariance, PTL

(***************************************************************************)
(* The CPU figure never claims more than the container has had             *)
(* (_cpu_percent).                                                         *)
(***************************************************************************)
THEOREM NeverOverstated == Spec => []CpuNeverOverstated
<1>1. IInv => CpuNeverOverstated
  BY DEF IInv, TruthOK, CpuTruth
<1> QED
  BY <1>1, Invariance, PTL

(***************************************************************************)
(* Over an unbroken span it claims no less either (_cpu_percent).          *)
(***************************************************************************)
THEOREM ExactWhenWhole == Spec => []CpuExactWhenWhole
<1>1. IInv => CpuExactWhenWhole
  BY DEF IInv, TruthOK, CpuTruth
<1> QED
  BY <1>1, Invariance, PTL

(***************************************************************************)
(* No figure exceeds the CPUs of the machine: the share of a span is at    *)
(* most the span, and rounding does not reach over a whole number          *)
(* (_cpu_percent).                                                         *)
(***************************************************************************)
THEOREM WithinMachine == Spec => []CpuWithinMachine
<1>1. IInv => CpuWithinMachine
  <2> SUFFICES ASSUME IInv, cpu # Absent PROVE cpu <= 10000 * Cpus
    BY DEF CpuWithinMachine
  <2> DEFINE k == 10000 * Cpus
  <2>1. /\ cpu \in Nat /\ span \in Nat /\ share \in Nat /\ counted \in Nat
        /\ share <= span /\ counted <= Cpus /\ Cpus \in Nat /\ k \in Nat
    BY StatsAssumption DEF IInv, TypeOK, TruthOK, CpuTruth
  <2>2. CASE span = 0
    BY <2>1, <2>2 DEF IInv, TruthOK, CpuTruth
  <2>3. CASE span # 0
    <3>1. share * counted <= span * counted /\ counted * span <= Cpus * span
      BY <2>1, Scaling
    <3>2. /\ share * counted \in Nat /\ span * counted = counted * span
          /\ Cpus * span \in Nat /\ cpu * span \in Nat /\ counted * span \in Nat
      BY <2>1, Z3
    <3>3. 2 * (cpu * span) <= 20000 * (share * counted) + span
      BY DEF IInv, TruthOK, CpuTruth, CpuNeverOverstated
    <3>4. 2 * (cpu * span) <= 20000 * (Cpus * span) + span
      BY <2>1, <3>1, <3>2, <3>3
    <3>5. 20000 * (Cpus * span) = 2 * (k * span)
      BY <2>1, Z3
    <3> HIDE DEF k
    <3>6. span \in Nat \ {0} /\ 2 * (cpu * span) <= 2 * (k * span) + span
      BY <2>1, <2>3, <3>4, <3>5
    <3>7. cpu <= k
      BY <2>1, <3>6, RoundedBelow
    <3> QED
      BY <3>7 DEF k
  <2> QED
    BY <2>2, <2>3
<1> QED
  BY <1>1, Invariance, PTL

(***************************************************************************)
(* No container is shown above its memory limit, rounding included, and no *)
(* percentage is shown without an amount (_mem).                           *)
(***************************************************************************)
THEOREM WithinLimit == Spec => []MemoryWithinLimit
<1>1. IInv => MemoryWithinLimit
  BY DEF IInv, TruthOK
<1> QED
  BY <1>1, Invariance, PTL

(***************************************************************************)
(* Whatever was read, there is a figure: no measurement of _build_state()  *)
(* is left out of the model for want of one, so what the invariants say of *)
(* figures they say of every measurement.                                  *)
(***************************************************************************)
THEOREM FigureExists ==
  Spec => [](\A online \in 1..Cpus : CpuPercent(Current, precpu, online) # {})
<1>1. ASSUME IInv, NEW online \in 1..Cpus
      PROVE  CpuPercent(Current, precpu, online) # {}
  <2>1. CASE ~up \/ precpu = Absent
    BY <2>1 DEF CpuPercent, Current
  <2>2. CASE up /\ precpu # Absent
    <3> DEFINE delta == total - precpu.total
               passed == system - SystemBefore(precpu)
    <3>1. delta \in Int /\ passed \in Int /\ online \in Nat
      BY <1>1, <2>2, ReadingOK, StatsAssumption DEF IInv, TypeOK
    <3>2. Current.total = total /\ Current.system = system /\ system # Absent
      BY <1>1, <2>2, StatsAssumption DEF Current, IInv, TypeOK
    <3>3. CpuPercent(Current, precpu, online) =
            IF passed <= 0 \/ delta < 0 THEN {0}
            ELSE Nearest(10000 * (delta * online), passed)
      BY <2>2, <3>2 DEF CpuPercent
    <3> HIDE DEF delta, passed
    <3>4. ASSUME passed > 0, delta >= 0
          PROVE  Nearest(10000 * (delta * online), passed) # {}
      <4> DEFINE n == 10000 * (delta * online)
      <4>1. delta * online \in Nat
        BY <3>1, <3>4, Z3
      <4>2. n \in Nat /\ passed \in Nat \ {0}
        BY <3>1, <3>4, <4>1
      <4> HIDE DEF n
      <4>3. Nearest(n, passed) # {}
        BY <4>2, NearestExists
      <4> QED
        BY <4>3 DEF n
    <3> QED
      BY <3>1, <3>3, <3>4
  <2> QED
    BY <2>1, <2>2
<1>2. IInv => \A online \in 1..Cpus : CpuPercent(Current, precpu, online) # {}
  BY <1>1
<1> QED
  BY <1>2, Invariance, PTL

(***************************************************************************)
(* Rounding does not blur the extremes.  Over an unbroken span, a          *)
(* container that had nothing is shown at 0, and one that had all there    *)
(* was is shown at 100% of every CPU counted, exactly (_cpu_percent).      *)
(***************************************************************************)
ExtremesAreExact ==
  exact /\ span > 0 =>
    /\ share = 0 => cpu = 0
    /\ share = span => cpu = 10000 * counted

(***************************************************************************)
(* The bounds from above and from below meet there, since a figure that    *)
(* rounds a whole number is that number.                                   *)
(***************************************************************************)
THEOREM Extremes == Spec => []ExtremesAreExact
<1>1. IInv => ExtremesAreExact
  <2> SUFFICES ASSUME IInv, exact, span > 0
               PROVE  (share = 0 => cpu = 0) /\ (share = span => cpu = 10000 * counted)
    BY DEF ExtremesAreExact
  <2>1. /\ cpu \in Nat /\ span \in Nat \ {0} /\ share \in Nat /\ counted \in Nat
        /\ 2 * (cpu * span) <= 20000 * (share * counted) + span
        /\ 20000 * (share * counted) <= 2 * (cpu * span) + span
    <3>1. cpu # Absent
      BY DEF IInv, TruthOK, CpuTruth, CpuExactWhenWhole
    <3> QED
      BY <3>1 DEF IInv, TypeOK, TruthOK, CpuTruth, CpuNeverOverstated, CpuExactWhenWhole
  <2>2. ASSUME share = 0 PROVE cpu = 0
    <3>1. share * counted = 0 /\ 0 * span = 0
      BY <2>1, <2>2
    <3>2. 2 * (cpu * span) <= 2 * (0 * span) + span
      BY <2>1, <3>1
    <3>3. cpu <= 0
      BY <2>1, <3>2, RoundedBelow
    <3> QED
      BY <2>1, <3>3
  <2>3. ASSUME share = span PROVE cpu = 10000 * counted
    <3> DEFINE k == 10000 * counted
    <3>1. k \in Nat /\ 20000 * (share * counted) = 2 * (k * span)
      BY <2>1, <2>3, Z3
    <3> HIDE DEF k
    <3>2. cpu <= k
      BY <2>1, <3>1, RoundedBelow
    <3>3. k <= cpu
      BY <2>1, <3>1, RoundedAbove
    <3> QED
      BY <2>1, <3>1, <3>2, <3>3 DEF k
  <2> QED
    BY <2>2, <2>3
<1> QED
  BY <1>1, Invariance, PTL
=============================================================================
