--------------------------- MODULE CollectorProofs ---------------------------
(***************************************************************************)
(* Proofs about the collector, for every set of containers.                *)
(***************************************************************************)
EXTENDS Collector, TLAPS

(***************************************************************************)
(* What the loop knows at each place: a client is open exactly while it    *)
(* connects or the monitor is available; before start() there is nothing.  *)
(***************************************************************************)
PlaceOK ==
  /\ loop = "off" => ~client /\ ~available
  /\ loop \in Connecting => client /\ ~available
  /\ loop \in {"listing", "inspecting", "recording"} => available

(***************************************************************************)
(* A steady container is present, and unless the daemon has been away, the *)
(* daemon answers and the container is either still to be inspected or has *)
(* been reported.                                                          *)
(***************************************************************************)
SteadyOK ==
  /\ steady \subseteq present
  /\ loop \in {"inspecting", "recording"} /\ ~blip =>
       dockerUp /\ steady \subseteq states \cup todo
  /\ loop = "recording" => todo = {}

IInv ==
  /\ TypeOK
  /\ NoClientLeaks
  /\ ClientIffAvailable
  /\ ShownFollowsMonitor
  /\ PlaceOK
  /\ SteadyOK

USE DEF Connecting, Running, worldVars, clientVars, collectVars

(* Before start() there is no client, and nothing is listed. *)
LEMMA InitIInv == Init => IInv
<1> SUFFICES ASSUME Init PROVE IInv
  OBVIOUS
<1> USE DEF Init
<1>1. TypeOK
  BY DEF TypeOK
<1>2. NoClientLeaks /\ ClientIffAvailable /\ ShownFollowsMonitor
  BY DEF NoClientLeaks, ClientIffAvailable, ShownFollowsMonitor
<1>3. PlaceOK /\ SteadyOK
  BY DEF PlaceOK, SteadyOK
<1> QED
  BY <1>1, <1>2, <1>3 DEF IInv

(* Every await of the loop, its cancellation, and the world keep the invariant. *)
LEMMA StepIInv == ASSUME IInv, [Next]_vars PROVE IInv'
<1> USE DEF IInv, TypeOK
<1>1. CASE Start
  <2> USE <1>1 DEF Start, OpenClient, AfterConnect
  <2>1. TypeOK'
    <3>1. open' \in Nat
      OBVIOUS
    <3> QED
      BY <3>1
  <2>2. NoClientLeaks'
    BY DEF NoClientLeaks, PlaceOK
  <2>3. ClientIffAvailable'
    BY DEF ClientIffAvailable, PlaceOK
  <2>4. ShownFollowsMonitor'
    BY DEF ShownFollowsMonitor
  <2>5. PlaceOK'
    BY DEF PlaceOK
  <2>6. SteadyOK'
    BY DEF SteadyOK
  <2> QED
    BY <2>1, <2>2, <2>3, <2>4, <2>5, <2>6
<1>2. CASE VersionAnswers
  <2> USE <1>2 DEF VersionAnswers, AfterConnect
  <2>1. TypeOK' /\ NoClientLeaks'
    BY DEF NoClientLeaks
  <2>2. ClientIffAvailable' /\ ShownFollowsMonitor' /\ PlaceOK'
    BY DEF ClientIffAvailable, ShownFollowsMonitor, PlaceOK
  <2>3. SteadyOK'
    BY DEF SteadyOK
  <2> QED
    BY <2>1, <2>2, <2>3
<1>3. CASE VersionFails
  <2> USE <1>3 DEF VersionFails, AfterConnect
  <2>1. TypeOK'
    <3>1. open' \in Nat
      BY DEF NoClientLeaks, PlaceOK
    <3> QED
      BY <3>1
  <2>2. NoClientLeaks'
    BY DEF NoClientLeaks, PlaceOK
  <2>3. ClientIffAvailable'
    BY DEF ClientIffAvailable
  <2>4. ShownFollowsMonitor'
    BY DEF ShownFollowsMonitor
  <2>5. PlaceOK'
    BY DEF PlaceOK
  <2>6. SteadyOK'
    BY DEF SteadyOK
  <2> QED
    BY <2>1, <2>2, <2>3, <2>4, <2>5, <2>6
<1>4. CASE CheckDocker
  <2> USE <1>4 DEF CheckDocker, OpenClient, AfterConnect
  <2>1. TypeOK'
    <3>1. open' \in Nat
      OBVIOUS
    <3> QED
      BY <3>1
  <2>2. NoClientLeaks'
    BY DEF NoClientLeaks, ClientIffAvailable
  <2>3. ClientIffAvailable'
    BY DEF ClientIffAvailable
  <2>4. ShownFollowsMonitor'
    <3>1. CASE available
      BY <3>1 DEF ShownFollowsMonitor
    <3>2. CASE ~available
      BY <3>2 DEF ShownFollowsMonitor
    <3> QED
      BY <3>1, <3>2
  <2>5. PlaceOK'
    BY DEF PlaceOK
  <2>6. SteadyOK'
    BY DEF SteadyOK
  <2> QED
    BY <2>1, <2>2, <2>3, <2>4, <2>5, <2>6
<1>5. CASE List
  <2> USE <1>5 DEF List
  <2>1. TypeOK' /\ NoClientLeaks'
    BY DEF NoClientLeaks
  <2>2. ClientIffAvailable' /\ ShownFollowsMonitor' /\ PlaceOK'
    BY DEF ClientIffAvailable, ShownFollowsMonitor, PlaceOK
  <2>3. SteadyOK'
    BY DEF SteadyOK
  <2> QED
    BY <2>1, <2>2, <2>3
<1>6. CASE \E c \in Containers : Inspect(c) \/ InspectFails(c)
  <2> USE <1>6 DEF Inspect, InspectFails, Inspectable
  <2>1. TypeOK' /\ NoClientLeaks'
    BY DEF NoClientLeaks
  <2>2. ClientIffAvailable' /\ ShownFollowsMonitor' /\ PlaceOK'
    BY DEF ClientIffAvailable, ShownFollowsMonitor, PlaceOK
  <2>3. SteadyOK'
    BY DEF SteadyOK
  <2> QED
    BY <2>1, <2>2, <2>3
<1>7. CASE CollectEnds
  <2> USE <1>7 DEF CollectEnds
  <2>1. TypeOK' /\ NoClientLeaks'
    BY DEF NoClientLeaks
  <2>2. ClientIffAvailable' /\ ShownFollowsMonitor' /\ PlaceOK'
    BY DEF ClientIffAvailable, ShownFollowsMonitor, PlaceOK
  <2>3. SteadyOK'
    BY DEF SteadyOK
  <2> QED
    BY <2>1, <2>2, <2>3
<1>8. CASE Sample \/ RecordMetrics \/ RecordSnapshot
  <2> USE <1>8 DEF Sample, RecordMetrics, RecordSnapshot
  <2>1. TypeOK' /\ NoClientLeaks'
    <3>1. TypeOK'
      OBVIOUS
    <3>2. NoClientLeaks'
      BY DEF NoClientLeaks
    <3> QED
      BY <3>1, <3>2
  <2>2. ClientIffAvailable' /\ ShownFollowsMonitor' /\ PlaceOK'
    BY DEF ClientIffAvailable, ShownFollowsMonitor, PlaceOK
  <2>3. SteadyOK'
    BY DEF SteadyOK
  <2> QED
    BY <2>1, <2>2, <2>3
<1>9. CASE RecordFault \/ Wake \/ Cancel
  <2> USE <1>9 DEF RecordFault, Wake, Cancel
  <2>1. TypeOK' /\ NoClientLeaks'
    BY DEF NoClientLeaks
  <2>2. ClientIffAvailable' /\ ShownFollowsMonitor' /\ PlaceOK'
    BY DEF ClientIffAvailable, ShownFollowsMonitor, PlaceOK
  <2>3. SteadyOK'
    BY DEF SteadyOK
  <2> QED
    BY <2>1, <2>2, <2>3
<1>10. CASE Close
  <2> USE <1>10 DEF Close
  <2>1. TypeOK'
    <3>1. open' \in Nat
      BY DEF NoClientLeaks
    <3> QED
      BY <3>1
  <2>2. NoClientLeaks'
    BY DEF NoClientLeaks
  <2>3. ClientIffAvailable'
    BY DEF ClientIffAvailable
  <2>4. ShownFollowsMonitor'
    BY DEF ShownFollowsMonitor
  <2>5. PlaceOK'
    BY DEF PlaceOK
  <2>6. SteadyOK'
    BY DEF SteadyOK
  <2> QED
    BY <2>1, <2>2, <2>3, <2>4, <2>5, <2>6
<1>11. CASE DockerChanges \/ SqliteChanges
  <2> USE <1>11 DEF DockerChanges, SqliteChanges
  <2>1. TypeOK' /\ NoClientLeaks'
    <3>1. TypeOK'
      OBVIOUS
    <3>2. NoClientLeaks'
      BY DEF NoClientLeaks
    <3> QED
      BY <3>1, <3>2
  <2>2. ClientIffAvailable' /\ ShownFollowsMonitor' /\ PlaceOK'
    BY DEF ClientIffAvailable, ShownFollowsMonitor, PlaceOK
  <2>3. SteadyOK'
    BY DEF SteadyOK
  <2> QED
    BY <2>1, <2>2, <2>3
<1>12. CASE \E c \in Containers : ContainerChanges(c)
  <2> USE <1>12 DEF ContainerChanges
  <2>1. TypeOK' /\ NoClientLeaks'
    BY DEF NoClientLeaks
  <2>2. ClientIffAvailable' /\ ShownFollowsMonitor' /\ PlaceOK'
    BY DEF ClientIffAvailable, ShownFollowsMonitor, PlaceOK
  <2>3. SteadyOK'
    BY DEF SteadyOK
  <2> QED
    BY <2>1, <2>2, <2>3
<1>13. CASE UNCHANGED vars
  <2> USE <1>13 DEF vars
  <2>1. TypeOK' /\ NoClientLeaks'
    BY DEF NoClientLeaks
  <2>2. ClientIffAvailable' /\ ShownFollowsMonitor' /\ PlaceOK'
    BY DEF ClientIffAvailable, ShownFollowsMonitor, PlaceOK
  <2>3. SteadyOK'
    BY DEF SteadyOK
  <2> QED
    BY <2>1, <2>2, <2>3
<1> QED
  BY <1>1, <1>2, <1>3, <1>4, <1>5, <1>6, <1>7,
     <1>8, <1>9, <1>10, <1>11, <1>12, <1>13 DEF Next, Loop

(* IInv holds in every behaviour of the collector. *)
THEOREM Invariance == Spec => []IInv
  BY InitIInv, StepIInv, PTL DEF Spec

(***************************************************************************)
(* Every variable keeps its type.                                          *)
(***************************************************************************)
THEOREM TypeCorrect == Spec => []TypeOK
<1>1. IInv => TypeOK
  BY DEF IInv
<1> QED
  BY <1>1, Invariance, PTL

(***************************************************************************)
(* No Docker client is overwritten or forgotten, wherever the task is      *)
(* cancelled (DockerMonitor.connect, close).                               *)
(***************************************************************************)
THEOREM NoLeak == Spec => []NoClientLeaks
<1>1. IInv => NoClientLeaks
  BY DEF IInv
<1> QED
  BY <1>1, Invariance, PTL

(***************************************************************************)
(* While the monitor says available it has a client, and a task that does  *)
(* not connect has no half-open one (DockerMonitor.connect, collect).      *)
(***************************************************************************)
THEOREM ClientMatches == Spec => []ClientIffAvailable
<1>1. IInv => ClientIffAvailable
  BY DEF IInv
<1> QED
  BY <1>1, Invariance, PTL

(***************************************************************************)
(* /health shows what the monitor knows, except while it connects.         *)
(***************************************************************************)
THEOREM ShownFollows == Spec => []ShownFollowsMonitor
<1>1. IInv => ShownFollowsMonitor
  BY DEF IInv
<1> QED
  BY <1>1, Invariance, PTL

(***************************************************************************)
(* Containers that stay through a round and answer properly are reported,  *)
(* however many others vanish or cannot be read (DockerMonitor.collect).                                         *)
(***************************************************************************)
THEOREM SteadyReported == Spec => []SteadyAreReported
<1>1. IInv => SteadyAreReported
  BY DEF IInv, SteadyOK, SteadyAreReported
<1> QED
  BY <1>1, Invariance, PTL

(***************************************************************************)
(* Once the monitor is available it stays so until the agent stops, daemon *)
(* or no daemon: connect() alone clears the flag, and it is not called     *)
(* while the flag is set.  This is why a lost daemon is not shown          *)
(* (DockerMonitor.connect, AgentScheduler._collect_once).                  *)
(***************************************************************************)
THEOREM AvailableSticks == Spec => [][available => available' \/ loop' = "off"]_vars
<1>1. ASSUME IInv, [Next]_vars, available
      PROVE  available' \/ loop' = "off"
  <2>1. loop \notin Connecting \cup {"off"}
    BY <1>1 DEF IInv, PlaceOK
  <2>2. CASE Loop
    BY <1>1, <2>1, <2>2 DEF Loop, VersionAnswers, VersionFails, CheckDocker, List, CollectEnds,
       Inspect, InspectFails, Sample, RecordMetrics, RecordSnapshot, RecordFault, Wake
  <2>3. CASE \/ Start \/ Cancel \/ Close \/ DockerChanges \/ SqliteChanges
             \/ \E c \in Containers : ContainerChanges(c)
    BY <1>1, <2>1, <2>3 DEF Start, Cancel, Close, DockerChanges, SqliteChanges, ContainerChanges
  <2> QED
    BY <1>1, <2>2, <2>3 DEF Next, vars
<1>2. IInv /\ [Next]_vars => [available => available' \/ loop' = "off"]_vars
  BY <1>1
<1> QED
  BY <1>2, Invariance, PTL DEF Spec
=============================================================================
