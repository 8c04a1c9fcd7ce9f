------------------------------ MODULE Collector ------------------------------
(***************************************************************************)
(* AgentScheduler (services/scheduler.py) and DockerMonitor                *)
(* (services/docker.py): one task that samples the host, connects to the   *)
(* Docker daemon when it has no connection, lists and inspects the         *)
(* containers, records what it has seen, and survives its own faults.      *)
(* "loop" is where that task is; every await is a step, and stop() may     *)
(* cancel the task at each of them.                                        *)
(*                                                                         *)
(* Recording an event is one step here, which succeeds iff SQLite works;   *)
(* module Delivery has its details.                                        *)
(***************************************************************************)
EXTENDS Naturals

CONSTANT Containers

VARIABLES
  dockerUp,     \* the Docker daemon answers (external)
  sqliteUp,     \* SQLite takes commits (external)
  present,      \* containers on the host (external)
  loop,         \* where the task is
  client,       \* DockerMonitor._docker is set
  available,    \* DockerMonitor.available
  shown,        \* AppRuntime.docker.available, which /health reports
  open,         \* aiodocker clients opened and not closed
  todo, states, \* collect(): containers listed and not yet inspected; results
  steady,       \* history: containers that stayed ever since the listing, and
                \*   did not answer with something unusable
  blip          \* history: the daemon went away or came back since the listing

worldVars == <<dockerUp, sqliteUp, present>>
clientVars == <<client, available, open>>
collectVars == <<todo, states, steady, blip>>
vars == <<worldVars, loop, clientVars, shown, collectVars>>

Connecting == {"starting", "connecting"}

TypeOK ==
  /\ dockerUp \in BOOLEAN /\ sqliteUp \in BOOLEAN /\ present \subseteq Containers
  /\ loop \in {"off", "sampling", "metrics", "docker", "listing", "inspecting",
               "recording", "fault", "sleeping", "stopping"} \cup Connecting
  /\ client \in BOOLEAN /\ available \in BOOLEAN /\ shown \in BOOLEAN
  /\ open \in Nat
  /\ todo \subseteq Containers /\ states \subseteq Containers
  /\ steady \subseteq Containers /\ blip \in BOOLEAN

Init ==
  /\ dockerUp \in BOOLEAN /\ sqliteUp \in BOOLEAN /\ present \in SUBSET Containers
  /\ loop = "off"
  /\ client = FALSE /\ available = FALSE /\ shown = FALSE /\ open = 0
  /\ todo = {} /\ states = {} /\ steady = {} /\ blip = FALSE

-----------------------------------------------------------------------------
(* DockerMonitor.connect, start() and the Docker half of _collect_once() *)

(* Where the scheduler goes on when connect() has returned. *)
AfterConnect(from, ok) ==
  IF from = "starting" THEN "sampling" ELSE IF ok THEN "listing" ELSE "sleeping"

(***************************************************************************)
(* aiodocker.Docker() raises when it finds no socket; otherwise there is a *)
(* client, and version() is awaited.                                       *)
(***************************************************************************)
OpenClient(from) ==
  \/ /\ ~dockerUp
     /\ available' = FALSE /\ shown' = FALSE
     /\ loop' = AfterConnect(from, FALSE)
     /\ UNCHANGED <<client, open>>
  \/ /\ client' = TRUE /\ open' = open + 1
     /\ loop' = from
     /\ UNCHANGED <<available, shown>>

(* A new process: DockerMonitor and AppRuntime are new, start() connects. *)
Start ==
  /\ loop = "off"
  /\ OpenClient("starting")
  /\ UNCHANGED <<worldVars, collectVars>>

(* Mutant: start() does not copy the state of the monitor. *)
VersionAnswersUnshown ==
  /\ loop \in Connecting /\ dockerUp
  /\ available' = TRUE
  /\ shown' = (shown \/ loop = "connecting")
  /\ loop' = AfterConnect(loop, TRUE)
  /\ UNCHANGED <<worldVars, client, open, collectVars>>

VersionAnswers ==
  /\ loop \in Connecting /\ dockerUp
  /\ available' = TRUE /\ shown' = TRUE
  /\ loop' = AfterConnect(loop, TRUE)
  /\ UNCHANGED <<worldVars, client, open, collectVars>>

(* Mutant: connect() does not close the client it gives up. *)
VersionFailsOpen ==
  /\ loop \in Connecting /\ ~dockerUp
  /\ available' = FALSE /\ shown' = FALSE
  /\ loop' = AfterConnect(loop, FALSE)
  /\ UNCHANGED <<worldVars, client, open, collectVars>>

VersionFails ==
  /\ loop \in Connecting /\ ~dockerUp
  /\ available' = FALSE /\ shown' = FALSE
  /\ client' = FALSE /\ open' = open - 1
  /\ loop' = AfterConnect(loop, FALSE)
  /\ UNCHANGED <<worldVars, collectVars>>

(* Mutant: every round connects. *)
CheckDockerAlways ==
  /\ loop = "docker"
  /\ OpenClient("connecting")
  /\ UNCHANGED <<worldVars, collectVars>>

(* Mutant: no round connects; only start() does. *)
CheckDockerOnly ==
  /\ loop = "docker"
  /\ shown' = available
  /\ loop' = IF available THEN "listing" ELSE "sleeping"
  /\ UNCHANGED <<worldVars, clientVars, collectVars>>

(* connect() is called only while the monitor is not available. *)
CheckDocker ==
  /\ loop = "docker"
  /\ IF available
     THEN /\ shown' = TRUE
          /\ loop' = "listing"
          /\ UNCHANGED clientVars
     ELSE OpenClient("connecting")
  /\ UNCHANGED <<worldVars, collectVars>>

-----------------------------------------------------------------------------
(* DockerMonitor.collect *)

(* Mutant: containers.list() waits for the daemon. *)
ListWaits ==
  /\ loop = "listing" /\ dockerUp
  /\ loop' = "inspecting"
  /\ todo' = present /\ states' = {} /\ steady' = present /\ blip' = FALSE
  /\ UNCHANGED <<worldVars, clientVars, shown>>

(* containers.list() raises if the daemon is gone. *)
List ==
  /\ loop = "listing"
  /\ IF dockerUp
     THEN /\ loop' = "inspecting"
          /\ todo' = present /\ states' = {} /\ steady' = present /\ blip' = FALSE
     ELSE /\ loop' = "fault"
          /\ UNCHANGED collectVars
  /\ UNCHANGED <<worldVars, clientVars, shown>>

Inspectable(c) == dockerUp /\ c \in present

(* Mutant: the first container that cannot be inspected ends the loop. *)
InspectAborts(c) ==
  /\ loop = "inspecting" /\ c \in todo
  /\ todo' = IF Inspectable(c) THEN todo \ {c} ELSE {}
  /\ states' = IF Inspectable(c) THEN states \cup {c} ELSE states
  /\ UNCHANGED <<worldVars, loop, clientVars, shown, steady, blip>>

(***************************************************************************)
(* _build_state(): show() and stats() are one step.  A container or a      *)
(* daemon that goes between them has the same outcome as one that goes     *)
(* before: the container is skipped.                                       *)
(***************************************************************************)
Inspect(c) ==
  /\ loop = "inspecting" /\ c \in todo
  /\ todo' = todo \ {c}
  /\ states' = IF Inspectable(c) THEN states \cup {c} ELSE states
  /\ UNCHANGED <<worldVars, loop, clientVars, shown, steady, blip>>

(***************************************************************************)
(* _build_state() raises for a container that is there: the daemon answers *)
(* with an error, or with a value that does not fit ContainerState.        *)
(***************************************************************************)
InspectFails(c) ==
  /\ loop = "inspecting" /\ c \in todo
  /\ Inspectable(c)
  /\ todo' = todo \ {c}
  /\ steady' = steady \ {c}
  /\ UNCHANGED <<worldVars, loop, clientVars, shown, states, blip>>

CollectEnds ==
  /\ loop = "inspecting" /\ todo = {}
  /\ loop' = "recording"
  /\ UNCHANGED <<worldVars, clientVars, shown, collectVars>>

-----------------------------------------------------------------------------
(* _metrics_loop, _guard, _record_fault and the rest of _collect_once *)

(* collect_server_metrics() is synchronous; psutil may raise. *)
Sample ==
  /\ loop = "sampling"
  /\ loop' \in {"metrics", "fault"}
  /\ UNCHANGED <<worldVars, clientVars, shown, collectVars>>

RecordMetrics ==
  /\ loop = "metrics"
  /\ loop' = IF sqliteUp THEN "docker" ELSE "fault"
  /\ UNCHANGED <<worldVars, clientVars, shown, collectVars>>

RecordSnapshot ==
  /\ loop = "recording"
  /\ loop' = IF sqliteUp THEN "sleeping" ELSE "fault"
  /\ todo' = {} /\ states' = {} /\ steady' = {} /\ blip' = FALSE
  /\ UNCHANGED <<worldVars, clientVars, shown>>

(* Mutant: the fault is recorded again until that succeeds. *)
RecordFaultUntilSaved ==
  /\ loop = "fault"
  /\ loop' = IF sqliteUp THEN "sleeping" ELSE "fault"
  /\ UNCHANGED <<worldVars, clientVars, shown, collectVars>>

(* Whether or not the fault can be recorded, the loop goes on. *)
RecordFault ==
  /\ loop = "fault"
  /\ loop' = "sleeping"
  /\ UNCHANGED <<worldVars, clientVars, shown, collectVars>>

Wake ==
  /\ loop = "sleeping"
  /\ loop' = "sampling"
  /\ UNCHANGED <<worldVars, clientVars, shown, collectVars>>

Loop ==
  \/ VersionAnswers \/ VersionFails \/ CheckDocker
  \/ List \/ CollectEnds \/ \E c \in Containers : Inspect(c) \/ InspectFails(c)
  \/ Sample \/ RecordMetrics \/ RecordSnapshot \/ RecordFault \/ Wake

(***************************************************************************)
(* stop() cancels the task wherever it is.  CancelledError is no           *)
(* Exception: it leaves connect(), _guard() and _record_fault() untouched  *)
(* by their handlers.                                                      *)
(***************************************************************************)
Cancel ==
  /\ loop \notin {"off", "starting", "stopping"}
  /\ loop' = "stopping"
  /\ UNCHANGED <<worldVars, clientVars, shown, collectVars>>

(* Mutant: close() does not check that there is a client. *)
CloseUnchecked ==
  /\ loop = "stopping"
  /\ open' = open - 1
  /\ client' = FALSE /\ available' = FALSE /\ shown' = FALSE
  /\ loop' = "off"
  /\ todo' = {} /\ states' = {} /\ steady' = {} /\ blip' = FALSE
  /\ UNCHANGED worldVars

(* docker.close(); the process ends, and with it monitor and runtime. *)
Close ==
  /\ loop = "stopping"
  /\ open' = IF client THEN open - 1 ELSE open
  /\ client' = FALSE /\ available' = FALSE /\ shown' = FALSE
  /\ loop' = "off"
  /\ todo' = {} /\ states' = {} /\ steady' = {} /\ blip' = FALSE
  /\ UNCHANGED worldVars

-----------------------------------------------------------------------------
(* The world *)

DockerChanges ==
  /\ dockerUp' = ~dockerUp
  /\ blip' = (blip \/ loop \in {"inspecting", "recording"})
  /\ UNCHANGED <<sqliteUp, present, loop, clientVars, shown, todo, states, steady>>

SqliteChanges ==
  /\ sqliteUp' = ~sqliteUp
  /\ UNCHANGED <<dockerUp, present, loop, clientVars, shown, collectVars>>

ContainerChanges(c) ==
  /\ present' = IF c \in present THEN present \ {c} ELSE present \cup {c}
  /\ steady' = steady \ {c}
  /\ UNCHANGED <<dockerUp, sqliteUp, loop, clientVars, shown, todo, states, blip>>

Next ==
  \/ Start \/ Loop \/ Cancel \/ Close
  \/ DockerChanges \/ SqliteChanges \/ \E c \in Containers : ContainerChanges(c)

Spec == Init /\ [][Next]_vars

(***************************************************************************)
(* The event loop runs the task when it is ready; what the task awaits     *)
(* answers or raises.  psutil does not fail for ever: if the sampling is   *)
(* tried again and again, it succeeds again and again.                     *)
(***************************************************************************)
FairSpec ==
  /\ Spec
  /\ WF_vars(Loop)
  /\ SF_vars(Sample /\ loop' = "metrics")

-----------------------------------------------------------------------------
(* Properties *)

Running == loop \notin {"off", "starting", "stopping"}

(***************************************************************************)
(* No client is ever overwritten or forgotten: connect() finds no open one *)
(* and close() finds every one, wherever the task is cancelled             *)
(* (DockerMonitor.connect, _safe_close, close).                            *)
(***************************************************************************)
NoClientLeaks == open = IF client THEN 1 ELSE 0

(***************************************************************************)
(* While the monitor says available, it has a client, so collect() never   *)
(* takes its early return and reports "no containers" for want of one;     *)
(* and a task that is not connecting has no half-open client.              *)
(***************************************************************************)
ClientIffAvailable ==
  /\ available => client
  /\ client => available \/ loop \in Connecting \cup {"stopping"}

(***************************************************************************)
(* /health lags behind the monitor only while it connects.                 *)
(***************************************************************************)
ShownFollowsMonitor == Running /\ loop # "connecting" => shown = available

(***************************************************************************)
(* A container that stays through the round and answers properly, on a     *)
(* daemon that stays, is in the snapshot, whichever others vanish between  *)
(* list and show or cannot be read (DockerMonitor.collect).                *)
(***************************************************************************)
SteadyAreReported == loop = "recording" /\ ~blip => steady \subseteq states

(***************************************************************************)
(* domain/metrics.py:42, of the snapshot that is recorded: "All containers *)
(* on the host at a point in time."  Those that were there all the time    *)
(* are in it, at least.                                                    *)
(***************************************************************************)
SnapshotIsComplete == loop = "recording" => steady \subseteq states

(***************************************************************************)
(* The loop never dies: rounds that raise, even while recording their own  *)
(* fault, are followed by further rounds (AgentScheduler._guard).          *)
(***************************************************************************)
LoopGoesOn == []<>(Running => loop = "sampling")

(***************************************************************************)
(* Host metrics do not depend on Docker (README.md:115, "it keeps running  *)
(* (host metrics only)"): if SQLite works, they are recorded again and     *)
(* again, whatever the daemon does.                                        *)
(***************************************************************************)
MetricsGoOn == <>[](Running /\ sqliteUp) => []<>(loop = "docker")

(***************************************************************************)
(* A daemon that comes and stays is found, without a restart of the agent  *)
(* (AgentScheduler._collect_once).                                         *)
(***************************************************************************)
DockerIsFound == <>[](Running /\ sqliteUp /\ dockerUp) => <>[]shown

(***************************************************************************)
(* README.md:115: "Without the socket it keeps running (host metrics only) *)
(* and reports `docker monitor unavailable` in `/health`".                 *)
(***************************************************************************)
DockerLossIsShown == <>[](Running /\ sqliteUp /\ ~dockerUp) => <>[]~shown
=============================================================================
