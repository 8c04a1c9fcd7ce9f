------------------------------- MODULE Delivery -------------------------------
(***************************************************************************)
(* The delivery path of the agent from end to end: an event is committed   *)
(* to the SQLite history, enqueued through the gateway, drained by the     *)
(* forwarder and taken by the server, while the agent, NATS and the server *)
(* crash, restart and time out.                                            *)
(*                                                                         *)
(* The five record methods of EventService (services/events.py) have the   *)
(* same control for every kind of event: add, commit, publish.  Reports    *)
(* come from POST /reports, many at a time; the other events come from the *)
(* one scheduler task, which records one at a time and is cancelled at     *)
(* shutdown.  lifespan() (main.py) starts the gateway and the scheduler,   *)
(* and stops them in the opposite order.                                   *)
(***************************************************************************)
EXTENDS NatsGateway

CONSTANT Reports    \* the events that arrive through POST /reports

ASSUME ReportsAssumption == Reports \subseteq Events

VARIABLES
  history,    \* events committed to SQLite; survives restarts
  record,     \* where the handler that records each event is
  stage       \* where lifespan() is; "down": no process

recVars == <<history, record, stage>>
vars    == <<jsVars, gwVars, recVars>>

InFlight == {"committed", "waiting"}

RecordTypeOK ==
  /\ history \subseteq Events
  /\ record \in [Events -> {"new", "done", "failed", "cut"} \cup InFlight]
  /\ stage \in {"down", "starting", "serving", "draining", "stopping", "closing"}

TypeOK == JSTypeOK /\ GWTypeOK /\ RecordTypeOK

Init ==
  /\ JSInit
  /\ GWInit
  /\ history = {}
  /\ record = [e \in Events |-> "new"]
  /\ stage = "down"

-----------------------------------------------------------------------------
(* Recording an event *)

(***************************************************************************)
(* Requests are taken until the signal to end; the scheduler goes on while *)
(* the last requests finish.                                               *)
(***************************************************************************)
SchedulerFree == \A f \in Events \ Reports : record[f] \notin InFlight

MayRecord(e) ==
  /\ record[e] = "new"
  /\ \/ e \in Reports /\ stage = "serving"
     \/ e \notin Reports /\ stage \in {"serving", "draining"} /\ SchedulerFree

SetRecord(e, step) == record' = [record EXCEPT ![e] = step]

Commit(e) ==
  /\ MayRecord(e)
  /\ history' = history \cup {e}
  /\ SetRecord(e, "committed")
  /\ UNCHANGED <<jsVars, gwVars, stage>>

(* Mutant: the error is raised after the event has been saved. *)
CommitFailsSaved(e) ==
  /\ MayRecord(e)
  /\ history' = history \cup {e}
  /\ SetRecord(e, "failed")
  /\ UNCHANGED <<jsVars, gwVars, stage>>

(* session.commit() raises: the caller gets an error, nothing is enqueued. *)
CommitFails(e) ==
  /\ MayRecord(e)
  /\ SetRecord(e, "failed")
  /\ UNCHANGED <<jsVars, gwVars, history, stage>>

(* Mutant: an event may be published before it is committed. *)
EnqueueBeforeCommit(e) ==
  /\ record[e] = "committed" \/ MayRecord(e)
  /\ PublishSends(e)
  /\ SetRecord(e, "waiting")
  /\ UNCHANGED <<history, stage>>

(***************************************************************************)
(* _enqueue() awaits publish() and ignores its result, so a handler whose  *)
(* publish returned False is as done as one whose publish returned True:   *)
(* a report is answered 202 either way.                                    *)
(***************************************************************************)
EnqueueStarts(e) ==
  /\ record[e] = "committed"
  /\ PublishSends(e)
  /\ SetRecord(e, "waiting")
  /\ UNCHANGED <<history, stage>>

EnqueueEnds(e) ==
  /\ \/ record[e] = "committed" /\ PublishRefused
     \/ record[e] = "committed" /\ broker = "closed" /\ PublishRaises(e)
     \/ record[e] = "waiting" /\ (PublishConfirmed(e) \/ PublishRaises(e))
  /\ SetRecord(e, "done")
  /\ UNCHANGED <<history, stage>>

-----------------------------------------------------------------------------
(* The process *)

(***************************************************************************)
(* _bootstrap_identity() raises, with TokenMismatchError or another        *)
(* exception of the steps in Tokens: the process ends before it has a      *)
(* gateway, and is started again.                                          *)
(***************************************************************************)
BootFails ==
  /\ stage = "down"
  /\ Fault
  /\ UNCHANGED <<jsVars, connVars, workVars, healthVars, serverVars, recVars>>

(* The identity is ready, and lifespan() starts the gateway. *)
Boot(t) ==
  /\ Start(t)
  /\ stage' = "starting"
  /\ UNCHANGED <<history, record>>

(* The first attempt to connect is over, with or without success. *)
Serve ==
  /\ stage = "starting" /\ dialing # "start"
  /\ stage' = "serving"
  /\ UNCHANGED <<jsVars, gwVars, history, record>>

(* The signal to end: uvicorn takes no more requests. *)
Terminate ==
  /\ stage = "serving"
  /\ Fault
  /\ stage' = "draining"
  /\ UNCHANGED <<jsVars, connVars, workVars, healthVars, serverVars, history, record>>

CutHandlers(S) ==
  record' = [e \in Events |-> IF e \in S /\ record[e] \in InFlight
                              THEN "cut" ELSE record[e]]

(* Mutant: stop() forgets to cancel and await the task. *)
StopSchedulerLeavesTask ==
  /\ stage = "draining"
  /\ \A e \in Reports : record[e] \notin InFlight
  /\ stage' = "stopping"
  /\ UNCHANGED <<jsVars, gwVars, history, record>>

(***************************************************************************)
(* uvicorn lets the requests finish, then lifespan() goes on: it cancels   *)
(* the scheduler task wherever that is, and waits for its end.             *)
(***************************************************************************)
StopScheduler ==
  /\ stage = "draining"
  /\ \A e \in Reports : record[e] \notin InFlight
  /\ CutHandlers(Events \ Reports)
  /\ stage' = "stopping"
  /\ UNCHANGED <<jsVars, gwVars, history>>

(* Mutant: close() waits until the worker holds no message. *)
CloseGatewayWhenIdle ==
  /\ stage = "stopping" /\ phase = "idle"
  /\ Close
  /\ AbandonRequest
  /\ stage' = "closing"
  /\ UNCHANGED <<jsVars, server, ingests, faults, history, record>>

(* The broker stops in the middle of whatever the worker does. *)
CloseGateway ==
  /\ stage = "stopping"
  /\ Close
  /\ AbandonRequest
  /\ stage' = "closing"
  /\ UNCHANGED <<jsVars, server, ingests, faults, history, record>>

Exit ==
  /\ stage = "closing"
  /\ ForgetGateway
  /\ stage' = "down"
  /\ UNCHANGED <<jsVars, serverVars, faults, history, record>>

(* Killed, at any time. *)
Crash ==
  /\ stage # "down"
  /\ Fault
  /\ ForgetGateway
  /\ AbandonRequest
  /\ CutHandlers(Events)
  /\ stage' = "down"
  /\ UNCHANGED <<jsVars, server, ingests, history>>

-----------------------------------------------------------------------------

Recording ==
  \E e \in Events : Commit(e) \/ CommitFails(e) \/ EnqueueStarts(e) \/ EnqueueEnds(e)

Lifespan == Serve \/ StopScheduler \/ CloseGateway \/ Exit

Process ==
  \/ \E t \in BOOLEAN : Boot(t)
  \/ BootFails
  \/ Lifespan
  \/ Terminate
  \/ Crash

Dialing == ConnectSucceeds \/ ConnectFails \/ RetryWakes

Environment ==
  \/ NatsGoesDown \/ NatsComesUp
  \/ Reconnect \/ GiveUp
  \/ \E e \in Events : Store(e) \/ AckWaitExpires(e) \/ LateArrival(e)
  \/ \E s \in Replies \cup {NoAnswer} : ServerChanges(s) \/ ServerRecovers(s)

Forwarding == Worker \/ \E e \in Events : Fetch(e)

Next ==
  \/ Recording
  \/ Process
  \/ (Dialing \/ Environment \/ Forwarding) /\ UNCHANGED recVars

Spec == Init /\ [][Next]_vars

(***************************************************************************)
(* Fairness.  The asyncio loop runs every ready task, so lifespan(), each  *)
(* handler, the retry task and the worker take their next step.            *)
(* docker-compose.yml restarts the agent (restart: unless-stopped), and    *)
(* what makes its bootstrap fail is repaired.  The rest is about the       *)
(* environment: outages of NATS and of the server end, and JetStream       *)
(* stores what it receives and hands out what is ready.                    *)
(* Faults and the signal to end are not fair, and MaxFaults bounds them:   *)
(* after the last one, things are stable.                                  *)
(***************************************************************************)
Quiet(A) == A /\ UNCHANGED recVars

Fairness ==
  /\ WF_vars(\E t \in BOOLEAN : Boot(t))
  /\ WF_vars(Lifespan)
  /\ WF_vars(Quiet(Dialing))
  /\ WF_vars(Quiet(Worker))
  /\ WF_vars(Quiet(\E e \in Events : Fetch(e)))
  /\ WF_vars(Quiet(NatsComesUp))
  /\ WF_vars(Quiet(Reconnect))
  /\ WF_vars(Quiet(\E s \in Replies : ServerRecovers(s)))
  /\ \A e \in Events :
       /\ WF_vars(EnqueueStarts(e) \/ EnqueueEnds(e))
       /\ WF_vars(Quiet(Store(e)))
       /\ WF_vars(Quiet(AckWaitExpires(e)))

FairSpec == Spec /\ Fairness

-----------------------------------------------------------------------------
(* Properties *)

Ingested == {e \in Events : ingests[e] > 0}

(* What POST /health shows of the queue and the server. *)
Health == [queue     |-> queue_connected,
           reachable |-> server_reachable,
           forwarded |-> last_forwarded_at]

(***************************************************************************)
(* The server never answers a POST with a status below 400 other than 2xx. *)
(***************************************************************************)
NoRedirects == \A s \in Replies : Success(s) \/ s >= 400

(***************************************************************************)
(* Nothing overtakes the history: what the server has taken was stored in  *)
(* the queue, and what is in the queue, or may still get there, was        *)
(* committed to SQLite first, even when publishes are stored late and      *)
(* processes crash between commit and publish (the record methods of       *)
(* EventService).                                                          *)
(***************************************************************************)
HistoryThenQueueThenServer ==
  /\ Ingested \cup late \subseteq stream
  /\ stream \cup wire \subseteq history

(***************************************************************************)
(* "Nothing is lost": an acknowledged message, which JetStream will never  *)
(* hand out again, has been taken by the server (NatsGateway._forward).    *)
(***************************************************************************)
AckedIsIngested == acked \subseteq Ingested

(***************************************************************************)
(* The retry loop never pulls a working broker from under the worker or a  *)
(* publisher: while it is still dialing, no broker is set, nothing is on   *)
(* the wire and the worker is idle, so its _safe_close() closes nothing    *)
(* (NatsGateway._retry_loop, _connect_once).                               *)
(***************************************************************************)
DialingTouchesNoBroker ==
  dialing # "done" =>
    /\ broker = "none" /\ wire = {}
    /\ phase = "idle" /\ msg = NoEvent

(***************************************************************************)
(* The worker never works on a message that is already acknowledged: a     *)
(* message redelivered by ack_wait, nack, or restart is dropped for good   *)
(* by the first ack (NatsGateway._forward, one message at a time).         *)
(***************************************************************************)
WorkerHoldsUnacked ==
  phase # "idle" => msg \in stream \ acked

(***************************************************************************)
(* What POST /health shows of the server is earned: it is reachable only   *)
(* in a process that has a token and has forwarded something, and then     *)
(* every "already warned" flag is clear, so the next outage is logged      *)
(* (NatsGateway._forward, AppRuntime).                                     *)
(***************************************************************************)
ReachableIsEarned ==
  Health.reachable =>
    /\ token /\ Health.forwarded
    /\ ~no_token_logged /\ ~auth_logged /\ ~unreachable_logged

(***************************************************************************)
(* POST /health shows the queue connected only while a broker is set, and  *)
(* a forwarding time only when the server has really taken something.      *)
(***************************************************************************)
HealthShowsFacts ==
  /\ Health.queue => broker # "none" /\ ~connect_failed_logged
  /\ Health.forwarded => Ingested # {}

(***************************************************************************)
(* Delivery is at least once, and every duplicate has a cause: the server  *)
(* takes an event again only after a crash, an outage or a timeout, at     *)
(* most once for each, although ack_wait may expire at any moment          *)
(* (NatsGateway._forward and the consumer it configures).                  *)
(***************************************************************************)
DuplicatesArePaidFor == \A e \in Events : ingests[e] <= 1 + faults

(***************************************************************************)
(* The gateway closes after everybody who publishes through it has ended:  *)
(* no report is accepted, and no round of the scheduler goes on, with a    *)
(* gateway that is closed or gone (lifespan, AgentScheduler.stop).         *)
(***************************************************************************)
NoHandlerOutlivesGateway ==
  dialing \in {"closed", "off"} => \A e \in Events : record[e] \notin InFlight

(***************************************************************************)
(* The outcome of a handler tells whether its event is in the history:     *)
(* whoever got an error can report again without making it double, and     *)
(* whoever was answered, or cut off later, need not (the record methods of *)
(* EventService, AgentScheduler._record_fault).                            *)
(***************************************************************************)
OutcomeTellsHistory ==
  \A e \in Events : e \in history <=> record[e] \notin {"new", "failed"}

(***************************************************************************)
(* _enqueue() drops the result of publish(), but a loss does not go by     *)
(* unseen: whenever a handler ends without its event in the queue, the     *)
(* queue is shown as not connected (NatsGateway.publish).                  *)
(***************************************************************************)
LostEnqueueIsShown ==
  [][\A e \in Events :
       record[e] \in InFlight /\ record'[e] = "done" /\ e \notin stream'
         => ~queue_connected']_vars

(***************************************************************************)
(* nats.py:73: "forwarding disabled: set AGENT__TOKEN".  A process without *)
(* a token takes nothing out of the queue and sends nothing: all that may  *)
(* still reach the server is a late request of an earlier process.         *)
(***************************************************************************)
TokenlessKeepsAll ==
  [][~token =>
       /\ acked' = acked
       /\ \A e \in Events \ late : ingests'[e] = ingests[e]]_vars

(***************************************************************************)
(* A gateway that starts without NATS keeps trying until it has a          *)
(* connected broker (NatsGateway.start, _retry_loop), if the configured    *)
(* timeout is a second at least.                                           *)
(***************************************************************************)
GatewayConnects == DialSeconds > 0 => ((dialing # "done") ~> (broker = "up"))

(***************************************************************************)
(* A client that has closed for good is noticed by the first event that is *)
(* recorded with it: /health does not go on showing the queue connected,   *)
(* whatever has become of that event (NatsGateway.publish).                *)
(***************************************************************************)
ClosedClientIsNoticed ==
  \A e \in Events : broker = "closed" /\ record[e] \in InFlight ~> ~queue_connected

(***************************************************************************)
(* No caller waits for ever on the queue: recording an event ends, with    *)
(* the queue up, down, reconnecting or closed (EventService._enqueue).     *)
(***************************************************************************)
RecordingEnds ==
  \A e \in Events : record[e] \in InFlight ~> record[e] \in {"done", "cut"}

(***************************************************************************)
(* A signal to end is obeyed: the process exits, whatever requests, the    *)
(* retry loop and the worker are doing (lifespan, NatsGateway.close).      *)
(***************************************************************************)
ShutdownEnds == (stage = "draining") ~> (stage = "down")

(***************************************************************************)
(* The queue drains: if from some point on the process has its token and   *)
(* its NATS client has not given up, every stored event is acknowledged,   *)
(* whatever the outages before (NatsGateway._forward, max_deliver = -1).   *)
(***************************************************************************)
QueueDrains ==
  <>[](token /\ broker # "closed") =>
    \A e \in Events : e \in stream ~> e \in acked

(***************************************************************************)
(* README.md:7: "a worker drains that queue [...] the message stays in the *)
(* queue and is retried later -- nothing is lost", with no condition on    *)
(* the NATS client.                                                        *)
(***************************************************************************)
QueueAlwaysDrains ==
  <>[]token => \A e \in Events : e \in stream ~> e \in Ingested

(***************************************************************************)
(* README.md:7: "Every event is written into a local NATS JetStream queue  *)
(* first": a report that was answered 202 is in the queue.                 *)
(***************************************************************************)
AcceptedIsQueued == \A e \in Reports : record[e] = "done" => e \in stream

(***************************************************************************)
(* nats.py:24-26: the consumer "reads the queue and delivers each message  *)
(* to the server over HTTP": an event that the server would take is not    *)
(* held up for ever by one that it refuses.                                *)
(***************************************************************************)
EachIsDelivered ==
  <>[](token /\ broker # "closed") =>
    \A e \in Events \ Refused : e \in stream ~> e \in Ingested

(***************************************************************************)
(* The path implements the abstract at-least-once queue.                   *)
(***************************************************************************)
Queue == INSTANCE ReliableQueue
           WITH recorded <- history, queued <- stream, taken <- Ingested, retired <- acked

QueueSpec == Queue!Spec
=============================================================================
