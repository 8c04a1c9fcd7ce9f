----------------------------- MODULE NatsGateway -----------------------------
(***************************************************************************)
(* NatsGateway (services/nats.py): the connection to the local queue, the  *)
(* publishing side, and the forwarder worker that drains the queue to the  *)
(* server through ServerClient.send (services/server_client.py).           *)
(*                                                                         *)
(* One process owns all of it.  The code runs on one asyncio loop, so a    *)
(* step here is the code between two awaits whose interleaving matters.    *)
(* Awaits of the logger are not steps of their own: nothing but the        *)
(* handler that logs reads what is assigned around them.                   *)
(***************************************************************************)
EXTENDS Integers, JetStream

CONSTANTS
  NoEvent,     \* "the worker holds no message"
  Replies,     \* HTTP statuses the server may answer with
  Refused,     \* events the server never takes: it answers Refusal to them
  ConnectTimeout,  \* NATS__CONNECT_TIMEOUT, in tenths of a second
  MaxFaults    \* bound on crashes, outages and timeouts in one behaviour

NoAnswer == 0  \* no HTTP response: refused, unresolved or dropped connection
Refusal == 422 \* the status for an event that fails the server's validation

ASSUME GatewayAssumption ==
  /\ NoEvent \notin Events
  /\ Replies \subseteq 200..599
  /\ Refused \subseteq Events
  /\ ConnectTimeout \in Nat \ {0}
  /\ MaxFaults \in Nat

VARIABLES
  dialing,        \* where start(), _retry_loop() and close() are; "off": no process
  token,          \* ServerClient.delivery_enabled: AGENT__TOKEN was set at start
  broker,         \* self._broker and the state of its NATS client
  wire,           \* events published by the client, not yet in the stream
  queue_connected, connect_failed_logged,
  phase,          \* where the worker is in _forward and its acknowledgement
  msg,            \* the event the worker holds
  reply,          \* status of the HTTP response the worker has received
  server_reachable, last_forwarded_at,
  no_token_logged, auth_logged, unreachable_logged,
  server,         \* what the server answers at present, NoAnswer if down
  late,           \* requests the client gave up on that may still arrive
  ingests,        \* how often the server has taken each event
  faults          \* faults that have happened; at most MaxFaults

connVars   == <<dialing, token, broker, wire, queue_connected, connect_failed_logged>>
workVars   == <<phase, msg, reply>>
healthVars == <<server_reachable, last_forwarded_at,
                no_token_logged, auth_logged, unreachable_logged>>
serverVars == <<server, late, ingests>>
gwVars     == <<connVars, workVars, healthVars, serverVars, faults>>

ConnTypeOK ==
  /\ dialing \in {"off", "start", "waiting", "retry", "done", "closed"}
  /\ token \in BOOLEAN
  /\ broker \in {"none", "up", "reconnecting", "closed"}
  /\ wire \subseteq Events
  /\ queue_connected \in BOOLEAN /\ connect_failed_logged \in BOOLEAN

WorkTypeOK ==
  /\ phase \in {"idle", "got", "posted", "answered", "ack", "nack"}
  /\ msg \in Events \cup {NoEvent}
  /\ reply \in Replies \cup {Refusal, NoAnswer}

HealthTypeOK ==
  /\ server_reachable \in BOOLEAN /\ last_forwarded_at \in BOOLEAN
  /\ no_token_logged \in BOOLEAN /\ auth_logged \in BOOLEAN
  /\ unreachable_logged \in BOOLEAN

ServerTypeOK ==
  /\ server \in Replies \cup {NoAnswer}
  /\ late \subseteq Events
  /\ ingests \in [Events -> Nat]

GWTypeOK ==
  /\ ConnTypeOK /\ WorkTypeOK /\ HealthTypeOK /\ ServerTypeOK
  /\ faults \in 0..MaxFaults

GWInit ==
  /\ dialing = "off" /\ token = FALSE /\ broker = "none" /\ wire = {}
  /\ queue_connected = FALSE /\ connect_failed_logged = FALSE
  /\ phase = "idle" /\ msg = NoEvent /\ reply = NoAnswer
  /\ server_reachable = FALSE /\ last_forwarded_at = FALSE
  /\ no_token_logged = FALSE /\ auth_logged = FALSE /\ unreachable_logged = FALSE
  /\ server \in Replies \cup {NoAnswer}
  /\ late = {}
  /\ ingests = [e \in Events |-> 0]
  /\ faults = 0

-----------------------------------------------------------------------------
(* Faults *)

Fault == faults < MaxFaults /\ faults' = faults + 1

(***************************************************************************)
(* A step that happens freely when excused, and otherwise costs a fault.   *)
(***************************************************************************)
FaultUnless(excused) == IF excused THEN UNCHANGED faults ELSE Fault

-----------------------------------------------------------------------------
(* Connecting: start, _retry_loop, _connect_once, _safe_close, close *)

SafeClose ==
  /\ broker' = "none" /\ wire' = {}
  /\ phase' = "idle" /\ msg' = NoEvent /\ reply' = NoAnswer

(* _build_broker() hands the client whole seconds: int(connect_timeout). *)
DialSeconds == ConnectTimeout \div 10

(***************************************************************************)
(* lifespan() calls start(), whose first act is _connect_once().  t is     *)
(* whether AGENT__TOKEN is in the environment of this process.             *)
(***************************************************************************)
Start(t) ==
  /\ dialing = "off"
  /\ dialing' = "start"
  /\ token' = t
  /\ SafeClose
  /\ UNCHANGED <<queue_connected, connect_failed_logged, healthVars, serverVars,
                 faults, jsVars>>

(* Mutant: _retry_loop() does not return when it has connected. *)
ConnectSucceedsAndRetries ==
  /\ dialing \in {"start", "retry"} /\ natsUp /\ DialSeconds > 0
  /\ broker' = "up"
  /\ queue_connected' = TRUE /\ connect_failed_logged' = FALSE
  /\ dialing' = "waiting"
  /\ UNCHANGED <<token, wire, workVars, healthVars, serverVars, faults, jsVars>>

(* Mutant: connecting does not clear the warn-once flag. *)
ConnectSucceedsWarned ==
  /\ dialing \in {"start", "retry"} /\ natsUp /\ DialSeconds > 0
  /\ broker' = "up"
  /\ queue_connected' = TRUE
  /\ dialing' = "done"
  /\ UNCHANGED <<token, wire, connect_failed_logged, workVars, healthVars,
                 serverVars, faults, jsVars>>

ConnectSucceeds ==
  /\ dialing \in {"start", "retry"}
  /\ natsUp /\ DialSeconds > 0
  /\ broker' = "up"
  /\ queue_connected' = TRUE
  /\ connect_failed_logged' = FALSE
  /\ dialing' = "done"
  /\ UNCHANGED <<token, wire, workVars, healthVars, serverVars, faults, jsVars>>

(* Mutant: _retry_loop() tries only once. *)
ConnectFailsForGood ==
  /\ dialing \in {"start", "retry"}
  /\ FaultUnless(~natsUp \/ DialSeconds = 0)
  /\ queue_connected' = FALSE
  /\ connect_failed_logged' = TRUE
  /\ dialing' = IF dialing = "start" THEN "waiting" ELSE "done"
  /\ UNCHANGED <<token, broker, wire, workVars, healthVars, serverVars, jsVars>>

(***************************************************************************)
(* The failure is logged once.  start() creates the retry task, and the    *)
(* task sleeps: either way the next attempt waits for the event loop.      *)
(***************************************************************************)
ConnectFails ==
  /\ dialing \in {"start", "retry"}
  /\ FaultUnless(~natsUp \/ DialSeconds = 0)
  /\ queue_connected' = FALSE
  /\ connect_failed_logged' = TRUE
  /\ dialing' = "waiting"
  /\ UNCHANGED <<token, broker, wire, workVars, healthVars, serverVars, jsVars>>

(* _retry_loop() begins its next _connect_once(), which closes first. *)
RetryWakes ==
  /\ dialing = "waiting"
  /\ dialing' = "retry"
  /\ SafeClose
  /\ UNCHANGED <<token, queue_connected, connect_failed_logged, healthVars,
                 serverVars, faults, jsVars>>

(***************************************************************************)
(* close() cancels the retry task, wherever it is, and stops the broker.   *)
(* What was on the wire and had not been stored is lost.                   *)
(***************************************************************************)
Close ==
  /\ dialing' = "closed"
  /\ SafeClose
  /\ queue_connected' = FALSE
  /\ UNCHANGED <<token, connect_failed_logged, healthVars>>

(* The process has ended: the memory of the gateway is gone. *)
ForgetGateway ==
  /\ dialing' = "off"
  /\ token' = FALSE
  /\ SafeClose
  /\ queue_connected' = FALSE /\ connect_failed_logged' = FALSE
  /\ server_reachable' = FALSE /\ last_forwarded_at' = FALSE
  /\ no_token_logged' = FALSE /\ auth_logged' = FALSE /\ unreachable_logged' = FALSE

-----------------------------------------------------------------------------
(* The NATS client inside the broker (external) *)

(***************************************************************************)
(* The NATS server goes away.  A connected client starts to reconnect and  *)
(* keeps some of what it had written; the rest is lost in the socket.      *)
(***************************************************************************)
NatsGoesDown ==
  /\ Fault
  /\ JSGoesDown
  /\ broker' = IF broker = "up" THEN "reconnecting" ELSE broker
  /\ wire' \in SUBSET wire
  /\ UNCHANGED <<dialing, token, queue_connected, connect_failed_logged,
                 workVars, healthVars, serverVars>>

NatsComesUp ==
  /\ JSComesUp
  /\ UNCHANGED gwVars

Reconnect ==
  /\ broker = "reconnecting" /\ natsUp
  /\ broker' = "up"
  /\ UNCHANGED <<dialing, token, wire, queue_connected, connect_failed_logged,
                 workVars, healthVars, serverVars, faults, jsVars>>

(***************************************************************************)
(* max_reconnect_attempts = 1: an outage that outlasts the attempts makes  *)
(* the client close for good.  self._broker keeps pointing at it.          *)
(***************************************************************************)
GiveUp ==
  /\ broker = "reconnecting" /\ ~natsUp
  /\ broker' = "closed"
  /\ wire' = {}
  /\ UNCHANGED <<dialing, token, queue_connected, connect_failed_logged,
                 workVars, healthVars, serverVars, faults, jsVars>>

Store(e) ==
  /\ e \in wire /\ broker = "up"
  /\ JSStore(e)
  /\ wire' = wire \ {e}
  /\ UNCHANGED <<dialing, token, broker, queue_connected, connect_failed_logged,
                 workVars, healthVars, serverVars, faults>>

AckWaitExpires(e) ==
  /\ JSAckWaitExpires(e)
  /\ UNCHANGED gwVars

-----------------------------------------------------------------------------
(* publish(subject, payload) *)

(* self._broker is None: return False. *)
PublishRefused ==
  /\ broker = "none"
  /\ UNCHANGED <<gwVars, jsVars>>

(* A connected or reconnecting client takes the message and waits. *)
PublishSends(e) ==
  /\ broker \in {"up", "reconnecting"}
  /\ wire' = wire \cup {e}
  /\ UNCHANGED <<dialing, token, broker, queue_connected, connect_failed_logged,
                 workVars, healthVars, serverVars, faults, jsVars>>

(* The stream confirmed the message: return True. *)
PublishConfirmed(e) ==
  /\ broker = "up" /\ e \in stream
  /\ UNCHANGED <<gwVars, jsVars>>

(* Mutant: publish has no timeout and raises only on a closed client. *)
PublishRaisesIfClosed(e) ==
  /\ broker = "closed"
  /\ queue_connected' = FALSE
  /\ UNCHANGED <<dialing, token, broker, wire, connect_failed_logged,
                 workVars, healthVars, serverVars, faults, jsVars>>

(* Mutant: a publish that fails while it reconnects is not shown. *)
PublishRaisesUnshown(e) ==
  /\ broker # "none"
  /\ FaultUnless(broker # "up" \/ e \notin wire \cup stream)
  /\ queue_connected' = (queue_connected /\ broker # "closed")
  /\ UNCHANGED <<dialing, token, broker, wire, connect_failed_logged,
                 workVars, healthVars, serverVars, jsVars>>

(* Mutant: a closed client is treated like no broker: return False. *)
PublishRaisesIfOpen(e) ==
  /\ broker # "none"
  /\ FaultUnless(broker # "up" \/ e \notin wire \cup stream)
  /\ queue_connected' = (queue_connected /\ broker = "closed")
  /\ UNCHANGED <<dialing, token, broker, wire, connect_failed_logged,
                 workVars, healthVars, serverVars, jsVars>>

(***************************************************************************)
(* broker.publish raised: the client is closed, or publish_timeout elapsed *)
(* without a confirmation.  That needs no fault of its own if the message  *)
(* cannot be confirmed: no connection, or lost in an outage.               *)
(***************************************************************************)
PublishRaises(e) ==
  /\ broker # "none"
  /\ FaultUnless(broker # "up" \/ e \notin wire \cup stream)
  /\ queue_connected' = FALSE
  /\ UNCHANGED <<dialing, token, broker, wire, connect_failed_logged,
                 workVars, healthVars, serverVars, jsVars>>

-----------------------------------------------------------------------------
(* The forwarder worker: _forward and the acknowledgement that follows *)

(* Mutant: AckPolicy.ACK_FIRST. *)
FetchAckFirst(e) ==
  /\ broker = "up" /\ phase = "idle"
  /\ e \in Ready
  /\ JSAck(e)
  /\ phase' = "got" /\ msg' = e
  /\ UNCHANGED <<connVars, reply, healthVars, serverVars, faults>>

(* Mutant: nothing is fetched while the server is known to be unreachable. *)
FetchWhenReachable(e) ==
  /\ broker = "up" /\ phase = "idle" /\ ~unreachable_logged
  /\ JSHandOut(e)
  /\ phase' = "got" /\ msg' = e
  /\ UNCHANGED <<connVars, reply, healthVars, serverVars, faults>>

Fetch(e) ==
  /\ broker = "up" /\ phase = "idle"
  /\ JSHandOut(e)
  /\ phase' = "got" /\ msg' = e
  /\ UNCHANGED <<connVars, reply, healthVars, serverVars, faults>>

(* Mutant: without a token the handler returns, and the message is acked. *)
ForwardWithoutTokenReturns ==
  /\ phase = "got" /\ ~token
  /\ server_reachable' = FALSE
  /\ no_token_logged' = TRUE
  /\ phase' = "ack"
  /\ UNCHANGED <<connVars, msg, reply, last_forwarded_at, auth_logged,
                 unreachable_logged, serverVars, faults, jsVars>>

(* delivery_enabled is false: warn once and nack without posting. *)
ForwardWithoutToken ==
  /\ phase = "got" /\ ~token
  /\ server_reachable' = FALSE
  /\ no_token_logged' = TRUE
  /\ phase' = "nack"
  /\ UNCHANGED <<connVars, msg, reply, last_forwarded_at, auth_logged,
                 unreachable_logged, serverVars, faults, jsVars>>

Post ==
  /\ phase = "got" /\ token
  /\ phase' = "posted"
  /\ UNCHANGED <<connVars, msg, reply, healthVars, serverVars, faults, jsVars>>

(* Mutant: send() checks for rejected tokens only. *)
SendResultAuthOnly(status) == IF status \in {401, 403} THEN "auth" ELSE "sent"

(***************************************************************************)
(* What send() makes of a status: it raises ServerAuthError or             *)
(* ServerDeliveryError, or returns.                                        *)
(***************************************************************************)
SendResult(status) ==
  IF status \in {401, 403} THEN "auth"
  ELSE IF status >= 400 THEN "error" ELSE "sent"

Success(status) == status \in 200..299

Ingest(e) == ingests' = [ingests EXCEPT ![e] = @ + 1]

(* What a server that is up answers to the request that carries e. *)
Answer(e) == IF Success(server) /\ e \in Refused THEN Refusal ELSE server

(* The server handles the request; it keeps the event iff it answers 2xx. *)
ServerAnswers ==
  /\ phase = "posted" /\ server # NoAnswer
  /\ phase' = "answered" /\ reply' = Answer(msg)
  /\ IF Success(Answer(msg)) THEN Ingest(msg) ELSE UNCHANGED ingests
  /\ UNCHANGED <<connVars, msg, healthVars, server, late, faults, jsVars>>

(* Mutant: any message the worker once held may arrive late. *)
AbandonAnything == late' \in {late, late \cup {msg}}

(* The client gives a request up; if it is under way, it may arrive later. *)
AbandonRequest ==
  late' \in IF phase = "posted" THEN {late, late \cup {msg}} ELSE {late}

(* Mutant: a success does not clear the flag of rejected tokens. *)
ForwardSucceedsWarned ==
  /\ phase = "answered" /\ SendResult(reply) = "sent"
  /\ no_token_logged' = FALSE /\ unreachable_logged' = FALSE
  /\ server_reachable' = TRUE
  /\ last_forwarded_at' = TRUE
  /\ phase' = "ack" /\ reply' = NoAnswer
  /\ UNCHANGED <<connVars, msg, auth_logged, serverVars, faults, jsVars>>

ForwardSucceeds ==
  /\ phase = "answered" /\ SendResult(reply) = "sent"
  /\ no_token_logged' = FALSE /\ auth_logged' = FALSE /\ unreachable_logged' = FALSE
  /\ server_reachable' = TRUE
  /\ last_forwarded_at' = TRUE
  /\ phase' = "ack" /\ reply' = NoAnswer
  /\ UNCHANGED <<connVars, msg, serverVars, faults, jsVars>>

(* Mutant: a message the server rejects is acknowledged and dropped. *)
ForwardRejectedAndDropped ==
  /\ phase = "answered" /\ SendResult(reply) = "auth"
  /\ server_reachable' = FALSE
  /\ auth_logged' = TRUE
  /\ phase' = "ack" /\ reply' = NoAnswer
  /\ UNCHANGED <<connVars, msg, last_forwarded_at, no_token_logged,
                 unreachable_logged, serverVars, faults, jsVars>>

ForwardRejected ==
  /\ phase = "answered" /\ SendResult(reply) = "auth"
  /\ server_reachable' = FALSE
  /\ auth_logged' = TRUE
  /\ phase' = "nack" /\ reply' = NoAnswer
  /\ UNCHANGED <<connVars, msg, last_forwarded_at, no_token_logged,
                 unreachable_logged, serverVars, faults, jsVars>>

(***************************************************************************)
(* Any other exception of send(): an error status, no connection, or a     *)
(* timeout.  A request that timed out may still reach the server.          *)
(***************************************************************************)
ForwardFails ==
  /\ \/ /\ phase = "answered" /\ SendResult(reply) = "error"
        /\ UNCHANGED <<late, faults>>
     \/ /\ phase = "posted" /\ server = NoAnswer
        /\ UNCHANGED <<late, faults>>
     \/ /\ phase \in {"posted", "answered"} /\ Fault
        /\ AbandonRequest
  /\ server_reachable' = FALSE
  /\ unreachable_logged' = TRUE
  /\ phase' = "nack" /\ reply' = NoAnswer
  /\ UNCHANGED <<connVars, msg, last_forwarded_at, no_token_logged, auth_logged,
                 server, ingests, jsVars>>

(* Mutant: the message is handed back after a success as well. *)
AckHandsBack ==
  /\ phase = "ack" /\ broker = "up"
  /\ JSNack(msg)
  /\ phase' = "idle" /\ msg' = NoEvent
  /\ UNCHANGED <<connVars, reply, healthVars, serverVars, faults>>

AckArrives ==
  /\ phase = "ack" /\ broker = "up"
  /\ JSAck(msg)
  /\ phase' = "idle" /\ msg' = NoEvent
  /\ UNCHANGED <<connVars, reply, healthVars, serverVars, faults>>

NackArrives ==
  /\ phase = "nack" /\ broker = "up"
  /\ JSNack(msg)
  /\ phase' = "idle" /\ msg' = NoEvent
  /\ UNCHANGED <<connVars, reply, healthVars, serverVars, faults>>

(* The connection is gone: the message stays out until ack_wait elapses. *)
AckLost ==
  /\ phase \in {"ack", "nack"} /\ broker # "up"
  /\ phase' = "idle" /\ msg' = NoEvent
  /\ UNCHANGED <<connVars, reply, healthVars, serverVars, faults, jsVars>>

Worker ==
  \/ ForwardWithoutToken \/ Post \/ ServerAnswers
  \/ ForwardSucceeds \/ ForwardRejected \/ ForwardFails
  \/ AckArrives \/ NackArrives \/ AckLost

-----------------------------------------------------------------------------
(* The server (external) *)

ServerChanges(s) ==
  /\ Fault
  /\ s # server
  /\ server' = s
  /\ UNCHANGED <<connVars, workVars, healthVars, late, ingests, jsVars>>

ServerRecovers(s) ==
  /\ ~Success(server) /\ Success(s)
  /\ server' = s
  /\ UNCHANGED <<connVars, workVars, healthVars, late, ingests, faults, jsVars>>

LateArrival(e) ==
  /\ e \in late
  /\ late' = late \ {e}
  /\ IF Success(Answer(e)) THEN Ingest(e) ELSE UNCHANGED ingests
  /\ UNCHANGED <<connVars, workVars, healthVars, server, faults, jsVars>>
=============================================================================
