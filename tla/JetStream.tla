------------------------------ MODULE JetStream ------------------------------
(***************************************************************************)
(* The local NATS JetStream server as the agent uses it: one stream with   *)
(* file storage and the default (limits) retention, and one durable pull   *)
(* consumer with max_deliver = -1.  It is not part of the repository; the  *)
(* operators below are what services/nats.py relies on.                    *)
(*                                                                         *)
(* A message is identified with the event it carries.  Order inside the    *)
(* stream is not modelled, but the consumer hands out what it has to       *)
(* redeliver before it hands out anything new.                             *)
(***************************************************************************)

CONSTANT Events     \* the events the agent may record during one behaviour

VARIABLES
  natsUp,   \* the NATS process answers
  stream,   \* events stored in the stream; survives restarts of both sides
  acked,    \* events the durable consumer has seen acknowledged
  out,      \* events handed out whose ack_wait timer is running
  again     \* events to redeliver: handed back, or their ack_wait elapsed

jsVars == <<natsUp, stream, acked, out, again>>

JSTypeOK ==
  /\ natsUp \in BOOLEAN
  /\ stream \subseteq Events
  /\ acked \subseteq Events
  /\ out \subseteq Events
  /\ again \subseteq Events

JSInit ==
  /\ natsUp \in BOOLEAN
  /\ stream = {}
  /\ acked = {}
  /\ out = {}
  /\ again = {}

(***************************************************************************)
(* Messages the consumer may hand out: those to redeliver come first, and  *)
(* the others have never been handed out.                                  *)
(***************************************************************************)
Ready == IF again # {} THEN again ELSE stream \ (acked \cup out)

JSStore(e) ==
  /\ stream' = stream \cup {e}
  /\ UNCHANGED <<natsUp, acked, out, again>>

JSHandOut(e) ==
  /\ e \in Ready
  /\ out' = out \cup {e}
  /\ again' = again \ {e}
  /\ UNCHANGED <<natsUp, stream, acked>>

JSAck(e) ==
  /\ acked' = acked \cup {e}
  /\ out' = out \ {e}
  /\ again' = again \ {e}
  /\ UNCHANGED <<natsUp, stream>>

(***************************************************************************)
(* A nack without a delay makes the message ready at once.                 *)
(***************************************************************************)
JSNack(e) ==
  /\ out' = out \ {e}
  /\ again' = (again \cup {e}) \ acked
  /\ UNCHANGED <<natsUp, stream, acked>>

(***************************************************************************)
(* The ack_wait of a handed-out message elapses: it is ready again,        *)
(* whether or not somebody still works on it.                              *)
(***************************************************************************)
JSAckWaitExpires(e) ==
  /\ e \in out
  /\ out' = out \ {e}
  /\ again' = again \cup {e}
  /\ UNCHANGED <<natsUp, stream, acked>>

JSGoesDown ==
  /\ natsUp
  /\ natsUp' = FALSE
  /\ UNCHANGED <<stream, acked, out, again>>

JSComesUp ==
  /\ ~natsUp
  /\ natsUp' = TRUE
  /\ UNCHANGED <<stream, acked, out, again>>
=============================================================================
