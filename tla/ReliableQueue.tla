---------------------------- MODULE ReliableQueue ----------------------------
(***************************************************************************)
(* What the agent's delivery path promises, without how: events that are   *)
(* on record enter a durable queue, the server takes queued events, any    *)
(* number of times and in any order, and an event is retired from the      *)
(* queue only when the server has taken it.  No step ever drops an event   *)
(* that was not taken, and none takes what is not on record.               *)
(***************************************************************************)
CONSTANT Events

VARIABLES
  recorded, \* events on record at the agent's own site
  queued,   \* events that have entered the queue
  taken,    \* events the server has taken at least once
  retired   \* events that will not be handed out again

qvars == <<recorded, queued, taken, retired>>

Init == recorded = {} /\ queued = {} /\ taken = {} /\ retired = {}

Record(e) ==
  /\ recorded' = recorded \cup {e}
  /\ UNCHANGED <<queued, taken, retired>>

Enqueue(e) ==
  /\ e \in recorded \ queued
  /\ queued' = queued \cup {e}
  /\ UNCHANGED <<recorded, taken, retired>>

Take(e) ==
  /\ e \in queued
  /\ taken' = taken \cup {e}
  /\ UNCHANGED <<recorded, queued, retired>>

Retire(e) ==
  /\ e \in taken
  /\ retired' = retired \cup {e}
  /\ UNCHANGED <<recorded, queued, taken>>

Next == \E e \in Events : Record(e) \/ Enqueue(e) \/ Take(e) \/ Retire(e)

Spec == Init /\ [][Next]_qvars
=============================================================================
