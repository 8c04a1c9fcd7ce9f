--------------------------- MODULE DeliveryProofs ---------------------------
(***************************************************************************)
(* Proofs about the delivery path, for every set of events, every set of   *)
(* statuses and every bound on faults.                                     *)
(*                                                                         *)
(* The invariants of Delivery are proved together, as parts of IInv, by    *)
(* one lemma per group of Next; each lemma has one step per part.  The     *)
(* bound on duplicates and the facts that need NoRedirects come after it.  *)
(***************************************************************************)
EXTENDS Delivery, TLAPS

USE DEF jsVars, connVars, workVars, healthVars, serverVars, gwVars, recVars,
        NoAnswer, Refusal, Health

-----------------------------------------------------------------------------
(* The inductive invariant *)

(***************************************************************************)
(* _connect_once() sets the broker, queue_connected and the end of the     *)
(* dialing together, and nothing reaches the server before that.           *)
(***************************************************************************)
DoneMeansBroker ==
  /\ dialing = "done" => broker # "none"
  /\ queue_connected => dialing = "done" /\ ~connect_failed_logged
  /\ server_reachable => dialing \in {"done", "closed"}

(***************************************************************************)
(* Only a process that has a token posts, and only what was posted is      *)
(* acknowledged (NatsGateway._forward).                                    *)
(***************************************************************************)
PostsWithToken == phase \in {"posted", "answered", "ack"} => token

(***************************************************************************)
(* What JetStream has handed out or will redeliver is stored and not       *)
(* acknowledged.                                                           *)
(***************************************************************************)
PendingUnacked == out \cup again \subseteq stream \ acked

(***************************************************************************)
(* The gateway lives as long as lifespan() does, and closes in its last    *)
(* step but one; handlers run only while requests and the scheduler do     *)
(* (main.py lifespan).                                                     *)
(***************************************************************************)
StagesFollow ==
  /\ stage = "down" <=> dialing = "off"
  /\ stage = "closing" <=> dialing = "closed"
  /\ stage \notin {"serving", "draining"} =>
       \A e \in Events : record[e] \notin InFlight

IInv ==
  /\ TypeOK
  /\ PendingUnacked
  /\ StagesFollow
  /\ WorkerHoldsUnacked
  /\ HistoryThenQueueThenServer
  /\ OutcomeTellsHistory
  /\ DialingTouchesNoBroker
  /\ DoneMeansBroker
  /\ PostsWithToken
  /\ ReachableIsEarned

(* A fresh installation satisfies the invariant. *)
LEMMA InitIInv == Init => IInv
<1> SUFFICES ASSUME Init PROVE IInv
  OBVIOUS
<1> USE DEF Init, JSInit, GWInit
<1>1. JSTypeOK /\ ConnTypeOK /\ WorkTypeOK /\ HealthTypeOK /\ ServerTypeOK
  BY DEF JSTypeOK, ConnTypeOK, WorkTypeOK, HealthTypeOK, ServerTypeOK
<1>2. RecordTypeOK /\ faults \in 0..MaxFaults
  BY GatewayAssumption DEF RecordTypeOK, InFlight
<1>3. HistoryThenQueueThenServer /\ OutcomeTellsHistory
  BY DEF HistoryThenQueueThenServer, Ingested, OutcomeTellsHistory, InFlight
<1>4. WorkerHoldsUnacked /\ DialingTouchesNoBroker /\ DoneMeansBroker
  BY DEF WorkerHoldsUnacked, DialingTouchesNoBroker, DoneMeansBroker
<1>6. PendingUnacked /\ StagesFollow
  BY DEF PendingUnacked, StagesFollow, InFlight
<1>5. PostsWithToken /\ ReachableIsEarned
  BY DEF PostsWithToken, ReachableIsEarned
<1> QED
  BY <1>1, <1>2, <1>3, <1>4, <1>5, <1>6 DEF IInv, TypeOK, GWTypeOK

-----------------------------------------------------------------------------
(* One lemma per group of Next *)

(* Handlers that commit an event and publish it (EventService) keep it. *)
LEMMA RecordingStep ==
  ASSUME IInv, Recording
  PROVE  IInv'
<1> USE DEF IInv, TypeOK, GWTypeOK
<1> USE DEF Recording, Commit, CommitFails, EnqueueStarts, EnqueueEnds, SetRecord,
         PublishSends, PublishRefused, PublishConfirmed, PublishRaises,
         FaultUnless, Fault
<1>1. JSTypeOK'
  BY DEF JSTypeOK, ConnTypeOK, WorkerHoldsUnacked
<1>2. ConnTypeOK'
  BY DEF ConnTypeOK
<1>3. WorkTypeOK'
  BY DEF WorkTypeOK, ServerTypeOK
<1>4. HealthTypeOK'
  BY DEF HealthTypeOK
<1>5. ServerTypeOK'
  BY DEF ServerTypeOK, JSTypeOK, WorkerHoldsUnacked
<1>6. (faults \in 0..MaxFaults)'
  BY GatewayAssumption 
<1>7. RecordTypeOK'
  BY DEF RecordTypeOK, InFlight
<1>8. WorkerHoldsUnacked'
  BY DEF WorkerHoldsUnacked, DialingTouchesNoBroker, PendingUnacked
<1>9. HistoryThenQueueThenServer'
  BY DEF HistoryThenQueueThenServer, Ingested, OutcomeTellsHistory,
         InFlight, WorkerHoldsUnacked, ServerTypeOK, JSTypeOK
<1>10. OutcomeTellsHistory'
  <2> SUFFICES ASSUME NEW e \in Events,
                      Commit(e) \/ CommitFails(e) \/ EnqueueStarts(e) \/ EnqueueEnds(e)
               PROVE  OutcomeTellsHistory'
    BY DEF Recording
  <2> USE DEF OutcomeTellsHistory, InFlight, RecordTypeOK, MayRecord
  <2>1. CASE Commit(e)
    BY <2>1
  <2>2. CASE CommitFails(e)
    BY <2>2
  <2>3. CASE EnqueueStarts(e) \/ EnqueueEnds(e)
    <3>1. record[e] \in InFlight /\ history' = history
      BY <2>3
    <3>2. \E step \in {"waiting", "done"} : record' = [record EXCEPT ![e] = step]
      BY <2>3
    <3> QED
      BY <3>1, <3>2
  <2> QED
    BY <2>1, <2>2, <2>3
<1>11. DialingTouchesNoBroker'
  BY DEF DialingTouchesNoBroker
<1>12. DoneMeansBroker'
  BY DEF DoneMeansBroker, DialingTouchesNoBroker
<1>13. PostsWithToken'
  BY DEF PostsWithToken, DialingTouchesNoBroker
<1>14. ReachableIsEarned'
  <2>1. UNCHANGED <<healthVars, token>>
    OBVIOUS
  <2> QED
    BY <2>1 DEF ReachableIsEarned
<1>15. PendingUnacked'
  BY DEF PendingUnacked, WorkerHoldsUnacked
<1>16. StagesFollow'
  <2>1. UNCHANGED <<stage, dialing>>
    OBVIOUS
  <2>2. stage \in {"serving", "draining"} \/ \E e \in Events : record[e] \in InFlight
    BY DEF MayRecord, InFlight
  <2> QED
    BY <2>1, <2>2 DEF StagesFollow
<1> QED
  BY <1>1, <1>2, <1>3, <1>4, <1>5, <1>6, <1>7, <1>8,
     <1>9, <1>10, <1>11, <1>12, <1>13, <1>14, <1>15, <1>16

(* Starts, crashes and shutdowns of the process keep it (main.py lifespan). *)
LEMMA ProcessStep ==
  ASSUME IInv, Process
  PROVE  IInv'
<1> USE DEF IInv, TypeOK, GWTypeOK
<1> USE DEF Process, Lifespan, Boot, BootFails, Start, Serve, Terminate, StopScheduler,
         CloseGateway, Close, Exit, Crash, ForgetGateway, SafeClose,
         AbandonRequest, CutHandlers, Fault
<1>1. JSTypeOK'
  BY DEF JSTypeOK, ConnTypeOK, WorkerHoldsUnacked
<1>2. ConnTypeOK'
  BY DEF ConnTypeOK
<1>3. WorkTypeOK'
  BY DEF WorkTypeOK, ServerTypeOK
<1>4. HealthTypeOK'
  BY DEF HealthTypeOK
<1>5. ServerTypeOK'
  BY DEF ServerTypeOK, JSTypeOK, WorkerHoldsUnacked
<1>6. (faults \in 0..MaxFaults)'
  BY GatewayAssumption 
<1>7. RecordTypeOK'
  BY DEF RecordTypeOK, InFlight
<1>8. WorkerHoldsUnacked'
  BY DEF WorkerHoldsUnacked, DialingTouchesNoBroker, PendingUnacked
<1>9. HistoryThenQueueThenServer'
  BY DEF HistoryThenQueueThenServer, Ingested, OutcomeTellsHistory,
         InFlight, WorkerHoldsUnacked, ServerTypeOK, JSTypeOK
<1>10. OutcomeTellsHistory'
  BY DEF OutcomeTellsHistory, InFlight, RecordTypeOK
<1>11. DialingTouchesNoBroker'
  BY DEF DialingTouchesNoBroker
<1>12. DoneMeansBroker'
  BY DEF DoneMeansBroker, DialingTouchesNoBroker
<1>13. PostsWithToken'
  BY DEF PostsWithToken, DialingTouchesNoBroker
<1>14. ReachableIsEarned'
  <2>1. CASE \E t \in BOOLEAN : Boot(t)
    BY <2>1 DEF ReachableIsEarned, DoneMeansBroker
  <2>2. CASE Exit \/ Crash
    BY <2>2 DEF ReachableIsEarned
  <2>3. CASE BootFails \/ Serve \/ StopScheduler \/ CloseGateway \/ Terminate
    <3>1. UNCHANGED <<healthVars, token>>
      BY <2>3
    <3> QED
      BY <3>1 DEF ReachableIsEarned
  <2> QED
    BY <2>1, <2>2, <2>3
<1>15. PendingUnacked'
  BY DEF PendingUnacked, WorkerHoldsUnacked
<1>16. StagesFollow'
  BY DEF StagesFollow, InFlight, RecordTypeOK, ConnTypeOK
<1> QED
  BY <1>1, <1>2, <1>3, <1>4, <1>5, <1>6, <1>7, <1>8,
     <1>9, <1>10, <1>11, <1>12, <1>13, <1>14, <1>15, <1>16

(* The attempts to connect keep it (NatsGateway._connect_once, _retry_loop). *)
LEMMA DialingStep ==
  ASSUME IInv, Dialing, UNCHANGED recVars
  PROVE  IInv'
<1> USE DEF IInv, TypeOK, GWTypeOK
<1> USE DEF Dialing, ConnectSucceeds, ConnectFails, RetryWakes, SafeClose,
         FaultUnless, Fault
<1>1. JSTypeOK'
  BY DEF JSTypeOK, ConnTypeOK, WorkerHoldsUnacked
<1>2. ConnTypeOK'
  BY DEF ConnTypeOK
<1>3. WorkTypeOK'
  BY DEF WorkTypeOK, ServerTypeOK
<1>4. HealthTypeOK'
  BY DEF HealthTypeOK
<1>5. ServerTypeOK'
  BY DEF ServerTypeOK, JSTypeOK, WorkerHoldsUnacked
<1>6. (faults \in 0..MaxFaults)'
  BY GatewayAssumption 
<1>7. RecordTypeOK'
  BY DEF RecordTypeOK, InFlight
<1>8. WorkerHoldsUnacked'
  BY DEF WorkerHoldsUnacked, DialingTouchesNoBroker, PendingUnacked
<1>9. HistoryThenQueueThenServer'
  BY DEF HistoryThenQueueThenServer, Ingested, OutcomeTellsHistory,
         InFlight, WorkerHoldsUnacked, ServerTypeOK, JSTypeOK
<1>10. OutcomeTellsHistory'
  BY DEF OutcomeTellsHistory, InFlight, RecordTypeOK
<1>11. DialingTouchesNoBroker'
  BY DEF DialingTouchesNoBroker
<1>12. DoneMeansBroker'
  BY DEF DoneMeansBroker, DialingTouchesNoBroker
<1>13. PostsWithToken'
  BY DEF PostsWithToken, DialingTouchesNoBroker
<1>14. ReachableIsEarned'
  <2>1. UNCHANGED <<healthVars, token>>
    OBVIOUS
  <2> QED
    BY <2>1 DEF ReachableIsEarned
<1>15. PendingUnacked'
  BY DEF PendingUnacked, WorkerHoldsUnacked
<1>16. StagesFollow'
  BY DEF StagesFollow, InFlight, RecordTypeOK, ConnTypeOK
<1> QED
  BY <1>1, <1>2, <1>3, <1>4, <1>5, <1>6, <1>7, <1>8,
     <1>9, <1>10, <1>11, <1>12, <1>13, <1>14, <1>15, <1>16

(* What the NATS server, its client and the central server do keeps it. *)
LEMMA EnvironmentStep ==
  ASSUME IInv, Environment, UNCHANGED recVars
  PROVE  IInv'
<1> USE DEF IInv, TypeOK, GWTypeOK
<1> USE DEF Environment, NatsGoesDown, NatsComesUp, Reconnect, GiveUp, Store,
         AckWaitExpires, LateArrival, Ingest, Answer, ServerChanges, ServerRecovers,
         JSGoesDown, JSComesUp, JSStore, JSAckWaitExpires, Fault
<1>1. JSTypeOK'
  BY DEF JSTypeOK, ConnTypeOK, WorkerHoldsUnacked
<1>2. ConnTypeOK'
  BY DEF ConnTypeOK
<1>3. WorkTypeOK'
  BY DEF WorkTypeOK, ServerTypeOK
<1>4. HealthTypeOK'
  BY DEF HealthTypeOK
<1>5. ServerTypeOK'
  BY DEF ServerTypeOK, JSTypeOK, WorkerHoldsUnacked
<1>6. (faults \in 0..MaxFaults)'
  BY GatewayAssumption 
<1>7. RecordTypeOK'
  BY DEF RecordTypeOK, InFlight
<1>8. WorkerHoldsUnacked'
  BY DEF WorkerHoldsUnacked, DialingTouchesNoBroker, PendingUnacked
<1>9. HistoryThenQueueThenServer'
  BY DEF HistoryThenQueueThenServer, Ingested, OutcomeTellsHistory,
         InFlight, WorkerHoldsUnacked, ServerTypeOK, JSTypeOK
<1>10. OutcomeTellsHistory'
  BY DEF OutcomeTellsHistory, InFlight, RecordTypeOK
<1>11. DialingTouchesNoBroker'
  BY DEF DialingTouchesNoBroker
<1>12. DoneMeansBroker'
  BY DEF DoneMeansBroker, DialingTouchesNoBroker
<1>13. PostsWithToken'
  BY DEF PostsWithToken, DialingTouchesNoBroker
<1>14. ReachableIsEarned'
  BY DEF ReachableIsEarned, PostsWithToken, DoneMeansBroker
<1>15. PendingUnacked'
  BY DEF PendingUnacked, WorkerHoldsUnacked
<1>16. StagesFollow'
  BY DEF StagesFollow, InFlight, RecordTypeOK, ConnTypeOK
<1> QED
  BY <1>1, <1>2, <1>3, <1>4, <1>5, <1>6, <1>7, <1>8,
     <1>9, <1>10, <1>11, <1>12, <1>13, <1>14, <1>15, <1>16

(* The worker that posts and acknowledges keeps it (NatsGateway._forward). *)
LEMMA ForwardingStep ==
  ASSUME IInv, Forwarding, UNCHANGED recVars
  PROVE  IInv'
<1> USE DEF IInv, TypeOK, GWTypeOK
<1> USE DEF Forwarding, Worker, Fetch, ForwardWithoutToken, Post, ServerAnswers,
         Ingest, Answer, ForwardSucceeds, ForwardRejected, ForwardFails, AckArrives,
         NackArrives, AckLost, AbandonRequest, JSHandOut, JSAck, JSNack, Ready,
         Fault
<1>1. JSTypeOK'
  BY DEF JSTypeOK, ConnTypeOK, WorkerHoldsUnacked
<1>2. ConnTypeOK'
  BY DEF ConnTypeOK
<1>3. WorkTypeOK'
  BY DEF WorkTypeOK, ServerTypeOK
<1>4. HealthTypeOK'
  BY DEF HealthTypeOK
<1>5. ServerTypeOK'
  BY DEF ServerTypeOK, JSTypeOK, WorkerHoldsUnacked
<1>6. (faults \in 0..MaxFaults)'
  BY GatewayAssumption 
<1>7. RecordTypeOK'
  BY DEF RecordTypeOK, InFlight
<1>8. WorkerHoldsUnacked'
  BY DEF WorkerHoldsUnacked, DialingTouchesNoBroker, PendingUnacked
<1>9. HistoryThenQueueThenServer'
  BY DEF HistoryThenQueueThenServer, Ingested, OutcomeTellsHistory,
         InFlight, WorkerHoldsUnacked, ServerTypeOK, JSTypeOK
<1>10. OutcomeTellsHistory'
  BY DEF OutcomeTellsHistory, InFlight, RecordTypeOK
<1>11. DialingTouchesNoBroker'
  BY DEF DialingTouchesNoBroker
<1>12. DoneMeansBroker'
  BY DEF DoneMeansBroker, DialingTouchesNoBroker
<1>13. PostsWithToken'
  BY DEF PostsWithToken, DialingTouchesNoBroker
<1>14. ReachableIsEarned'
  BY DEF ReachableIsEarned, PostsWithToken, DoneMeansBroker
<1>15. PendingUnacked'
  BY DEF PendingUnacked, WorkerHoldsUnacked
<1>16. StagesFollow'
  BY DEF StagesFollow, InFlight, RecordTypeOK, ConnTypeOK
<1> QED
  BY <1>1, <1>2, <1>3, <1>4, <1>5, <1>6, <1>7, <1>8,
     <1>9, <1>10, <1>11, <1>12, <1>13, <1>14, <1>15, <1>16

(* Steps that change nothing keep it. *)
LEMMA StutterStep == ASSUME IInv, UNCHANGED vars PROVE IInv'
<1> USE DEF IInv, TypeOK, GWTypeOK, vars
<1>1. JSTypeOK' /\ ConnTypeOK' /\ WorkTypeOK' /\ HealthTypeOK' /\ ServerTypeOK'
  BY DEF JSTypeOK, ConnTypeOK, WorkTypeOK, HealthTypeOK, ServerTypeOK
<1>2. RecordTypeOK' /\ (faults \in 0..MaxFaults)'
  BY DEF RecordTypeOK
<1>3. HistoryThenQueueThenServer' /\ OutcomeTellsHistory'
  BY DEF HistoryThenQueueThenServer, Ingested, OutcomeTellsHistory
<1>4. WorkerHoldsUnacked' /\ DialingTouchesNoBroker' /\ DoneMeansBroker'
  BY DEF WorkerHoldsUnacked, DialingTouchesNoBroker, DoneMeansBroker
<1>5. PostsWithToken' /\ ReachableIsEarned'
  BY DEF PostsWithToken, ReachableIsEarned
<1>6. PendingUnacked' /\ StagesFollow'
  BY DEF PendingUnacked, StagesFollow
<1> QED
  BY <1>1, <1>2, <1>3, <1>4, <1>5, <1>6

(***************************************************************************)
(* IInv holds in every behaviour of the delivery path.                     *)
(***************************************************************************)
THEOREM Invariance == Spec => []IInv
<1>1. IInv /\ [Next]_vars => IInv'
  BY RecordingStep, ProcessStep, DialingStep, EnvironmentStep, ForwardingStep,
     StutterStep DEF Next
<1> QED
  BY InitIInv, <1>1, PTL DEF Spec

-----------------------------------------------------------------------------
(* What IInv gives *)

(***************************************************************************)
(* Every variable keeps its type.                                          *)
(***************************************************************************)
THEOREM TypeCorrect == Spec => []TypeOK
<1>1. IInv => TypeOK
  BY DEF IInv
<1> QED
  BY <1>1, Invariance, PTL

(***************************************************************************)
(* What the server took was queued, and what is queued was committed, in   *)
(* this order, whatever crashes (EventService, NatsGateway.publish).       *)
(***************************************************************************)
THEOREM HistoryFirst == Spec => []HistoryThenQueueThenServer
<1>1. IInv => HistoryThenQueueThenServer
  BY DEF IInv
<1> QED
  BY <1>1, Invariance, PTL

(***************************************************************************)
(* _retry_loop() never closes a broker that somebody uses.                 *)
(***************************************************************************)
THEOREM RetryClosesNothing == Spec => []DialingTouchesNoBroker
<1>1. IInv => DialingTouchesNoBroker
  BY DEF IInv
<1> QED
  BY <1>1, Invariance, PTL

(***************************************************************************)
(* The worker holds only messages that nobody has acknowledged.            *)
(***************************************************************************)
THEOREM NoWorkOnAcked == Spec => []WorkerHoldsUnacked
<1>1. IInv => WorkerHoldsUnacked
  BY DEF IInv
<1> QED
  BY <1>1, Invariance, PTL

(***************************************************************************)
(* /health reports the server reachable only when that was earned.         *)
(***************************************************************************)
THEOREM HealthIsEarned == Spec => []ReachableIsEarned
<1>1. IInv => ReachableIsEarned
  BY DEF IInv
<1> QED
  BY <1>1, Invariance, PTL

(***************************************************************************)
(* No handler publishes, or waits for the queue, through a gateway that is *)
(* closed: lifespan() ends the handlers first.                             *)
(***************************************************************************)
THEOREM GatewayClosesLast == Spec => []NoHandlerOutlivesGateway
<1>1. IInv => NoHandlerOutlivesGateway
  BY DEF IInv, StagesFollow, NoHandlerOutlivesGateway
<1> QED
  BY <1>1, Invariance, PTL

(***************************************************************************)
(* A handler that failed has left nothing in the history, and every other  *)
(* one that began has left its event there (EventService).                 *)
(***************************************************************************)
THEOREM OutcomesAreTrue == Spec => []OutcomeTellsHistory
<1>1. IInv => OutcomeTellsHistory
  BY DEF IInv
<1> QED
  BY <1>1, Invariance, PTL

-----------------------------------------------------------------------------
(* Duplicates *)

Bit(b) == IF b THEN 1 ELSE 0

(***************************************************************************)
(* Without a fault, e will not be posted again: it is acknowledged, or the *)
(* worker has a status for it that it will acknowledge.                    *)
(***************************************************************************)
Settled(e) ==
  \/ e \in acked
  \/ msg = e /\ (phase = "ack" \/ (phase = "answered" /\ SendResult(reply) = "sent"))

(* The worker holds e, and the outage that can lose its ack has happened. *)
Owed(e) == msg = e /\ phase # "idle" /\ broker # "up"

(* The signal to end has come, and the broker has still to stop for it. *)
Ending == stage \in {"draining", "stopping"}

(***************************************************************************)
(* What e has cost so far and what it may still cost without another       *)
(* fault.  A step that increases the left side is a fault.                 *)
(***************************************************************************)
Budget ==
  \A e \in Events :
    ingests[e] + Bit(e \in late) + Bit(~Settled(e)) + Bit(Owed(e)) + Bit(Ending) <= 1 + faults

(* Every step of every actor stays within the budget. *)
LEMMA BudgetStep ==
  ASSUME IInv, Budget, Next
  PROVE  Budget'
<1> USE GatewayAssumption DEF IInv, TypeOK, GWTypeOK, ServerTypeOK, JSTypeOK, WorkTypeOK,
            WorkerHoldsUnacked, DialingTouchesNoBroker, SendResult, Success,
            PendingUnacked, Budget, Bit, Settled, Owed, Ending
<1>1. CASE Recording
  BY <1>1 DEF Recording, Commit, CommitFails, EnqueueStarts, EnqueueEnds, SetRecord,
         PublishSends, PublishRefused, PublishConfirmed, PublishRaises,
         FaultUnless, Fault
<1>2. CASE Process
  <2> USE DEF SafeClose, AbandonRequest, CutHandlers, Fault
  <2>1. CASE \E t \in BOOLEAN : Boot(t)
    BY <2>1 DEF Boot, Start
  <2>2. CASE BootFails \/ Serve \/ Terminate \/ StopScheduler
    BY <2>2 DEF BootFails, Serve, Terminate, StopScheduler
  <2>3. CASE CloseGateway
    BY <2>3 DEF CloseGateway, Close
  <2>4. CASE Exit
    BY <2>4 DEF Exit, ForgetGateway, StagesFollow
  <2>5. CASE Crash
    BY <2>5 DEF Crash, ForgetGateway
  <2> QED
    BY <1>2, <2>1, <2>2, <2>3, <2>4, <2>5 DEF Process, Lifespan
<1>3. CASE Dialing /\ UNCHANGED recVars
  BY <1>3 DEF Dialing, ConnectSucceeds, ConnectFails, RetryWakes, SafeClose,
         FaultUnless, Fault
<1>4. CASE Environment /\ UNCHANGED recVars
  BY <1>4 DEF Environment, NatsGoesDown, NatsComesUp, Reconnect, GiveUp, Store,
         AckWaitExpires, LateArrival, Ingest, Answer, ServerChanges, ServerRecovers,
         JSGoesDown, JSComesUp, JSStore, JSAckWaitExpires, Fault
<1>5. CASE Forwarding /\ UNCHANGED recVars
  BY <1>5 DEF Forwarding, Worker, Fetch, ForwardWithoutToken, Post, ServerAnswers,
         Ingest, Answer, ForwardSucceeds, ForwardRejected, ForwardFails, AckArrives,
         NackArrives, AckLost, AbandonRequest, JSHandOut, JSAck, JSNack, Ready,
         Fault
<1> QED
  BY <1>1, <1>2, <1>3, <1>4, <1>5 DEF Next

(***************************************************************************)
(* Every duplicate is paid for by a fault.  The budget counts what is      *)
(* still to come, which makes the bound inductive.                         *)
(***************************************************************************)
THEOREM DuplicatesBounded == Spec => []DuplicatesArePaidFor
<1>1. Init => Budget
  <2> SUFFICES ASSUME Init, NEW e \in Events
               PROVE  ingests[e] + Bit(e \in late) + Bit(~Settled(e)) + Bit(Owed(e)) + Bit(Ending) <= 1 + faults
    BY DEF Budget
  <2>1. ingests[e] = 0 /\ faults = 0
    BY DEF Init, GWInit
  <2>2. e \notin late /\ ~Settled(e) /\ ~Owed(e) /\ ~Ending
    BY DEF Init, JSInit, GWInit, Settled, Owed, Ending
  <2> QED
    BY <2>1, <2>2 DEF Bit
<1>2. IInv /\ Budget /\ [Next]_vars => Budget'
  <2>1. ASSUME Budget, UNCHANGED vars PROVE Budget'
    BY <2>1 DEF vars, Budget, Bit, Settled, Owed, Ending
  <2> QED
    BY <2>1, BudgetStep
<1>3. IInv /\ Budget => DuplicatesArePaidFor
  <2> SUFFICES ASSUME IInv, Budget, NEW e \in Events PROVE ingests[e] <= 1 + faults
    BY DEF DuplicatesArePaidFor
  <2>1. ingests[e] \in Nat /\ faults \in Nat
    BY GatewayAssumption DEF IInv, TypeOK, GWTypeOK, ServerTypeOK
  <2>2. \A b \in BOOLEAN : Bit(b) \in Nat
    BY DEF Bit
  <2>3. ingests[e] + Bit(e \in late) + Bit(~Settled(e)) + Bit(Owed(e)) + Bit(Ending) <= 1 + faults
    BY DEF Budget
  <2> QED
    BY <2>1, <2>2, <2>3 DEF Bit
<1> QED
  BY <1>1, <1>2, <1>3, Invariance, PTL DEF Spec

-----------------------------------------------------------------------------
(* Nothing is lost, as long as no status is a redirect *)

(***************************************************************************)
(* A status that _forward() takes for success is one the server gave after *)
(* taking the event, up to the ack and for ever after it.                  *)
(***************************************************************************)
SentIsIngested ==
  /\ phase = "answered" /\ SendResult(reply) = "sent" => msg \in Ingested
  /\ phase = "ack" => msg \in Ingested
  /\ AckedIsIngested
  /\ last_forwarded_at => Ingested # {}

(* No step acknowledges, or reports as forwarded, what the server has not taken. *)
LEMMA SentStep ==
  ASSUME NoRedirects, IInv, SentIsIngested, Next
  PROVE  SentIsIngested'
<1> USE GatewayAssumption DEF IInv, TypeOK, GWTypeOK, ServerTypeOK, JSTypeOK, WorkTypeOK,
            WorkerHoldsUnacked, SendResult, Success, NoRedirects, Ingested,
            SentIsIngested, AckedIsIngested
<1>1. CASE Recording
  BY <1>1 DEF Recording, Commit, CommitFails, EnqueueStarts, EnqueueEnds, SetRecord,
         PublishSends, PublishRefused, PublishConfirmed, PublishRaises,
         FaultUnless, Fault
<1>2. CASE Process
  BY <1>2 DEF Process, Lifespan, Boot, BootFails, Start, Serve, Terminate, StopScheduler,
         CloseGateway, Close, Exit, Crash, ForgetGateway, SafeClose,
         AbandonRequest, CutHandlers, Fault
<1>3. CASE Dialing /\ UNCHANGED recVars
  BY <1>3 DEF Dialing, ConnectSucceeds, ConnectFails, RetryWakes, SafeClose,
         FaultUnless, Fault
<1>4. CASE Environment /\ UNCHANGED recVars
  BY <1>4 DEF Environment, NatsGoesDown, NatsComesUp, Reconnect, GiveUp, Store,
         AckWaitExpires, LateArrival, Ingest, Answer, ServerChanges, ServerRecovers,
         JSGoesDown, JSComesUp, JSStore, JSAckWaitExpires, Fault
<1>5. CASE Forwarding /\ UNCHANGED recVars
  BY <1>5 DEF Forwarding, Worker, Fetch, ForwardWithoutToken, Post, ServerAnswers,
         Ingest, Answer, ForwardSucceeds, ForwardRejected, ForwardFails, AckArrives,
         NackArrives, AckLost, AbandonRequest, JSHandOut, JSAck, JSNack, Ready,
         Fault
<1> QED
  BY <1>1, <1>2, <1>3, <1>4, <1>5 DEF Next

(* Without redirects, "sent" means ingested (ServerClient.send, NatsGateway._forward). *)
THEOREM SentInvariance == ASSUME NoRedirects PROVE Spec => []SentIsIngested
<1>1. Init => SentIsIngested
  BY DEF Init, JSInit, GWInit, SentIsIngested, AckedIsIngested
<1>2. IInv /\ SentIsIngested /\ [Next]_vars => SentIsIngested'
  <2>1. ASSUME SentIsIngested, UNCHANGED vars PROVE SentIsIngested'
    BY <2>1 DEF vars, SentIsIngested, AckedIsIngested, Ingested
  <2> QED
    BY <2>1, SentStep, NoRedirects
<1> QED
  BY <1>1, <1>2, Invariance, PTL DEF Spec

(***************************************************************************)
(* An acknowledged event has been taken by the server                      *)
(* (NatsGateway._forward, ServerClient.send).                              *)
(***************************************************************************)
THEOREM NothingIsLost == ASSUME NoRedirects PROVE Spec => []AckedIsIngested
<1>1. SentIsIngested => AckedIsIngested
  BY DEF SentIsIngested
<1> QED
  BY <1>1, SentInvariance, NoRedirects, PTL

(***************************************************************************)
(* /health shows a connected queue and a forwarding time only when there   *)
(* is a broker and the server has taken something.                         *)
(***************************************************************************)
THEOREM HealthIsTrue == ASSUME NoRedirects PROVE Spec => []HealthShowsFacts
<1>1. IInv /\ SentIsIngested => HealthShowsFacts
  BY DEF IInv, DoneMeansBroker, SentIsIngested, HealthShowsFacts
<1> QED
  BY <1>1, Invariance, SentInvariance, NoRedirects, PTL

(***************************************************************************)
(* As long as nothing has failed, delivery is exactly once: what is        *)
(* acknowledged has been taken, and has been taken one time                *)
(* (NatsGateway._forward).                                                 *)
(***************************************************************************)
THEOREM ExactlyOnce ==
  ASSUME NoRedirects
  PROVE  Spec => [](faults = 0 => \A e \in acked : ingests[e] = 1)
<1>1. ASSUME IInv, DuplicatesArePaidFor, AckedIsIngested, faults = 0, NEW e \in acked
      PROVE  ingests[e] = 1
  <2>1. e \in Events /\ ingests[e] \in Nat
    BY <1>1 DEF IInv, TypeOK, JSTypeOK, GWTypeOK, ServerTypeOK
  <2>2. ingests[e] > 0 /\ ingests[e] <= 1
    BY <1>1, <2>1 DEF DuplicatesArePaidFor, AckedIsIngested, Ingested
  <2> QED
    BY <2>1, <2>2
<1>2. IInv /\ DuplicatesArePaidFor /\ AckedIsIngested =>
        (faults = 0 => \A e \in acked : ingests[e] = 1)
  BY <1>1
<1> QED
  BY <1>2, Invariance, DuplicatesBounded, NothingIsLost, NoRedirects, PTL

-----------------------------------------------------------------------------
(* Refinement *)

(* One more event ingested is one more event that the server has taken. *)
LEMMA IngestTakes ==
  ASSUME ServerTypeOK, NEW e \in Events, Ingest(e)
  PROVE  Ingested' = Ingested \cup {e}
BY DEF ServerTypeOK, Ingest, Ingested

(***************************************************************************)
(* Every step of the path is a step of the abstract queue or a stutter.    *)
(***************************************************************************)
LEMMA QueueStep ==
  ASSUME NoRedirects, IInv, SentIsIngested, Next
  PROVE  [Queue!Next]_(Queue!qvars)
<1> USE GatewayAssumption DEF IInv, TypeOK, GWTypeOK, ServerTypeOK, JSTypeOK, WorkTypeOK,
            WorkerHoldsUnacked, HistoryThenQueueThenServer, Ingested, Queue!qvars
<1>1. CASE Recording
  <2>1. PICK e \in Events :
             Commit(e) \/ CommitFails(e) \/ EnqueueStarts(e) \/ EnqueueEnds(e)
    BY <1>1 DEF Recording
  <2>2. CASE Commit(e)
    BY <2>2 DEF Commit, Queue!Next, Queue!Record
  <2>3. CASE CommitFails(e) \/ EnqueueStarts(e) \/ EnqueueEnds(e)
    BY <2>3 DEF CommitFails, EnqueueStarts, EnqueueEnds, PublishSends, PublishRefused,
                PublishConfirmed, PublishRaises
  <2> QED
    BY <2>1, <2>2, <2>3
<1>2. CASE Process
  BY <1>2 DEF Process, Lifespan, Boot, BootFails, Start, Serve, Terminate, StopScheduler,
         CloseGateway, Close, Exit, Crash, ForgetGateway, SafeClose,
         AbandonRequest, CutHandlers, Fault
<1>3. CASE Dialing /\ UNCHANGED recVars
  BY <1>3 DEF Dialing, ConnectSucceeds, ConnectFails, RetryWakes, SafeClose,
         FaultUnless, Fault
<1>4. CASE Environment /\ UNCHANGED recVars
  <2>1. ASSUME NEW e \in Events, LateArrival(e)
        PROVE  [Queue!Next]_(Queue!qvars)
    <3>1. e \in stream /\ UNCHANGED <<history, stream, acked>>
      BY <1>4, <2>1 DEF LateArrival
    <3>2. UNCHANGED ingests \/ Ingest(e)
      BY <2>1 DEF LateArrival
    <3> QED
      BY <3>1, <3>2, IngestTakes DEF Queue!Next, Queue!Take
  <2>2. ASSUME NEW e \in Events, Store(e)
        PROVE  [Queue!Next]_(Queue!qvars)
    <3>1. e \in history /\ UNCHANGED <<history, acked, ingests>> /\ stream' = stream \cup {e}
      BY <1>4, <2>2 DEF Store, JSStore
    <3> QED
      BY <3>1 DEF Queue!Next, Queue!Enqueue
  <2>3. CASE \/ NatsGoesDown \/ NatsComesUp \/ Reconnect \/ GiveUp
             \/ \E e \in Events : AckWaitExpires(e)
             \/ \E s \in Replies \cup {NoAnswer} : ServerChanges(s) \/ ServerRecovers(s)
    BY <1>4, <2>3 DEF NatsGoesDown, NatsComesUp, Reconnect, GiveUp, AckWaitExpires,
                ServerChanges, ServerRecovers, JSGoesDown, JSComesUp, JSAckWaitExpires
  <2> QED
    BY <1>4, <2>1, <2>2, <2>3 DEF Environment
<1>5. CASE Forwarding /\ UNCHANGED recVars
  <2>1. CASE ServerAnswers
    <3>1. msg \in stream /\ UNCHANGED <<history, stream, acked>>
      BY <1>5, <2>1 DEF ServerAnswers
    <3>2. UNCHANGED ingests \/ Ingest(msg)
      BY <2>1 DEF ServerAnswers
    <3> QED
      BY <3>1, <3>2, IngestTakes DEF Queue!Next, Queue!Take
  <2>2. CASE AckArrives
    <3>1. msg \in Ingested /\ msg \in Events
      BY <2>2 DEF AckArrives, SentIsIngested
    <3>2. acked' = acked \cup {msg} /\ UNCHANGED <<history, stream, ingests>>
      BY <1>5, <2>2 DEF AckArrives, JSAck
    <3> QED
      BY <3>1, <3>2 DEF Queue!Next, Queue!Retire
  <2>3. CASE \/ ForwardWithoutToken \/ Post \/ ForwardSucceeds \/ ForwardRejected
             \/ ForwardFails \/ NackArrives \/ AckLost
             \/ \E e \in Events : Fetch(e)
    BY <1>5, <2>3 DEF ForwardWithoutToken, Post, ForwardSucceeds, ForwardRejected,
         ForwardFails, NackArrives, AckLost, Fetch, JSHandOut, JSNack
  <2> QED
    BY <1>5, <2>1, <2>2, <2>3 DEF Forwarding, Worker
<1> QED
  BY <1>1, <1>2, <1>3, <1>4, <1>5 DEF Next

(***************************************************************************)
(* The delivery path implements the abstract at-least-once queue.          *)
(***************************************************************************)
THEOREM Refinement == ASSUME NoRedirects PROVE Spec => QueueSpec
<1>1. Init => Queue!Init
  BY DEF Init, JSInit, GWInit, Ingested, Queue!Init
<1>2. IInv /\ SentIsIngested /\ [Next]_vars => [Queue!Next]_(Queue!qvars)
  <2>1. ASSUME UNCHANGED vars PROVE UNCHANGED Queue!qvars
    BY <2>1 DEF vars, Queue!qvars, Ingested
  <2> QED
    BY <2>1, QueueStep, NoRedirects
<1> QED
  BY <1>1, <1>2, Invariance, SentInvariance, NoRedirects, PTL
  DEF Spec, QueueSpec, Queue!Spec

Promise == INSTANCE ReliableQueueProofs
             WITH recorded <- history, queued <- stream, taken <- Ingested, retired <- acked

(***************************************************************************)
(* What the abstract queue promises, the agent keeps: the SQLite history,  *)
(* the stream, what the server has and what is acknowledged only grow,     *)
(* through crashes, restarts and outages (EventService, NatsGateway).      *)
(***************************************************************************)
THEOREM NothingForgotten ==
  ASSUME NoRedirects
  PROVE  Spec => [][/\ history \subseteq history' /\ stream \subseteq stream'
                    /\ Ingested \subseteq Ingested' /\ acked \subseteq acked']_<<history, stream, Ingested, acked>>
<1>1. Spec => Promise!Spec
  BY Refinement, NoRedirects
  DEF QueueSpec, Queue!Spec, Queue!Init, Queue!Next, Queue!qvars, Queue!Record, Queue!Enqueue,
      Queue!Take, Queue!Retire, Promise!Spec, Promise!Init, Promise!Next, Promise!qvars,
      Promise!Record, Promise!Enqueue, Promise!Take, Promise!Retire
<1> QED
  BY <1>1, Promise!NothingDropped DEF Promise!Grows, Promise!qvars

(***************************************************************************)
(* A report or a metric that did not reach the queue clears                *)
(* queue_connected on its way out.  A publish that was confirmed is        *)
(* stored; one that raised clears the flag; one that was refused found no  *)
(* broker, and then the flag was clear before (NatsGateway.publish).       *)
(***************************************************************************)
THEOREM LossIsShown == Spec => LostEnqueueIsShown
<1>1. ASSUME IInv, [Next]_vars, NEW e \in Events,
             record[e] \in InFlight, record'[e] = "done", e \notin stream'
      PROVE  ~queue_connected'
  <2>1. EnqueueEnds(e)
    <3>1. record' # record /\ record[e] # "done"
      BY <1>1 DEF InFlight
    <3>2. CASE Recording
      <4>1. PICK f \in Events :
                 Commit(f) \/ CommitFails(f) \/ EnqueueStarts(f) \/ EnqueueEnds(f)
        BY <3>2 DEF Recording
      <4>2. \E step : SetRecord(f, step)
        BY <4>1 DEF Commit, CommitFails, EnqueueStarts, EnqueueEnds
      <4>3. f = e
        BY <1>1, <3>1, <4>2 DEF SetRecord, IInv, TypeOK, RecordTypeOK
      <4>4. ~Commit(e) /\ ~CommitFails(e)
        BY <1>1 DEF Commit, CommitFails, MayRecord, InFlight
      <4>5. ~EnqueueStarts(e)
        BY <1>1 DEF EnqueueStarts, SetRecord, IInv, TypeOK, RecordTypeOK
      <4> QED
        BY <4>1, <4>3, <4>4, <4>5
    <3>3. CASE Process
      BY <1>1, <3>1, <3>3 DEF Process, Lifespan, Boot, BootFails, Serve, Terminate, StopScheduler,
         CloseGateway, Exit, Crash, CutHandlers
    <3> QED
      BY <1>1, <3>1, <3>2, <3>3 DEF Next, vars, recVars
  <2>2. stream' = stream
    BY <2>1 DEF EnqueueEnds, PublishRefused, PublishConfirmed, PublishRaises
  <2>3. PublishRefused \/ PublishRaises(e)
    BY <1>1, <2>1, <2>2 DEF EnqueueEnds, PublishConfirmed
  <2>4. CASE PublishRefused
    BY <1>1, <2>4 DEF PublishRefused, IInv, DoneMeansBroker
  <2>5. CASE PublishRaises(e)
    BY <2>5 DEF PublishRaises
  <2> QED
    BY <2>3, <2>4, <2>5
<1>2. IInv /\ [Next]_vars =>
        [\A e \in Events :
           record[e] \in InFlight /\ record'[e] = "done" /\ e \notin stream'
             => ~queue_connected']_vars
  BY <1>1
<1> QED
  BY <1>2, Invariance, PTL DEF Spec, LostEnqueueIsShown

(***************************************************************************)
(* Without AGENT__TOKEN nothing leaves the queue: the worker acknowledges  *)
(* and posts only with a token, so what still reaches the server was       *)
(* posted by an earlier process (NatsGateway._forward).                    *)
(***************************************************************************)
THEOREM WithoutTokenNothingLeaves == Spec => TokenlessKeepsAll
<1>1. ASSUME IInv, [Next]_vars, ~token
      PROVE  acked' = acked /\ \A e \in Events \ late : ingests'[e] = ingests[e]
  <2> USE <1>1
  <2>1. CASE Recording
    BY <2>1 DEF Recording, Commit, CommitFails, EnqueueStarts, EnqueueEnds,
         PublishSends, PublishRefused, PublishConfirmed, PublishRaises
  <2>2. CASE Process
    BY <2>2 DEF Process, Lifespan, Boot, BootFails, Start, Serve, Terminate, StopScheduler,
         CloseGateway, Exit, Crash
  <2>3. CASE Dialing
    BY <2>3 DEF Dialing, ConnectSucceeds, ConnectFails, RetryWakes
  <2>4. CASE Environment
    <3>1. ASSUME NEW f \in Events, LateArrival(f)
          PROVE  acked' = acked /\ \A e \in Events \ late : ingests'[e] = ingests[e]
      BY <3>1 DEF LateArrival, Ingest, IInv, TypeOK, GWTypeOK, ServerTypeOK
    <3>2. CASE \/ NatsGoesDown \/ NatsComesUp \/ Reconnect \/ GiveUp
               \/ \E e \in Events : Store(e) \/ AckWaitExpires(e)
               \/ \E s \in Replies \cup {NoAnswer} : ServerChanges(s) \/ ServerRecovers(s)
      BY <3>2 DEF NatsGoesDown, NatsComesUp, Reconnect, GiveUp, Store, AckWaitExpires,
                  ServerChanges, ServerRecovers, JSGoesDown, JSComesUp, JSStore,
                  JSAckWaitExpires
    <3> QED
      BY <2>4, <3>1, <3>2 DEF Environment
  <2>5. CASE Forwarding
    <3>1. phase \notin {"posted", "answered", "ack"}
      BY DEF IInv, PostsWithToken
    <3> QED
      BY <2>5, <3>1 DEF Forwarding, Worker, Fetch, ForwardWithoutToken, Post, ServerAnswers,
           ForwardSucceeds, ForwardRejected, ForwardFails, AckArrives, NackArrives, AckLost,
           JSHandOut, JSNack
  <2>6. CASE UNCHANGED vars
    BY <2>6 DEF vars
  <2> QED
    BY <2>1, <2>2, <2>3, <2>4, <2>5, <2>6 DEF Next
<1>2. IInv /\ [Next]_vars =>
        [~token => /\ acked' = acked
                   /\ \A e \in Events \ late : ingests'[e] = ingests[e]]_vars
  BY <1>1
<1> QED
  BY <1>2, Invariance, PTL DEF Spec, TokenlessKeepsAll
-----------------------------------------------------------------------------
(* A connect timeout below a second *)

(***************************************************************************)
(* _build_broker() cuts the timeout to whole seconds.  With one that is    *)
(* below a second the agent never has a broker, so nothing that it records *)
(* gets beyond SQLite, whatever NATS and the server do and however often   *)
(* it is restarted: the condition of GatewayConnects cannot be dropped     *)
(* (NatsGateway._build_broker, _connect_once).                             *)
(***************************************************************************)
THEOREM ShortTimeoutNeverConnects ==
  ASSUME ConnectTimeout < 10
  PROVE  Spec => [](broker = "none" /\ stream = {} /\ Ingested = {})
<1> DEFINE Never == dialing # "done" /\ stream = {}
<1>1. Init => Never
  BY DEF Init, GWInit, JSInit
<1>2. DialSeconds = 0
  BY GatewayAssumption DEF DialSeconds
<1>3. ASSUME IInv, Never, [Next]_vars PROVE Never'
  <2>1. broker = "none" /\ wire = {}
    BY <1>3 DEF IInv, DialingTouchesNoBroker
  <2>2. CASE Recording
    BY <1>3, <2>2 DEF Recording, Commit, CommitFails, EnqueueStarts, EnqueueEnds,
         PublishSends, PublishRefused, PublishConfirmed, PublishRaises
  <2>3. CASE Process
    BY <1>3, <2>3 DEF Process, Lifespan, Boot, BootFails, Start, Serve, Terminate,
         StopScheduler, CloseGateway, Close, Exit, Crash, ForgetGateway
  <2>4. CASE Dialing
    BY <1>2, <1>3, <2>4 DEF Dialing, ConnectSucceeds, ConnectFails, RetryWakes
  <2>5. CASE Environment
    BY <1>3, <2>1, <2>5 DEF Environment, NatsGoesDown, NatsComesUp, Reconnect, GiveUp,
         Store, AckWaitExpires, LateArrival, ServerChanges, ServerRecovers,
         JSGoesDown, JSComesUp, JSAckWaitExpires
  <2>6. CASE Forwarding
    BY <1>3, <2>6 DEF Forwarding, Worker, Fetch, ForwardWithoutToken, Post, ServerAnswers,
         ForwardSucceeds, ForwardRejected, ForwardFails, AckArrives, NackArrives, AckLost,
         JSHandOut, JSAck, JSNack
  <2>7. CASE UNCHANGED vars
    BY <1>3, <2>7 DEF vars
  <2> QED
    BY <1>3, <2>2, <2>3, <2>4, <2>5, <2>6, <2>7 DEF Next
<1>4. IInv /\ Never => broker = "none" /\ stream = {} /\ Ingested = {}
  BY DEF IInv, DialingTouchesNoBroker, HistoryThenQueueThenServer
<1> HIDE DEF Never
<1>5. IInv /\ Never /\ [Next]_vars => Never'
  BY <1>3
<1> QED
  BY <1>1, <1>4, <1>5, Invariance, PTL DEF Spec
=============================================================================
