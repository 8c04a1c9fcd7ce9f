-------------------------- MODULE ReliableQueueProofs --------------------------
(***************************************************************************)
(* What the abstract queue promises, for every set of events: the promises *)
(* that module Delivery inherits by implementing it.                       *)
(***************************************************************************)
EXTENDS ReliableQueue, TLAPS

(* What is retired was taken, what was taken was queued, and that recorded. *)
Chain ==
  /\ recorded \subseteq Events
  /\ retired \subseteq taken /\ taken \subseteq queued /\ queued \subseteq recorded

(* Nothing is ever taken back: every set only grows. *)
Grows ==
  /\ recorded \subseteq recorded' /\ queued \subseteq queued'
  /\ taken \subseteq taken' /\ retired \subseteq retired'

(***************************************************************************)
(* An event goes through record, queue, server and retirement in order,    *)
(* and leaves none of them out.                                            *)
(***************************************************************************)
THEOREM InOrder == Spec => []Chain
<1>1. Init => Chain
  BY DEF Init, Chain
<1>2. Chain /\ [Next]_qvars => Chain'
  BY DEF Chain, Next, qvars, Record, Enqueue, Take, Retire
<1> QED
  BY <1>1, <1>2, PTL DEF Spec

(***************************************************************************)
(* No step drops an event from where it has got.                           *)
(***************************************************************************)
LEMMA NothingDropped == Spec => [][Grows]_qvars
<1>1. [Next]_qvars => [Grows]_qvars
  BY DEF Next, qvars, Record, Enqueue, Take, Retire, Grows
<1> QED
  BY <1>1, PTL DEF Spec
=============================================================================
