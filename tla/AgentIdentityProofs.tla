-------------------------- MODULE AgentIdentityProofs --------------------------
(***************************************************************************)
(* What the abstract identity promises, for every set of writers and of    *)
(* tokens: the promises that module Tokens inherits by implementing it.    *)
(***************************************************************************)
EXTENDS AgentIdentity, TLAPS

(* There is a token exactly when there is a writer of it, and then an id. *)
OnePiece ==
  /\ token = None <=> since = None
  /\ token # None => id # None

(* The id, once there is one, stays. *)
IdStays == id # None => id' = id

(***************************************************************************)
(* No reader ever sees a token without its writer or without an identity.  *)
(***************************************************************************)
THEOREM TokenIsWhole ==
  ASSUME None \notin Writers \cup Secrets
  PROVE  Spec => []OnePiece
<1>1. Init => OnePiece
  BY DEF Init, OnePiece
<1>2. OnePiece /\ [Next]_ivars => OnePiece'
  BY DEF OnePiece, Next, ivars, Found, Issue, Withdraw
<1> QED
  BY <1>1, <1>2, PTL DEF Spec

(***************************************************************************)
(* The agent has one id for ever.                                          *)
(***************************************************************************)
LEMMA IdIsForEver == Spec => [][IdStays]_ivars
<1>1. [Next]_ivars => [IdStays]_ivars
  BY DEF Next, ivars, Found, Issue, Withdraw, IdStays
<1> QED
  BY <1>1, PTL DEF Spec
=============================================================================
