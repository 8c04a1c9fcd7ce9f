---------------------------- MODULE AgentIdentity ----------------------------
(***************************************************************************)
(* What the row of agent_identity promises to those who read it, without   *)
(* sessions, stale reads and partial updates: the agent gets one id, for   *)
(* ever; its token is issued and withdrawn in one piece with the mark of   *)
(* the writer, and no writer issues twice in a row.                        *)
(***************************************************************************)
CONSTANTS
  Writers,   \* those who may create the identity or issue a token
  Secrets,   \* the tokens
  None       \* no id, no token, no writer

VARIABLES
  id,        \* the id of the agent
  token,     \* the active token
  since      \* the writer whose token that is

ivars == <<id, token, since>>

Init == id = None /\ token = None /\ since = None

Found(w) ==
  /\ id = None
  /\ id' = w
  /\ UNCHANGED <<token, since>>

Issue(w, t) ==
  /\ id # None
  /\ w # since
  /\ token' = t /\ since' = w
  /\ UNCHANGED id

Withdraw ==
  /\ token # None
  /\ token' = None /\ since' = None
  /\ UNCHANGED id

Next ==
  \/ \E w \in Writers : Found(w) \/ \E t \in Secrets : Issue(w, t)
  \/ Withdraw

Spec == Init /\ [][Next]_ivars
=============================================================================
