----------------------------- MODULE TokensProofs -----------------------------
(***************************************************************************)
(* Proofs about the token row, for every set of commands and boots and     *)
(* however many of them overlap.                                           *)
(***************************************************************************)
EXTENDS Tokens, TLAPS

(***************************************************************************)
(* Past ensure_identity() there is a row, for ever, and what a process has *)
(* read of it has the agent_id that it still has.                          *)
(***************************************************************************)
ReadOK ==
  \A p \in Procs :
    /\ pc[p] \in {"refresh", "loaded", "reread", "reconcile", "committed"} => row # None
    /\ pc[p] \in {"loaded", "reconcile"} => snap[p] # None
    /\ snap[p] # None => row # None /\ snap[p]["agent_id"] = row["agent_id"]
    /\ pc[p] = "idle" => agentId[p] = None
    /\ pc[p] \in {"reread", "reconcile"} => cmd[p] = "run" /\ env[p] # None

(* Whatever a process has read had a hash and a date, or neither. *)
SnapDated ==
  \A p \in Procs :
    snap[p] # None => (snap[p]["hash"] = None <=> snap[p]["created"] = None)

(* A token is put into AGENT__TOKEN after it was printed. *)
EnvIsPrinted ==
  /\ \A p \in Procs :
       agentId[p] # None /\ cmd[p] \in {"create", "force"} => pc[p] = "done"
  /\ \A p, q \in Procs : env[q] = p => pc[p] = "done"

Writing == {"idle", "read", "insert", "refresh", "loaded", "reread", "reconcile"}

(* Until a process commits, nobody has seen its token or its time stamp. *)
Unspent ==
  \A p \in Procs : pc[p] \in Writing =>
    /\ row # None => row["hash"] # p /\ row["created"] # p
    /\ \A q \in Procs : snap[q] # None => snap[q]["hash"] # p /\ snap[q]["created"] # p

IInv ==
  /\ TypeOK
  /\ ReadOK
  /\ SnapDated
  /\ EnvIsPrinted
  /\ Unspent
  /\ OneAgentId
  /\ HashAndDateAgree

(* An empty database satisfies the invariant. *)
LEMMA InitIInv == Init => IInv
<1> SUFFICES ASSUME Init PROVE IInv
  OBVIOUS
<1> USE TokensAssumption DEF Init, Procs
<1>1. TypeOK
  BY DEF TypeOK, Row, Values
<1>2. ReadOK /\ SnapDated /\ EnvIsPrinted /\ Unspent
  BY DEF ReadOK, SnapDated, EnvIsPrinted, Unspent
<1>3. OneAgentId /\ HashAndDateAgree
  BY DEF OneAgentId, HashAndDateAgree
<1> QED
  BY <1>1, <1>2, <1>3 DEF IInv

(* Starting a token command keeps it. *)
LEMMA RunStep ==
  ASSUME IInv, NEW p \in Procs, NEW c \in {"create", "force", "list", "revoke"},
         NEW l \in {p, None},
         RunCommand(p, c, l)
  PROVE  IInv'
<1> USE TokensAssumption DEF IInv, TypeOK, Row, Values, Procs, args, Go
<1> USE DEF RunCommand, Launch
<1>1. TypeOK'
  OBVIOUS
<1>2. ReadOK'
  BY DEF ReadOK
<1>3. SnapDated'
  BY DEF SnapDated
<1>4. EnvIsPrinted'
  BY DEF EnvIsPrinted, ReadOK
<1>5. Unspent'
  BY DEF Unspent, Writing
<1>6. OneAgentId'
  BY DEF OneAgentId
<1>7. HashAndDateAgree'
  BY DEF HashAndDateAgree, TokenOf, Unspent, Writing
<1> QED
  BY <1>1, <1>2, <1>3, <1>4, <1>5, <1>6, <1>7

(* Booting the agent with some AGENT__TOKEN keeps it. *)
LEMMA BootStep ==
  ASSUME IInv, NEW p \in Procs, NEW t \in Known \cup {None},
         RunAgent(p, t)
  PROVE  IInv'
<1> USE TokensAssumption DEF IInv, TypeOK, Row, Values, Procs, args, Go
<1> USE DEF RunAgent, Launch, Known
<1>1. TypeOK'
  OBVIOUS
<1>2. ReadOK'
  BY DEF ReadOK
<1>3. SnapDated'
  BY DEF SnapDated
<1>4. EnvIsPrinted'
  BY DEF EnvIsPrinted
<1>5. Unspent'
  BY DEF Unspent, Writing
<1>6. OneAgentId'
  BY DEF OneAgentId
<1>7. HashAndDateAgree'
  BY DEF HashAndDateAgree, TokenOf, Unspent, Writing
<1> QED
  BY <1>1, <1>2, <1>3, <1>4, <1>5, <1>6, <1>7

(* Every way a process ends keeps it. *)
LEMMA EndStep ==
  ASSUME IInv, NEW p \in Procs,
         End(p) \/ Refuse(p) \/ PrintToken(p) \/ List(p) \/ Identify(p)
  PROVE  IInv'
<1> USE TokensAssumption DEF IInv, TypeOK, Row, Values, Procs, args, Go
<1> USE DEF End, Refuse, PrintToken, List, Identify, Columns
<1>1. TypeOK'
  BY DEF ReadOK
<1>2. ReadOK'
  BY DEF ReadOK
<1>3. SnapDated'
  BY DEF SnapDated
<1>4. EnvIsPrinted'
  BY DEF EnvIsPrinted
<1>5. Unspent'
  BY DEF Unspent, Writing
<1>6. OneAgentId'
  BY DEF OneAgentId, ReadOK
<1>7. HashAndDateAgree'
  BY DEF HashAndDateAgree, TokenOf
<1> QED
  BY <1>1, <1>2, <1>3, <1>4, <1>5, <1>6, <1>7

(* Reading the row, first or again, keeps it (TokenService._get). *)
LEMMA ReadStep ==
  ASSUME IInv, NEW p \in Procs,
         Read(p) \/ Refresh(p) \/ Reread(p)
  PROVE  IInv'
<1> USE TokensAssumption DEF IInv, TypeOK, Row, Values, Procs, args, Go
<1> USE DEF Read, Refresh, Reread
<1>1. TypeOK'
  OBVIOUS
<1>2. ReadOK'
  BY DEF ReadOK
<1>3. SnapDated'
  BY DEF SnapDated, HashAndDateAgree
<1>4. EnvIsPrinted'
  BY DEF EnvIsPrinted
<1>5. Unspent'
  BY DEF Unspent, Writing
<1>6. OneAgentId'
  BY DEF OneAgentId
<1>7. HashAndDateAgree'
  BY DEF HashAndDateAgree, TokenOf
<1> QED
  BY <1>1, <1>2, <1>3, <1>4, <1>5, <1>6, <1>7

(* The insert of ensure_identity() keeps it, raced or not. *)
LEMMA InsertStep ==
  ASSUME IInv, NEW p \in Procs,
         Insert(p)
  PROVE  IInv'
<1> USE TokensAssumption DEF IInv, TypeOK, Row, Values, Procs, args, Go
<1> USE DEF Insert, Columns
<1>1. TypeOK'
  OBVIOUS
<1>2. ReadOK'
  BY DEF ReadOK
<1>3. SnapDated'
  BY DEF SnapDated
<1>4. EnvIsPrinted'
  BY DEF EnvIsPrinted
<1>5. Unspent'
  BY DEF Unspent, Writing
<1>6. OneAgentId'
  BY DEF OneAgentId
<1>7. HashAndDateAgree'
  BY DEF HashAndDateAgree, TokenOf
<1> QED
  BY <1>1, <1>2, <1>3, <1>4, <1>5, <1>6, <1>7

(* The commit of create_token() keeps it. *)
LEMMA CreateStep ==
  ASSUME IInv, NEW p \in Procs,
         Create(p)
  PROVE  IInv'
<1> USE TokensAssumption DEF IInv, TypeOK, Row, Values, Procs, args, Go
<1> USE DEF Create, Update, Columns
<1>1. TypeOK'
  BY DEF ReadOK
<1>2. ReadOK'
  BY DEF ReadOK
<1>3. SnapDated'
  BY DEF SnapDated
<1>4. EnvIsPrinted'
  BY DEF EnvIsPrinted
<1>5. Unspent'
  BY DEF Unspent, Writing, ReadOK
<1>6. OneAgentId'
  BY DEF OneAgentId, ReadOK
<1>7. HashAndDateAgree'
  BY DEF HashAndDateAgree, TokenOf, ReadOK, Unspent, Writing
<1> QED
  BY <1>1, <1>2, <1>3, <1>4, <1>5, <1>6, <1>7

(* The commit of revoke_token() keeps it. *)
LEMMA RevokeStep ==
  ASSUME IInv, NEW p \in Procs,
         Revoke(p)
  PROVE  IInv'
<1> USE TokensAssumption DEF IInv, TypeOK, Row, Values, Procs, args, Go
<1> USE DEF Revoke, Update, Columns
<1>1. TypeOK'
  BY DEF ReadOK
<1>2. ReadOK'
  BY DEF ReadOK
<1>3. SnapDated'
  BY DEF SnapDated
<1>4. EnvIsPrinted'
  BY DEF EnvIsPrinted
<1>5. Unspent'
  BY DEF Unspent, Writing, ReadOK
<1>6. OneAgentId'
  BY DEF OneAgentId, ReadOK
<1>7. HashAndDateAgree'
  BY DEF HashAndDateAgree, TokenOf, ReadOK, SnapDated
<1> QED
  BY <1>1, <1>2, <1>3, <1>4, <1>5, <1>6, <1>7

(* The commit of reconcile_env_token() keeps it. *)
LEMMA ReconcileStep ==
  ASSUME IInv, NEW p \in Procs,
         Reconcile(p)
  PROVE  IInv'
<1> USE TokensAssumption DEF IInv, TypeOK, Row, Values, Procs, args, Go
<1> USE DEF Reconcile, Update, Columns
<1>1. TypeOK'
  BY DEF ReadOK
<1>2. ReadOK'
  BY DEF ReadOK
<1>3. SnapDated'
  BY DEF SnapDated
<1>4. EnvIsPrinted'
  BY DEF EnvIsPrinted
<1>5. Unspent'
  BY DEF Unspent, Writing, EnvIsPrinted, ReadOK
<1>6. OneAgentId'
  BY DEF OneAgentId, ReadOK
<1>7. HashAndDateAgree'
  BY DEF HashAndDateAgree, TokenOf, ReadOK, Unspent, Writing
<1> QED
  BY <1>1, <1>2, <1>3, <1>4, <1>5, <1>6, <1>7

(* Steps that change nothing keep it. *)
LEMMA StutterStep == ASSUME IInv, UNCHANGED vars PROVE IInv'
<1> USE DEF IInv, vars, args
<1>1. TypeOK' /\ ReadOK' /\ SnapDated'
  BY DEF TypeOK, ReadOK, SnapDated
<1>2. EnvIsPrinted' /\ Unspent'
  BY DEF EnvIsPrinted, Unspent
<1>3. OneAgentId' /\ HashAndDateAgree'
  BY DEF OneAgentId, HashAndDateAgree, TokenOf
<1> QED
  BY <1>1, <1>2, <1>3

(* IInv holds in every behaviour, however the processes overlap. *)
THEOREM Invariance == Spec => []IInv
<1>1. ASSUME IInv, [Next]_vars PROVE IInv'
  <2>1. CASE UNCHANGED vars
    BY <1>1, <2>1, StutterStep
  <2>2. CASE Next
    BY <1>1, <2>2, RunStep, BootStep, EndStep, ReadStep, InsertStep, CreateStep,
       RevokeStep, ReconcileStep
    DEF Next, Command, Agent
  <2> QED
    BY <1>1, <2>1, <2>2
<1> QED
  BY <1>1, InitIInv, PTL DEF Spec

(***************************************************************************)
(* Every variable keeps its type.                                          *)
(***************************************************************************)
THEOREM TypeCorrect == Spec => []TypeOK
<1>1. IInv => TypeOK
  BY DEF IInv
<1> QED
  BY <1>1, Invariance, PTL

(***************************************************************************)
(* Everybody goes by the agent_id in the row, however the first commands   *)
(* and the first boot race (TokenService.ensure_identity).                 *)
(***************************************************************************)
THEOREM AgentIdIsOne == Spec => []OneAgentId
<1>1. IInv => OneAgentId
  BY DEF IInv
<1> QED
  BY <1>1, Invariance, PTL

(***************************************************************************)
(* The hash and its date have one writer, in spite of partial UPDATEs that *)
(* are based on stale reads (TokenService).                                *)
(***************************************************************************)
THEOREM HashIsDated == Spec => []HashAndDateAgree
<1>1. IInv => HashAndDateAgree
  BY DEF IInv
<1> QED
  BY <1>1, Invariance, PTL

(* What the commit of create_token() leaves in the row, however stale p is. *)
LEMMA CreateWrites ==
  ASSUME IInv, NEW p \in Procs, Create(p)
  PROVE  /\ row \in Row /\ row' \in Row
         /\ row'["agent_id"] = row["agent_id"]
         /\ row'["hash"] = p /\ row'["created"] = p
<1>1. row \in Row /\ snap[p] \in Row
  BY DEF IInv, TypeOK, ReadOK, Create
<1>2. row' \in Row
  BY <1>1 DEF IInv, TypeOK, Create, Update, Columns, Row, Values
<1>3. snap[p]["hash"] # p /\ snap[p]["created"] # p
  BY <1>1, TokensAssumption DEF IInv, Unspent, Writing, Create
<1>4. snap[p]["agent_id"] = row["agent_id"]
  BY <1>1, TokensAssumption DEF IInv, ReadOK
<1> QED
  BY <1>1, <1>2, <1>3, <1>4 DEF Create, Update, Columns, Row

(* What the commit of revoke_token() leaves there, if it has read a token. *)
LEMMA RevokeWrites ==
  ASSUME IInv, NEW p \in Procs, Revoke(p), snap[p]["hash"] # None
  PROVE  /\ row \in Row /\ row' \in Row
         /\ row'["agent_id"] = row["agent_id"]
         /\ row'["hash"] = None /\ row'["created"] = None
<1>1. row \in Row /\ snap[p] \in Row
  BY DEF IInv, TypeOK, ReadOK, Revoke
<1>2. row' \in Row
  BY <1>1 DEF IInv, TypeOK, Revoke, Update, Columns, Row, Values
<1>3. snap[p]["created"] # None
  BY <1>1, TokensAssumption DEF IInv, SnapDated
<1>4. snap[p]["agent_id"] = row["agent_id"]
  BY <1>1, TokensAssumption DEF IInv, ReadOK
<1> QED
  BY <1>1, <1>2, <1>3, <1>4 DEF Revoke, Update, Columns, Row

(* And reconcile_env_token(), if it has read that there is no token. *)
LEMMA ReconcileWrites ==
  ASSUME IInv, NEW p \in Procs, Reconcile(p), snap[p]["hash"] = None
  PROVE  /\ row \in Row /\ row' \in Row
         /\ row'["agent_id"] = row["agent_id"]
         /\ row'["hash"] = env[p] /\ row'["created"] = p
<1>1. row \in Row /\ snap[p] \in Row
  BY DEF IInv, TypeOK, ReadOK, Reconcile
<1>2. row' \in Row
  BY <1>1 DEF IInv, TypeOK, Reconcile, Update, Columns, Row, Values
<1>3. env[p] # None /\ snap[p]["created"] # p
  BY <1>1, TokensAssumption DEF IInv, ReadOK, Unspent, Writing, Reconcile
<1>4. snap[p]["agent_id"] = row["agent_id"]
  BY <1>1, TokensAssumption DEF IInv, ReadOK
<1> QED
  BY <1>1, <1>2, <1>3, <1>4 DEF Reconcile, Update, Columns, Row

(***************************************************************************)
(* A create or a revoke that reports success has had its effect, whatever  *)
(* others have committed since it read the row: nobody has seen the token  *)
(* and the time stamp it writes, so the UPDATE never leaves them out       *)
(* (TokenService.create_token, revoke_token).                              *)
(***************************************************************************)
THEOREM CommandsAreObeyed == Spec => CommandsTakeEffect
<1>1. ASSUME IInv, NEW p \in Commands, NEW t \in Procs \cup {Preset}
      PROVE  /\ Create(p) => (Authorized(t)' <=> t = p)
             /\ Revoke(p) /\ snap[p]["hash"] # None => ~Authorized(t)'
  <2>1. p \in Procs
    BY DEF Procs
  <2>2. ASSUME Create(p) PROVE Authorized(t)' <=> t = p
    <3>1. row' # None /\ row'["hash"] = p
      BY <1>1, <2>1, <2>2, CreateWrites, TokensAssumption
    <3>2. t # None /\ p # None
      BY <2>1, TokensAssumption
    <3> QED
      BY <3>1, <3>2 DEF Authorized, Verify
  <2>3. ASSUME Revoke(p), snap[p]["hash"] # None PROVE ~Authorized(t)'
    BY <1>1, <2>1, <2>3, RevokeWrites DEF Authorized, Verify
  <2> QED
    BY <2>2, <2>3
<1>2. IInv => [\A p \in Commands, t \in Procs \cup {Preset} :
                 /\ Create(p) => (Authorized(t)' <=> t = p)
                 /\ Revoke(p) /\ snap[p]["hash"] # None => ~Authorized(t)']_vars
  BY <1>1
<1> QED
  BY <1>2, Invariance, PTL DEF Spec, CommandsTakeEffect

-----------------------------------------------------------------------------
(* The row implements an identity *)

(* An identity that exists has an agent_id (ensure_identity). *)
HasId == row # None => row["agent_id"] # None

(* Every commit is one step of the abstract identity, or changes nothing of it. *)
LEMMA IdentityStep ==
  ASSUME IInv, HasId, NEW p \in Procs,
         Command(p) \/ Agent(p) \/ Read(p) \/ Insert(p) \/ Refresh(p) \/ End(p)
  PROVE  HasId' /\ [Identity!Next]_(Identity!ivars)
<1> USE DEF Column, Identity!Next, Identity!ivars
<1>1. p # None /\ None \notin Row
  BY TokensAssumption
<1>2. CASE UNCHANGED row
  BY <1>2 DEF HasId
<1>3. CASE Insert(p) /\ row = None
  <2>1. row' \in Row /\ row'["agent_id"] = p /\ row'["hash"] = None /\ row'["created"] = None
    BY <1>3 DEF Insert, Row, Columns, Values
  <2>2. row' # None
    BY <1>1, <2>1
  <2> QED
    BY <1>1, <1>3, <2>1, <2>2 DEF HasId, Identity!Found
<1>4. CASE Create(p)
  <2>1. row # None /\ row' # None
    BY <1>1, <1>4, CreateWrites
  <2>2. row["created"] # p
    BY <1>4, <2>1 DEF IInv, Unspent, Writing, Create
  <2> QED
    BY <1>4, <2>1, <2>2, CreateWrites DEF HasId, Identity!Issue
<1>5. CASE Reconcile(p) /\ snap[p]["hash"] = None
  <2>1. row # None /\ row' # None
    BY <1>1, <1>5, ReconcileWrites
  <2>2. row["created"] # p /\ env[p] \in Procs \cup {Preset}
    BY <1>5, <2>1 DEF IInv, TypeOK, Values, ReadOK, Unspent, Writing, Reconcile
  <2> QED
    BY <1>5, <2>1, <2>2, ReconcileWrites DEF HasId, Identity!Issue
<1>6. CASE Revoke(p) /\ snap[p]["hash"] # None
  <2>1. row # None /\ row' # None
    BY <1>1, <1>6, RevokeWrites
  <2>2. row["hash"] = None => row["created"] = None
    BY <2>1 DEF IInv, HashAndDateAgree
  <2> QED
    BY <1>6, <2>1, <2>2, RevokeWrites DEF HasId, Identity!Withdraw
<1> QED
  BY <1>2, <1>3, <1>4, <1>5, <1>6
  DEF Command, Agent, RunCommand, RunAgent, Launch, Refuse, PrintToken, List, Revoke,
      Identify, Reread, Reconcile, Read, Insert, Refresh, End

(***************************************************************************)
(* The processes that share the row implement the identity it stands for:  *)
(* however they overlap, the agent gets one agent_id for ever, and its     *)
(* token and the date come and go in one piece, each writer's only once.   *)
(***************************************************************************)
THEOREM RefinesIdentity == Spec => IdentitySpec
<1>1. Init => HasId /\ Identity!Init
  BY DEF Init, HasId, Column, Identity!Init
<1>2. IInv /\ HasId /\ [Next]_vars => HasId' /\ [Identity!Next]_(Identity!ivars)
  <2>1. ASSUME HasId, UNCHANGED vars PROVE HasId' /\ UNCHANGED Identity!ivars
    BY <2>1 DEF vars, HasId, Column, Identity!ivars
  <2> QED
    BY <2>1, IdentityStep DEF Next
<1> QED
  BY <1>1, <1>2, Invariance, PTL DEF Spec, IdentitySpec, Identity!Spec

Promise == INSTANCE AgentIdentityProofs
             WITH Writers <- Procs, Secrets <- Procs \cup {Preset},
                  id <- Column("agent_id"), token <- Column("hash"),
                  since <- Column("created")

(***************************************************************************)
(* So the row keeps what the abstract identity promises: the agent_id,     *)
(* once there is one, is never replaced or lost, and no reader sees a hash *)
(* without its date or a date without its hash (TokenService).             *)
(***************************************************************************)
THEOREM IdentityIsKept ==
  Spec => /\ [][Column("agent_id") # None => Column("agent_id")' = Column("agent_id")]_(Identity!ivars)
          /\ [](Column("hash") = None <=> Column("created") = None)
<1>1. Spec => Promise!Spec
  BY RefinesIdentity
  DEF IdentitySpec, Identity!Spec, Identity!Init, Identity!Next, Identity!ivars, Identity!Found,
      Identity!Issue, Identity!Withdraw, Promise!Spec, Promise!Init, Promise!Next,
      Promise!ivars, Promise!Found, Promise!Issue, Promise!Withdraw
<1>2. None \notin Procs \cup (Procs \cup {Preset})
  BY TokensAssumption
<1>3. Promise!Spec => []Promise!OnePiece
  BY <1>2, Promise!TokenIsWhole
<1>4. Promise!OnePiece => (Column("hash") = None <=> Column("created") = None)
  BY DEF Promise!OnePiece
<1>5. Promise!Spec => [][Column("agent_id") # None => Column("agent_id")' = Column("agent_id")]_(Identity!ivars)
  BY Promise!IdIsForEver DEF Promise!IdStays, Promise!ivars, Identity!ivars
<1> QED
  BY <1>1, <1>3, <1>4, <1>5, PTL

-----------------------------------------------------------------------------
(* Processes that have not overlapped *)

(***************************************************************************)
(* As long as no two processes have been at work together, what one has    *)
(* read is what is there when it commits.                                  *)
(***************************************************************************)
Serial ==
  ~overlapped =>
    /\ \A p, q \in AtWork : p = q
    /\ \A p \in Procs : pc[p] \in {"loaded", "reconcile"} => snap[p] = row
    /\ \A p \in Procs : p \in Agents \/ cmd[p] = "run" => label[p] = None

(* Then what a process has read stays what is in the row until it commits. *)
LEMMA SerialStep ==
  ASSUME IInv, Serial, Next
  PROVE  Serial'
<1> USE TokensAssumption DEF IInv, TypeOK, Procs, args, Go, Serial, AtWork
<1>1. ASSUME NEW p \in Procs, NEW c \in {"create", "force", "list", "revoke"},
         NEW l \in {p, None},
         RunCommand(p, c, l)
      PROVE  Serial'
  BY <1>1 DEF RunCommand, Launch
<1>2. ASSUME NEW p \in Procs, NEW t \in Known \cup {None},
         RunAgent(p, t)
      PROVE  Serial'
  BY <1>2 DEF RunAgent, Launch, Known
<1>3. ASSUME NEW p \in Procs,
         End(p) \/ Refuse(p) \/ PrintToken(p) \/ List(p) \/ Identify(p)
      PROVE  Serial'
  BY <1>3 DEF End, Refuse, PrintToken, List, Identify, Columns
<1>4. ASSUME NEW p \in Procs,
         Read(p) \/ Refresh(p) \/ Reread(p)
      PROVE  Serial'
  BY <1>4 DEF Read, Refresh, Reread
<1>5. ASSUME NEW p \in Procs,
         Insert(p)
      PROVE  Serial'
  BY <1>5 DEF Insert, Columns
<1>6. ASSUME NEW p \in Procs,
         Create(p)
      PROVE  Serial'
  BY <1>6 DEF Create, Update, Columns
<1>7. ASSUME NEW p \in Procs,
         Revoke(p)
      PROVE  Serial'
  BY <1>7 DEF Revoke, Update, Columns
<1>8. ASSUME NEW p \in Procs,
         Reconcile(p)
      PROVE  Serial'
  BY <1>8 DEF Reconcile, Update, Columns
<1> QED
  BY <1>1, <1>2, <1>3, <1>4, <1>5, <1>6, <1>7, <1>8 DEF Next, Command, Agent

(* And every commit leaves the label with the token it was given for. *)
LEMMA LabelStep ==
  ASSUME IInv, Serial, LabelAgrees, Next
  PROVE  LabelAgrees'
<1> USE TokensAssumption DEF IInv, TypeOK, Procs, args, Serial, LabelAgrees
<1>1. ASSUME NEW p \in Procs, NEW c \in {"create", "force", "list", "revoke"},
         NEW l \in {p, None},
         RunCommand(p, c, l)
      PROVE  LabelAgrees'
  BY <1>1 DEF RunCommand, Launch, Unspent, Writing, HashAndDateAgree
<1>2. ASSUME NEW p \in Procs, NEW t \in Known \cup {None},
         RunAgent(p, t)
      PROVE  LabelAgrees'
  BY <1>2 DEF RunAgent, Launch, Known
<1>3. ASSUME NEW p \in Procs,
         End(p) \/ Refuse(p) \/ PrintToken(p) \/ List(p) \/ Identify(p)
      PROVE  LabelAgrees'
  BY <1>3 DEF End, Refuse, PrintToken, List, Identify, Columns
<1>4. ASSUME NEW p \in Procs,
         Read(p) \/ Refresh(p) \/ Reread(p)
      PROVE  LabelAgrees'
  BY <1>4 DEF Read, Refresh, Reread
<1>5. ASSUME NEW p \in Procs,
         Insert(p)
      PROVE  LabelAgrees'
  BY <1>5 DEF Insert, Columns, Row, Values, HashAndDateAgree, Unspent,
              Writing, ReadOK, TokenOf
<1>6. ASSUME NEW p \in Procs,
         Create(p)
      PROVE  LabelAgrees'
  BY <1>6 DEF Create, Update, Columns, Row, Values, HashAndDateAgree, Unspent,
              Writing, ReadOK, TokenOf
<1>7. ASSUME NEW p \in Procs,
         Revoke(p)
      PROVE  LabelAgrees'
  BY <1>7 DEF Revoke, Update, Columns, Row, Values, HashAndDateAgree, Unspent,
              Writing, ReadOK, TokenOf
<1>8. ASSUME NEW p \in Procs,
         Reconcile(p)
      PROVE  LabelAgrees'
  BY <1>8 DEF Reconcile, Update, Columns, Row, Values, HashAndDateAgree, Unspent,
              Writing, ReadOK, TokenOf
<1> QED
  BY <1>1, <1>2, <1>3, <1>4, <1>5, <1>6, <1>7, <1>8 DEF Next, Command, Agent

(* Every behaviour keeps Serial and LabelAgrees, which speak of no overlap. *)
THEOREM SerialInvariance == Spec => [](IInv /\ Serial /\ LabelAgrees)
<1>1. Init => Serial /\ LabelAgrees
  BY TokensAssumption DEF Init, Serial, AtWork, LabelAgrees, Procs
<1>2. IInv /\ Serial /\ LabelAgrees /\ [Next]_vars => (Serial /\ LabelAgrees)'
  <2>1. ASSUME Serial, LabelAgrees, UNCHANGED vars PROVE (Serial /\ LabelAgrees)'
    BY <2>1 DEF vars, args, Serial, AtWork, LabelAgrees
  <2> QED
    BY <2>1, SerialStep, LabelStep
<1> QED
  BY <1>1, <1>2, Invariance, PTL DEF Spec

(***************************************************************************)
(* Processes that have not overlapped keep the label with its token.       *)
(***************************************************************************)
THEOREM LabelIsTheTokens == Spec => []LabelAgrees
  BY SerialInvariance, PTL

(***************************************************************************)
(* Before any overlap, only create --force and revoke end the life of an   *)
(* active token (TokenService.create_token, reconcile_env_token).          *)
(***************************************************************************)
THEOREM ForceIsNeeded == Spec => AloneOnlyForceReplaces
<1>1. ASSUME IInv, Serial
      PROVE  [~overlapped => \A p \in Procs : ~ReplacesUnforced(p)]_vars
  BY <1>1 DEF IInv, Serial, ReplacesUnforced, Create, Reconcile
<1> QED
  BY <1>1, SerialInvariance, PTL DEF Spec, AloneOnlyForceReplaces

(***************************************************************************)
(* Before any overlap, an agent that comes up with AGENT__TOKEN set lets   *)
(* that token in (_bootstrap_identity, require_token).                     *)
(***************************************************************************)
THEOREM BootsMatching == Spec => BootsWithItsToken
<1>1. ASSUME IInv, Serial, [Next]_vars
      PROVE  [\A p \in Agents :
                pc'[p] = "running" /\ pc[p] # "running" /\ env[p] # None /\ ~overlapped
                  => Authorized(env[p])']_vars
  <2> SUFFICES ASSUME Next, NEW a \in Agents, ~overlapped,
                      pc'[a] = "running", pc[a] # "running", env[a] # None
               PROVE  Authorized(env[a])'
    BY <1>1
  <2>1. Reconcile(a)
    BY <1>1, TokensAssumption
    DEF IInv, TypeOK, Procs, args, Go, Next, Command, Agent, RunCommand, RunAgent, Launch,
        Refuse, Create, PrintToken, List, Revoke, Identify, Reread, Reconcile, Read, Insert,
        Refresh, End
  <2>2. snap[a] = row /\ row \in Row /\ a \in Procs /\ env[a] \in Values
    BY <1>1, <2>1 DEF IInv, TypeOK, Serial, Reconcile, Procs, ReadOK
  <2>3. row'["hash"] = env[a] /\ row' \in Row
    BY <2>1, <2>2, <1>1 DEF IInv, TypeOK, Reconcile, Update, Columns, Row, Values, Go
  <2>4. env' = env
    BY <2>1 DEF Reconcile, args
  <2> QED
    BY <2>3, <2>4, TokensAssumption DEF Authorized, Verify
<1> QED
  BY <1>1, SerialInvariance, PTL DEF Spec, BootsWithItsToken
===============================================================================
