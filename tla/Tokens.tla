-------------------------------- MODULE Tokens --------------------------------
(***************************************************************************)
(* TokenService (services/tokens.py) as its processes run it: the CLI      *)
(* commands token create, create --force, list and revoke (cli.py), and    *)
(* the bootstrap of the agent (main.py: _bootstrap_identity).  All work on *)
(* one row of one SQLite file, each in a session of its own.               *)
(*                                                                         *)
(* A SELECT of the session takes no lock, so what a process has read may   *)
(* be stale when it commits.  Its UPDATE writes the columns whose value    *)
(* differs from the one it has read, and no others.                        *)
(*                                                                         *)
(* Every process has a name of its own; the uuid, the token and the time   *)
(* stamp it creates, and the label it is given, go by that name.           *)
(*                                                                         *)
(* Nothing keeps two of them from overlapping.  What they promise only if  *)
(* they do not is stated for behaviours in which they never did.           *)
(***************************************************************************)
EXTENDS FiniteSets, Naturals

CONSTANTS
  Commands,     \* processes that run a CLI command
  Agents,       \* processes that run the agent, one after the other
  Preset,       \* a token that AGENT__TOKEN may hold and no command issued
  None,         \* SQL NULL, and "no row"
  MaxAtWork     \* how many processes may be inside a command at one time

Procs == Commands \cup Agents

Columns == {"agent_id", "hash", "label", "created"}
Values == Procs \cup {Preset, None}
Row == [Columns -> Values]

ASSUME TokensAssumption ==
  /\ Commands \cap Agents = {} /\ IsFiniteSet(Procs)
  /\ {Preset, None} \cap Procs = {} /\ Preset # None
  /\ None \notin Row
  /\ MaxAtWork \in Nat

VARIABLES
  row,      \* the row of agent_identity, None before the first INSERT
  pc,       \* where each process is
  cmd,      \* what it runs
  label,    \* --label of a create, None if not given
  env,      \* AGENT__TOKEN of an agent, None if not set
  snap,     \* the row as the process has last read it
  agentId,  \* the agent_id the process goes by: printed, or runtime.agent_id
  overlapped  \* history: a process was started while another was at work

args == <<cmd, label, env, overlapped>>
vars == <<row, pc, args, snap, agentId>>

AtWork == {p \in Procs : pc[p] \in {"read", "insert", "refresh", "loaded",
                                    "reread", "reconcile", "committed"}}

TypeOK ==
  /\ row \in Row \cup {None}
  /\ pc \in [Procs -> {"idle", "read", "insert", "refresh", "loaded", "reread",
                       "reconcile", "committed", "running", "done"}]
  /\ cmd \in [Procs -> {"create", "force", "list", "revoke", "run", "none"}]
  /\ label \in [Procs -> Values]
  /\ env \in [Procs -> Values]
  /\ snap \in [Procs -> Row \cup {None}]
  /\ agentId \in [Procs -> Values]
  /\ overlapped \in BOOLEAN

Init ==
  /\ row = None
  /\ pc = [p \in Procs |-> "idle"]
  /\ cmd = [p \in Procs |-> "none"]
  /\ label = [p \in Procs |-> None]
  /\ env = [p \in Procs |-> None]
  /\ snap = [p \in Procs |-> None]
  /\ agentId = [p \in Procs |-> None]
  /\ overlapped = FALSE

-----------------------------------------------------------------------------
(* Starting a process *)

Go(p, step) == pc' = [pc EXCEPT ![p] = step]

(* The tokens the operator may have put into AGENT__TOKEN by now. *)
Known ==
  {Preset} \cup {p \in Commands : cmd[p] \in {"create", "force"} /\ agentId[p] # None}

Launch(p, c) ==
  /\ pc[p] = "idle"
  /\ Cardinality(AtWork) < MaxAtWork
  /\ Go(p, "read")
  /\ cmd' = [cmd EXCEPT ![p] = c]
  /\ overlapped' = (overlapped \/ AtWork # {})

RunCommand(p, c, l) ==
  /\ p \in Commands
  /\ l # None => c \in {"create", "force"}
  /\ Launch(p, c)
  /\ label' = [label EXCEPT ![p] = l]
  /\ UNCHANGED <<row, env, snap, agentId>>

RunAgent(p, t) ==
  /\ p \in Agents
  /\ \A q \in Agents : pc[q] \in {"idle", "done"}
  /\ Launch(p, "run")
  /\ env' = [env EXCEPT ![p] = t]
  /\ UNCHANGED <<row, label, snap, agentId>>

(* An exception, a failed commit or a kill: the process ends where it is. *)
End(p) ==
  /\ pc[p] \notin {"idle", "done"}
  /\ Go(p, "done")
  /\ UNCHANGED <<row, args, snap, agentId>>

-----------------------------------------------------------------------------
(* ensure_identity() and _get_identity() *)

(***************************************************************************)
(* revoke_token() ends when there is no row; the others create one.        *)
(***************************************************************************)
Read(p) ==
  /\ pc[p] = "read"
  /\ snap' = [snap EXCEPT ![p] = row]
  /\ Go(p, IF row # None THEN "loaded"
           ELSE IF cmd[p] = "revoke" THEN "done" ELSE "insert")
  /\ UNCHANGED <<row, args, agentId>>

(* Mutant: the identity is written over one that another process wrote. *)
InsertOrReplace(p) ==
  /\ pc[p] = "insert"
  /\ row' = [c \in Columns |-> IF c = "agent_id" THEN p ELSE None]
  /\ Go(p, "refresh")
  /\ UNCHANGED <<args, snap, agentId>>

(***************************************************************************)
(* The INSERT fails with IntegrityError if another process has inserted    *)
(* the row since; nobody catches it.                                       *)
(***************************************************************************)
Insert(p) ==
  /\ pc[p] = "insert"
  /\ IF row = None
     THEN /\ row' = [c \in Columns |-> IF c = "agent_id" THEN p ELSE None]
          /\ Go(p, "refresh")
     ELSE /\ Go(p, "done")
          /\ UNCHANGED row
  /\ UNCHANGED <<args, snap, agentId>>

Refresh(p) ==
  /\ pc[p] = "refresh"
  /\ snap' = [snap EXCEPT ![p] = row]
  /\ Go(p, "loaded")
  /\ UNCHANGED <<row, args, agentId>>

(* The UPDATE of a flush: only what the process has changed. *)
Update(p, new) ==
  row' = [c \in Columns |-> IF new[c] # snap[p][c] THEN new[c] ELSE row[c]]

-----------------------------------------------------------------------------
(* create_token(), revoke_token() and the commands around them *)

Refuse(p) ==
  /\ pc[p] = "loaded" /\ cmd[p] = "create"
  /\ snap[p]["hash"] # None
  /\ Go(p, "done")
  /\ UNCHANGED <<row, args, snap, agentId>>

(* Mutant: an active token does not stop a plain create. *)
CreateAlways(p) ==
  /\ pc[p] = "loaded" /\ cmd[p] \in {"create", "force"}
  /\ Update(p, [snap[p] EXCEPT !["hash"] = p, !["label"] = label[p], !["created"] = p])
  /\ Go(p, "committed")
  /\ UNCHANGED <<args, snap, agentId>>

(* Mutant: a create whose row has changed since it was read writes nothing. *)
CreateIfUnchanged(p) ==
  /\ pc[p] = "loaded" /\ cmd[p] \in {"create", "force"}
  /\ snap[p]["hash"] = None \/ cmd[p] = "force"
  /\ IF row = snap[p]
     THEN Update(p, [snap[p] EXCEPT !["hash"] = p, !["label"] = label[p], !["created"] = p])
     ELSE UNCHANGED row
  /\ Go(p, "committed")
  /\ UNCHANGED <<args, snap, agentId>>

Create(p) ==
  /\ pc[p] = "loaded" /\ cmd[p] \in {"create", "force"}
  /\ snap[p]["hash"] = None \/ cmd[p] = "force"
  /\ Update(p, [snap[p] EXCEPT !["hash"] = p, !["label"] = label[p], !["created"] = p])
  /\ Go(p, "committed")
  /\ UNCHANGED <<args, snap, agentId>>

(* Mutant: the identity is returned where its agent_id is meant. *)
PrintIdentity(p) ==
  /\ pc[p] = "committed"
  /\ agentId' = [agentId EXCEPT ![p] = row]
  /\ Go(p, "done")
  /\ UNCHANGED <<row, args, snap>>

(* get_agent_id(), then the agent_id and the token are printed, once. *)
PrintToken(p) ==
  /\ pc[p] = "committed"
  /\ agentId' = [agentId EXCEPT ![p] = row["agent_id"]]
  /\ Go(p, "done")
  /\ UNCHANGED <<row, args, snap>>

List(p) ==
  /\ pc[p] = "loaded" /\ cmd[p] = "list"
  /\ agentId' = [agentId EXCEPT ![p] = snap[p]["agent_id"]]
  /\ Go(p, "done")
  /\ UNCHANGED <<row, args, snap>>

(* Mutant: revoking keeps the label. *)
RevokeKeepsLabel(p) ==
  /\ pc[p] = "loaded" /\ cmd[p] = "revoke"
  /\ IF snap[p]["hash"] = None
     THEN UNCHANGED row
     ELSE Update(p, [snap[p] EXCEPT !["hash"] = None, !["created"] = None])
  /\ Go(p, "done")
  /\ UNCHANGED <<args, snap, agentId>>

Revoke(p) ==
  /\ pc[p] = "loaded" /\ cmd[p] = "revoke"
  /\ IF snap[p]["hash"] = None
     THEN UNCHANGED row
     ELSE Update(p, [snap[p] EXCEPT !["hash"] = None, !["label"] = None,
                                    !["created"] = None])
  /\ Go(p, "done")
  /\ UNCHANGED <<args, snap, agentId>>

-----------------------------------------------------------------------------
(* _bootstrap_identity() and reconcile_env_token() *)

Identify(p) ==
  /\ pc[p] = "loaded" /\ cmd[p] = "run"
  /\ agentId' = [agentId EXCEPT ![p] = snap[p]["agent_id"]]
  /\ Go(p, IF env[p] = None THEN "running" ELSE "reread")
  /\ UNCHANGED <<row, args, snap>>

Reread(p) ==
  /\ pc[p] = "reread"
  /\ snap' = [snap EXCEPT ![p] = row]
  /\ Go(p, "reconcile")
  /\ UNCHANGED <<row, args, agentId>>

(* Mutant: the token from the environment is saved without a date. *)
ReconcileUndated(p) ==
  /\ pc[p] = "reconcile"
  /\ IF snap[p]["hash"] = None
     THEN Update(p, [snap[p] EXCEPT !["hash"] = env[p]])
     ELSE UNCHANGED row
  /\ Go(p, IF snap[p]["hash"] \in {None, env[p]} THEN "running" ELSE "done")
  /\ UNCHANGED <<args, snap, agentId>>

(* Mutant: a token that does not match does not stop the agent. *)
ReconcileTolerant(p) ==
  /\ pc[p] = "reconcile"
  /\ IF snap[p]["hash"] = None
     THEN Update(p, [snap[p] EXCEPT !["hash"] = env[p], !["created"] = p])
     ELSE UNCHANGED row
  /\ Go(p, "running")
  /\ UNCHANGED <<args, snap, agentId>>

(***************************************************************************)
(* Save the token if there is none; otherwise it must match, or the agent  *)
(* does not start (TokenMismatchError).                                    *)
(***************************************************************************)
Reconcile(p) ==
  /\ pc[p] = "reconcile"
  /\ IF snap[p]["hash"] = None
     THEN Update(p, [snap[p] EXCEPT !["hash"] = env[p], !["created"] = p])
     ELSE UNCHANGED row
  /\ Go(p, IF snap[p]["hash"] \in {None, env[p]} THEN "running" ELSE "done")
  /\ UNCHANGED <<args, snap, agentId>>

-----------------------------------------------------------------------------
(* The requests of the server *)

(* verify_token(): there is a token, and its hash is that of t. *)
Verify(t) == row # None /\ row["hash"] # None /\ row["hash"] = t

(* require_token(): POST /health and POST /usage are answered to t. *)
Authorized(t) == t # None /\ Verify(t)

-----------------------------------------------------------------------------

Command(p) ==
  \/ \E c \in {"create", "force", "list", "revoke"}, l \in {p, None} : RunCommand(p, c, l)
  \/ Refuse(p) \/ Create(p) \/ PrintToken(p) \/ List(p) \/ Revoke(p)

Agent(p) ==
  \/ \E t \in Known \cup {None} : RunAgent(p, t)
  \/ Identify(p) \/ Reread(p) \/ Reconcile(p)

Next ==
  \E p \in Procs : Command(p) \/ Agent(p) \/ Read(p) \/ Insert(p) \/ Refresh(p) \/ End(p)

Spec == Init /\ [][Next]_vars

-----------------------------------------------------------------------------
(* Properties *)

(* The token a process writes: create_token() or reconcile_env_token(). *)
TokenOf(p) == IF cmd[p] = "run" THEN env[p] ELSE p

(***************************************************************************)
(* However the first commands race with the first boot, everybody goes by  *)
(* one agent_id: the one in the row (TokenService.ensure_identity).        *)
(***************************************************************************)
OneAgentId ==
  \A p \in Procs : agentId[p] # None => row # None /\ agentId[p] = row["agent_id"]

(***************************************************************************)
(* The hash and its date are always one writer's, although every UPDATE    *)
(* writes only the columns it has changed and may be based on a stale row  *)
(* (create_token, revoke_token, reconcile_env_token).                      *)
(***************************************************************************)
HashAndDateAgree ==
  row # None =>
    IF row["created"] = None THEN row["hash"] = None
    ELSE /\ row["created"] \in Procs
         /\ row["hash"] = TokenOf(row["created"]) /\ row["hash"] # None

(***************************************************************************)
(* A command that reports success has had its effect, however stale what   *)
(* it has read: after a create its token is let in and no other, and after *)
(* a revoke none is (TokenService.create_token, revoke_token).             *)
(***************************************************************************)
CommandsTakeEffect ==
  [][\A p \in Commands, t \in Procs \cup {Preset} :
       /\ Create(p) => (Authorized(t)' <=> t = p)
       /\ Revoke(p) /\ snap[p]["hash"] # None => ~Authorized(t)']_vars

(***************************************************************************)
(* The same for the label.  A create without a label leaves the column     *)
(* alone if it has read NULL there, so this needs processes that have not  *)
(* overlapped.                                                             *)
(***************************************************************************)
LabelAgrees ==
  ~overlapped /\ row # None =>
    row["label"] = IF row["created"] = None THEN None ELSE label[row["created"]]

(* p is about to end the life of an active token without leave to do so. *)
ReplacesUnforced(p) ==
  /\ (Create(p) /\ cmd[p] = "create") \/ Reconcile(p)
  /\ row["hash"] \notin {None, row'["hash"]}

(***************************************************************************)
(* Only create --force and revoke end the life of an active token: a plain *)
(* create is refused, and AGENT__TOKEN is saved only if there is none      *)
(* (cli.py, TokenService.create_token, reconcile_env_token).               *)
(***************************************************************************)
OnlyForceReplaces == [][\A p \in Procs : ~ReplacesUnforced(p)]_vars

(***************************************************************************)
(* The same, as long as no two processes have overlapped.                  *)
(***************************************************************************)
AloneOnlyForceReplaces ==
  [][~overlapped => \A p \in Procs : ~ReplacesUnforced(p)]_vars

(***************************************************************************)
(* Before any overlap, an agent that comes up with AGENT__TOKEN set comes  *)
(* up with that token active: a server that the agent reports to with it   *)
(* is let in with it by require_token() (_bootstrap_identity).             *)
(***************************************************************************)
BootsWithItsToken ==
  [][\A p \in Agents :
       pc'[p] = "running" /\ pc[p] # "running" /\ env[p] # None /\ ~overlapped
         => Authorized(env[p])']_vars

Column(c) == IF row = None THEN None ELSE row[c]

(***************************************************************************)
(* However the processes overlap, whoever reads id, hash and date sees an  *)
(* identity that is founded once and whose token is issued and withdrawn   *)
(* in one piece.                                                           *)
(***************************************************************************)
Identity == INSTANCE AgentIdentity
              WITH Writers <- Procs, Secrets <- Procs \cup {Preset},
                   id <- Column("agent_id"), token <- Column("hash"),
                   since <- Column("created")

IdentitySpec == Identity!Spec
=============================================================================
