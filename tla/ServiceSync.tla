----------------------------- MODULE ServiceSync -----------------------------
(***************************************************************************)
(* `invoke <service>.sync` of libs/deploy/deployer.py for one service in   *)
(* one environment, beside `invoke vault.setup-approle` of                 *)
(* bootstrap/05.vault, which writes and deploys the same compose from a    *)
(* process of its own.  The runner's deployment lock lets one sync run at  *)
(* a time; nothing orders it with setup-approle.                           *)
(*                                                                         *)
(* A call of the Dokploy API is one step, so a read of the env and the     *)
(* write that is computed from it are two.  A version stands for both      *)
(* fingerprints of a service's config, equal exactly when the configs are. *)
(***************************************************************************)
EXTENDS Dokploy

CONSTANTS
  UsesAppRole,   \* the compose file mentions VAULT_ROLE_ID or VAULT_SECRET_ID
  HasDomain      \* the service declares subdomain and service_port

ASSUME ServiceSyncAssumption == UsesAppRole \in BOOLEAN /\ HasDomain \in BOOLEAN

VARIABLES
  pc,        \* where the sync is
  want,      \* local_hash, the version it syncs to
  force,     \* --force
  env,       \* effective_env, the env it is about to write and has checked
  known,     \* before_ids: the records there were before its trigger
  retried,   \* it has fallen back to compose.redeploy
  answer,    \* "action" of the last sync
  vpc,       \* where setup-approle is
  venv       \* the merged env it is about to write

sync    == <<pc, want, force, env, known, retried, answer>>
approle == <<vpc, venv>>
vars    == <<dokploy, sync, approle>>

Answers == {"none", "unchanged", "unreadable", "deployed", "failed"}

(* No sync and no setup-approle runs.                                      *)
Idle ==
  /\ pc = "idle"
  /\ want = None
  /\ force = FALSE
  /\ env = NoEnv
  /\ known = 0
  /\ retried = FALSE
  /\ answer = "none"
  /\ vpc = "idle"
  /\ venv = NoEnv

Init == DokployInit /\ Idle

-----------------------------------------------------------------------------
(* The checkout has version v of the service.                              *)
Start(v, f) ==
  /\ pc = "idle"
  /\ pc' = "compare"
  /\ want' = v
  /\ force' = f
  /\ env' = NoEnv
  /\ known' = 0
  /\ retried' = FALSE
  /\ answer' = "none"
  /\ UNCHANGED <<dokploy, approle>>

(* The sync ends with an action.                                           *)
End(a) ==
  /\ pc' = "idle"
  /\ force' = FALSE
  /\ env' = NoEnv
  /\ retried' = FALSE
  /\ answer' = a

Answer(a) == End(a) /\ UNCHANGED <<dokploy, want, known, approle>>

(* An exception or a failed check on the way, and the time limit of the    *)
(* runner, which kills the task.  What was written stays written.          *)
Fail == pc # "idle" /\ Answer("failed")

(* get_remote_config_identity raises: fail closed, unless forced.          *)
Unreadable == pc = "compare" /\ ~force /\ Answer("unreadable")

(* The fingerprints and the identity in the env are those of the checkout. *)
Unchanged(v) == RowEnv.hash = v

Skip == pc = "compare" /\ ~force /\ Unchanged(want) /\ Answer("unchanged")

Proceed ==
  /\ pc = "compare"
  /\ force \/ ~Unchanged(want)
  /\ pc' = "read"
  /\ UNCHANGED <<dokploy, want, force, env, known, retried, answer, approle>>

(* _preserve_runtime_env: the desired env, with the credentials that the   *)
(* existing one has.  A tag that a promotion wrote is not preserved.       *)
PreservedUnhashed(existing) == [image |-> None, creds |-> existing.creds]

Preserved(existing) == [hash |-> want, image |-> None, creds |-> existing.creds]

(* composing() looks the compose up.                                       *)
ReadEnv ==
  /\ pc = "read"
  /\ env' = Preserved(RowEnv)
  /\ pc' = IF row = NoRow THEN "create" ELSE "write"
  /\ UNCHANGED <<dokploy, want, force, known, retried, answer, approle>>

(* compose.create does not persist the source and the env.                 *)
Create ==
  /\ pc = "create"
  /\ row' = [source |-> None, env |-> NoEnv, routed |-> FALSE]
  /\ pc' = "write"
  /\ UNCHANGED <<queue, records, running, want, force, env, known, retried,
                 answer, approle>>

(* _assert_approle_creds_present, on the env that has been written.        *)
CredsOkUnlessNew(e) == UsesAppRole /\ row.env.hash # None => e.creds

CredsOk(e) == UsesAppRole => e.creds

Write ==
  /\ pc = "write"
  /\ row' = [row EXCEPT !.source = want, !.env = env]
  /\ IF CredsOk(env)
     THEN pc' = "snapshot" /\ UNCHANGED <<force, env, retried, answer>>
     ELSE End("failed")
  /\ UNCHANGED <<queue, records, running, want, known, approle>>

Snapshot ==
  /\ pc = "snapshot"
  /\ known' = Len(records)
  /\ pc' = "trigger"
  /\ UNCHANGED <<dokploy, want, force, env, retried, answer, approle>>

Trigger ==
  /\ pc = "trigger"
  /\ Enqueue
  /\ pc' = "await"
  /\ UNCHANGED <<row, records, running, want, force, env, known, retried, answer,
                 approle>>

EveryRecord == DOMAIN records

(* _wait_for_new_deployment_record: a record that was not there before.    *)
NewRecords == known + 1 .. Len(records)

(* The record need not be done.  A domain that has just been created       *)
(* takes a second deployment.                                              *)
Recorded ==
  /\ pc = "await"
  /\ \E i \in NewRecords : records[i].status # "error"
  /\ IF HasDomain /\ ~row.routed
     THEN \/ pc' = "snapshot" /\ retried' = FALSE /\ row' = [row EXCEPT !.routed = TRUE]
          \/ pc' = "verify" /\ UNCHANGED <<row, retried>>
     ELSE pc' = "verify" /\ UNCHANGED <<row, retried>>
  /\ UNCHANGED <<queue, records, running, want, force, env, known, answer, approle>>

RecordError ==
  /\ pc = "await"
  /\ \E i \in NewRecords : records[i].status = "error"
  /\ Answer("failed")

(* No record within the limit: compose.redeploy, once.                     *)
NoRecord ==
  /\ pc = "await"
  /\ NewRecords = {}
  /\ ~retried
  /\ retried' = TRUE
  /\ pc' = "snapshot"
  /\ UNCHANGED <<dokploy, want, force, env, known, answer, approle>>

(* _await_effective_config_hash, then the identity in the effective env.   *)
VerifyHash ==
  /\ pc = "verify"
  /\ RowEnv.hash = want
  /\ pc' = "identity"
  /\ UNCHANGED <<dokploy, want, force, env, known, retried, answer, approle>>

VerifyIdentity == pc = "identity" /\ RowEnv.hash = want /\ Answer("deployed")

-----------------------------------------------------------------------------
(* _redeploy_with_vault_creds: update_compose_env merges the credentials   *)
(* into the env it read, then deploys, and redeploys once when no good     *)
(* record appears.                                                         *)
RotateRead ==
  /\ vpc = "idle"
  /\ row # NoRow
  /\ venv' = [RowEnv EXCEPT !.creds = TRUE]
  /\ vpc' = "write"
  /\ UNCHANGED <<dokploy, sync>>

RotateWrite ==
  /\ vpc = "write"
  /\ row' = [row EXCEPT !.env = venv]
  /\ vpc' = "deploy"
  /\ venv' = NoEnv
  /\ UNCHANGED <<queue, records, running, sync>>

RotateDeploy ==
  /\ vpc \in {"deploy", "redeploy"}
  /\ Enqueue
  /\ vpc' = IF vpc = "deploy" THEN "await" ELSE "idle"
  /\ UNCHANGED <<row, records, running, venv, sync>>

RotateAwait ==
  /\ vpc = "await"
  /\ vpc' \in {"idle", "redeploy"}
  /\ UNCHANGED <<dokploy, venv, sync>>

RotateFails ==
  /\ vpc # "idle"
  /\ vpc' = "idle"
  /\ venv' = NoEnv
  /\ UNCHANGED <<dokploy, sync>>

Sync ==
  \/ \E v \in Versions, f \in BOOLEAN : Start(v, f)
  \/ Fail \/ Unreadable \/ Skip \/ Proceed
  \/ ReadEnv \/ Create \/ Write
  \/ Snapshot \/ Trigger \/ Recorded \/ RecordError \/ NoRecord
  \/ VerifyHash \/ VerifyIdentity

SetupAppRole == RotateRead \/ RotateWrite \/ RotateDeploy \/ RotateAwait \/ RotateFails

Next ==
  \/ Sync
  \/ SetupAppRole
  \/ Worker /\ UNCHANGED <<sync, approle>>

Spec == Init /\ [][Next]_vars

-----------------------------------------------------------------------------
(* The values the state takes.                                             *)
TypeOK ==
  /\ DokployTypeOK
  /\ pc \in {"idle", "compare", "read", "create", "write", "snapshot", "trigger",
             "await", "verify", "identity"}
  /\ want \in Versions \cup {None}
  /\ force \in BOOLEAN
  /\ env \in Env
  /\ known \in Nat
  /\ retried \in BOOLEAN
  /\ answer \in Answers
  /\ vpc \in {"idle", "write", "deploy", "await", "redeploy"}
  /\ venv \in Env

(* A sync that answers "updated" or "created" has seen a deployment start  *)
(* from the config it reports: the record it took for its own, even one    *)
(* that setup-approle caused, read the row after the sync had written it   *)
(* and before anybody replaced its env.                                    *)
DeployedMeansBegun ==
  answer = "deployed" =>
    \E i \in NewRecords : /\ records[i].ran.source = want
                          /\ records[i].ran.env.hash = want

(* A sync never has a service deployed that would crash-loop for want of   *)
(* its AppRole credentials, whenever setup-approle comes in between.       *)
SyncShipsCredentials ==
  UsesAppRole /\ pc \in {"snapshot", "trigger"} => row.env.creds

(* bootstrap.iac_runner.md, section 3.3: IAC_CONFIG_HASH is written after  *)
(* the deployment, so that a matching hash means there is nothing to       *)
(* deploy.  When Dokploy has nothing left to do, a sync that answers       *)
(* "config unchanged" leaves the service running that config.              *)
UnchangedMeansRunning ==
  pc = "idle" /\ answer = "unchanged" /\ Quiet =>
    running # NoRow /\ running.source = want /\ running.env.hash = want
=============================================================================
