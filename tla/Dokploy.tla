------------------------------- MODULE Dokploy -------------------------------
(***************************************************************************)
(* One compose of Dokploy, as libs/dokploy.py and its callers use it: the  *)
(* row they write (the git ref it is cloned from, its env, its domain),    *)
(* the queue of accepted deployments, the deployment records they poll,    *)
(* and what the containers run.                                            *)
(*                                                                         *)
(* Dokploy is not part of the repository.  Its callers rely on this much:  *)
(* compose.update is last-writer-wins; a deployment is taken from one      *)
(* queue and reads the row when it starts, which is when its record        *)
(* appears; an accepted deployment may also vanish without a record.       *)
(***************************************************************************)
EXTENDS Naturals, Sequences

CONSTANTS
  Versions,    \* revisions of the repository, as far as this service goes
  Releases,    \* image tags of the application the compose runs
  Stamps,      \* the IAC_CONFIG_HASH values an application promotion writes
  None,        \* an env key or a git ref that is not set
  NoRow,       \* the compose does not exist
  MaxDeploys   \* bound: deployments that are ever accepted

(* IAC_CONFIG_HASH, with the rest of the env that it fingerprints;         *)
(* IMAGE_TAG; whether VAULT_ROLE_ID and VAULT_SECRET_ID are there.         *)
Env == [hash : Versions \cup Stamps \cup {None}, image : Releases \cup {None},
        creds : BOOLEAN]

NoEnv == [hash |-> None, image |-> None, creds |-> FALSE]

(* branch, env, and whether the domain of the service has been created.    *)
Rows == [source : Versions \cup {None}, env : Env, routed : BOOLEAN]

(* A deployment record, with the row the deployment has read.              *)
Records == [status : {"running", "done", "error"}, ran : Rows]

ASSUME DokployAssumption ==
  /\ None \notin Versions \cup Releases \cup Stamps
  /\ NoRow \notin Rows
  /\ MaxDeploys \in Nat

VARIABLES
  row,       \* the compose, or NoRow
  queue,     \* how many accepted deployments have not started
  records,   \* the deployment records, oldest first
  running    \* the row that the containers were last started from

dokploy == <<row, queue, records, running>>

DokployTypeOK ==
  /\ row \in Rows \cup {NoRow}
  /\ queue \in Nat
  /\ records \in Seq(Records)
  /\ running \in Rows \cup {NoRow}

DokployInit ==
  /\ row = NoRow
  /\ queue = 0
  /\ records = <<>>
  /\ running = NoRow

(* compose.one; the env of a compose that does not exist is empty.         *)
RowEnv == IF row = NoRow THEN NoEnv ELSE row.env

(* compose.deploy and compose.redeploy: the deployment is accepted.        *)
Enqueue ==
  /\ Len(records) + queue < MaxDeploys
  /\ queue' = queue + 1

Busy == \E i \in DOMAIN records : records[i].status = "running"

(* The worker takes the next deployment.                                   *)
Begin ==
  /\ queue > 0
  /\ ~Busy
  /\ queue' = queue - 1
  /\ records' = Append(records, [status |-> "running", ran |-> row])
  /\ UNCHANGED <<row, running>>

(* A deployment ends well, or leaves the containers as they were.          *)
Complete ==
  \E i \in DOMAIN records, status \in {"done", "error"} :
    /\ records[i].status = "running"
    /\ records' = [records EXCEPT ![i].status = status]
    /\ running' = IF status = "done" THEN records[i].ran ELSE running
    /\ UNCHANGED <<row, queue>>

(* An accepted deployment produces no record.                              *)
Vanish ==
  /\ queue > 0
  /\ queue' = queue - 1
  /\ UNCHANGED <<row, records, running>>

Worker == Begin \/ Complete \/ Vanish

(* Nothing is queued or being deployed.                                    *)
Quiet == queue = 0 /\ ~Busy
=============================================================================
