----------------------------- MODULE ConfigDrift -----------------------------
(***************************************************************************)
(* The fingerprint of a service's config (libs/deploy/deployer.py) and the *)
(* daily comparison of what production has with what it should have        *)
(* (tools/facet_reconcile.py): the fingerprint of the latest release       *)
(* against the one that Dokploy stores (tools/dokploy_config_drift.py),    *)
(* and the compose id an application is pinned to against the live one     *)
(* (tools/app_compose_id_drift.py).  One service is looked at.             *)
(*                                                                         *)
(* The job computes a fingerprint of a release with the list of files, and *)
(* the env, of the commit it has checked out.                              *)
(***************************************************************************)
EXTENDS Naturals, Sequences

CONSTANTS
  Artifacts,     \* files the compose file builds from or mounts
  Dependencies,  \* files that match the globs of deploy-dependencies.yaml
  Transient,     \* files of __pycache__
  First,         \* the first tree
  MaxTrees       \* bound: commits of main

Compose == "compose"
Files   == {Compose} \cup Artifacts \cup Dependencies
Absent  == 0

(* A commit: the content of each file, and the env that the service's       *)
(* deployer computes without secrets.                                       *)
Tree == [file : [Files -> Nat], env : Nat]

(* What an instance gives these constants.                                  *)
DriftAssumption ==
  /\ First \in Tree /\ First.file[Compose] # Absent
  /\ Compose \notin Artifacts \cup Dependencies /\ Transient \cap Files = {}
  /\ MaxTrees \in Nat \ {0}

VARIABLES
  main,      \* the commits of main
  tag,       \* the commit of the latest release tag, or 0
  secret,    \* the secrets of the service
  identity,  \* what the service's env in Dokploy says of it: [runtime, source, ref]
  tampered,  \* history: someone has edited that env
  job,       \* the daily job: what it has checked out
  report     \* what it has just reported, and of which identity

vars == <<main, tag, secret, identity, tampered, job, report>>

None  == <<>>
NoRef == 0
Bust  == <<"deploy-">>   \* the runtime fingerprint that a promotion writes
NoIdentity == [runtime |-> None, source |-> None, ref |-> NoRef]
NoJob == [pc |-> "idle", head |-> 0, tag |-> 0]
NoReport == [of |-> NoIdentity, config |-> "none"]

Init ==
  /\ main = <<First>> /\ tag = 0 /\ secret = 1
  /\ identity = NoIdentity /\ tampered = FALSE
  /\ job = NoJob /\ report = NoReport

(* A step of somebody else; a job that has ended is forgotten.              *)
Elsewhere == report' = NoReport /\ job' = IF job.pc \in {"looking", "red"} THEN job ELSE NoJob

-----------------------------------------------------------------------------
(* config_hash_from_items: equal exactly when the compose file, the env,    *)
(* and the labels and contents of both kinds of files are.                  *)
Hash(compose, env, artifacts, dependencies) == <<compose, env, artifacts, dependencies>>

\* Whatever is in the directories counts.
EnumeratedAll(files) == files

(* _iter_path_files, and the globs of the dependencies: what the            *)
(* interpreter leaves behind does not count.                                *)
Enumerated(files) == files \ Transient

(* What a machine has of a tree in its directories.                         *)
OnDisk(t, used) == {f \in Files \ {Compose} : t.file[f] # Absent} \cup (IF used THEN Transient ELSE {})

ArtifactsOf(files)    == {f \in files : f \notin Dependencies}
DependenciesOf(files) == files \cap Dependencies

(* The files with their contents: those of the tree (a transient file has a *)
(* content of its own).                                                     *)
Items(t, files) == {<<f, IF f \in Files THEN t.file[f] ELSE 1>> : f \in files}

(* compute_local_config_hash, on a checkout.                                *)
LocalHash(t, env, used) ==
  LET files == Enumerated(OnDisk(t, used))
  IN  Hash(t.file[Compose], env, Items(t, ArtifactsOf(files)), Items(t, DependenciesOf(files)))

-----------------------------------------------------------------------------
(* Something is merged: a file changes, comes or goes, or the env changes.  *)
Merge ==
  /\ Len(main) < MaxTrees
  /\ LET last == main[Len(main)]
     IN  \E t \in {[last EXCEPT !.file[f] = content] : f \in Files \ {Compose}, content \in {Absent, 1, 2}}
                  \cup {[last EXCEPT !.file[Compose] = @ + 1], [last EXCEPT !.env = @ + 1]} :
           t # last /\ main' = Append(main, t)
  /\ Elsewhere
  /\ UNCHANGED <<tag, secret, identity, tampered>>

(* A release is tagged.                                                     *)
CutTag ==
  /\ tag' = Len(main)
  /\ Elsewhere
  /\ UNCHANGED <<main, secret, identity, tampered>>

(* The service's secrets change; someone edits the stored identity.         *)
Rotate == secret = 1 /\ secret' = 2 /\ Elsewhere /\ UNCHANGED <<main, tag, identity, tampered>>

Tamper ==
  /\ identity # NoIdentity /\ ~tampered
  /\ identity' \in {[identity EXCEPT !.source = None], [identity EXCEPT !.ref = NoRef], [identity EXCEPT !.ref = 1]}
  /\ tampered' = TRUE
  /\ Elsewhere
  /\ UNCHANGED <<main, tag, secret>>

(* Deployer.sync at a release: the identity is written unless both          *)
(* fingerprints are there already.                                          *)
Sync ==
  /\ tag # 0
  /\ \E used \in BOOLEAN :
       LET t       == main[tag]
           source  == LocalHash(t, t.env, used)
           runtime == <<source, secret>>
       IN  /\ ~(identity.runtime = runtime /\ identity.source = source /\ identity.ref # NoRef)
           /\ identity' = [runtime |-> runtime, source |-> source, ref |-> tag]
  /\ tampered' = FALSE
  /\ Elsewhere
  /\ UNCHANGED <<main, tag, secret>>

(* promote.deploy merges its env into the stored one: the runtime           *)
(* fingerprint becomes a value that busts the cache, the source and the ref *)
(* of an earlier sync stay.                                                 *)
Promote ==
  /\ identity' = [identity EXCEPT !.runtime = Bust]
  /\ Elsewhere
  /\ UNCHANGED <<main, tag, secret, tampered>>

-----------------------------------------------------------------------------
(* expected_hash_at: the files that the checkout has, with the contents     *)
(* that they have at ref.                                                   *)
Listed(head, used) == Enumerated(OnDisk(main[head], used))
Missing(head, ref, used) == {f \in {Compose} \cup Listed(head, used) : f \notin Files \/ main[ref].file[f] = Absent}

HashAt(head, ref, used) ==
  LET files == Listed(head, used)
  IN  Hash(main[ref].file[Compose], main[head].env,
           Items(main[ref], ArtifactsOf(files)), Items(main[ref], DependenciesOf(files)))

(* The content at the ref is compared with what is stored, the release's    *)
(* only.                                                                    *)
Provenance(head, i, used) == Missing(head, i.ref, used) = {} /\ HashAt(head, i.ref, used) = i.source

(* scan, for a service that has a deployer.                                 *)
ConfigVerdict(head, release, i, used) ==
  CASE i = NoIdentity -> "not_deployed"
    [] i # NoIdentity /\ i.runtime = Bust -> "cache_bust"
    [] i # NoIdentity /\ i.runtime # Bust ->
         IF Missing(head, release, used) # {} THEN "structural"
         ELSE IF i.source = None \/ i.ref = NoRef THEN "legacy_identity"
         ELSE IF Provenance(head, i, used) /\ i.source = HashAt(head, release, used) THEN "in_sync"
         ELSE "DRIFT"

(* check_target: the pinned id is the live one, another, or there is none,  *)
(* or the lookup fails.                                                     *)
IdVerdicts == {"ok", "DRIFT", "missing", "error"}

(* strict_blockers and blockers turn the job red; what is confirmed is      *)
(* paged: a computation that fails for the service is, a failed lookup of   *)
(* the id or a scan that fails as a whole is not.                           *)
Confirmed(config, id) == config \in {"DRIFT", "error", "structural"} \/ id \in {"DRIFT", "missing"}
Blocks(config, id)    == Confirmed(config, id) \/ config = "failed" \/ id = "error"

(* The job checks main out, with its tags.                                  *)
Checkout ==
  /\ job.pc \notin {"looking", "red"}
  /\ job' = [pc |-> "looking", head |-> Len(main), tag |-> tag]
  /\ report' = NoReport
  /\ UNCHANGED <<main, tag, secret, identity, tampered>>

(* The scan fails (there is no tag, or Dokploy does not answer), or it      *)
(* gives a verdict, which is an error when the computation fails.           *)
Computed == {ConfigVerdict(job.head, job.tag, identity, used) : used \in BOOLEAN}

Verdicts ==
  {"failed"} \cup
  IF job.tag = 0 THEN {}
  ELSE IF Computed \subseteq {"not_deployed", "cache_bust"} THEN Computed ELSE Computed \cup {"error"}

(* run_all, and the report, whatever it says; on red everything is looked   *)
(* at again, and what is confirmed then is paged.                           *)
Report ==
  /\ job.pc \in {"looking", "red"}
  /\ \E config \in Verdicts, id \in IdVerdicts :
       /\ report' = [of |-> identity, config |-> config]
       /\ job' = [job EXCEPT !.pc = IF job.pc = "looking" THEN IF Blocks(config, id) THEN "red" ELSE "green"
                                    ELSE IF Confirmed(config, id) THEN "paged" ELSE "quiet"]
  /\ UNCHANGED <<main, tag, secret, identity, tampered>>

Next == Merge \/ CutTag \/ Rotate \/ Tamper \/ Sync \/ Promote \/ Checkout \/ Report

Spec == Init /\ [][Next]_vars
-----------------------------------------------------------------------------
(* Every variable has its type.                                             *)
TypeOK ==
  /\ \A n \in DOMAIN main : main[n] \in Tree
  /\ tag \in 0..Len(main) /\ secret \in {1, 2} /\ tampered \in BOOLEAN
  /\ identity.ref \in 0..Len(main)
  /\ job.pc \in {"idle", "looking", "green", "red", "paged", "quiet"} /\ job.head \in 0..Len(main)

(* What the checkout would deploy, if its content were that of a commit.    *)
SameInputs(n) == OnDisk(main[n], FALSE) = OnDisk(main[job.head], FALSE) /\ main[n].env = main[job.head].env

(* A verdict on what a sync has stored, and nobody has edited.              *)
Judged == ~tampered /\ report.of.ref # NoRef /\ report.config \notin {"none", "error", "failed"}

(* As far as the checkout goes the comparison tells the truth.  In sync     *)
(* means that what was synced are the files that the checkout has, with the *)
(* contents of the release.  When the release, the synced commit and the    *)
(* checkout have the same files and env, drift means that a content         *)
(* differs, whatever was rotated, and in sync that none does.  And what a   *)
(* promotion has taken over is not compared, although the identity of the   *)
(* sync before it is still there.                                           *)
DriftIsTheTruth ==
  Judged =>
    /\ report.of.runtime = Bust <=> report.config = "cache_bust"
    /\ report.config = "in_sync" =>
         \A f \in Files : main[report.of.ref].file[f] =
                            IF main[job.head].file[f] = Absent THEN Absent ELSE main[job.tag].file[f]
    /\ report.of.runtime # Bust /\ SameInputs(job.tag) /\ SameInputs(report.of.ref) =>
         report.config = IF main[report.of.ref].file = main[job.tag].file THEN "in_sync" ELSE "DRIFT"

(* "the file set can't diverge from the deploy": with one env everywhere,   *)
(* the verdict on a service that was synced at the latest release is never  *)
(* drift.                                                                   *)
FileSetsDoNotDiverge ==
  Judged /\ report.of.ref = job.tag /\ main[job.tag].env = main[job.head].env => report.config # "DRIFT"
=============================================================================
