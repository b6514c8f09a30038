----------------------------- MODULE AppRequest -----------------------------
(***************************************************************************)
(* What an application repository may ask of infra2                        *)
(* (libs/app_deploy_request.py): the evidence GitHub gives for a request,  *)
(* and the plan that a valid request becomes.                              *)
(*                                                                         *)
(* A request is a coordinate, the commit its version_ref is meant to be    *)
(* (source_sha), and the workflow runs and the pull request it names as    *)
(* evidence.  Runs and the merge of a pull request do not change, so they  *)
(* are written into the request as GitHub reports them.                    *)
(***************************************************************************)
EXTENDS DeployContract

CONSTANT
  Policies   \* the evidence contract each application has checked in

(* head_sha, display_title as the version_ref it names, and whether the    *)
(* run is the right workflow's and event's and was completed successfully. *)
Runs == [head : Commits, version : Refs, good : BOOLEAN]

(* merge_commit_sha, and whether it was merged into the approved branch.   *)
ReviewedPulls == [merge : Commits, merged : BOOLEAN]

Requests == [service : AppServices, type : DeployTypes, version : Refs, sha : Commits,
             remove : BOOLEAN, authentic : BOOLEAN,
             source : Runs, staging : Runs, pull : ReviewedPulls]

(* No contract: the application is staging-only.                           *)
NoPolicy == [sourceHead |-> FALSE, stagingHead |-> FALSE, declared |-> FALSE]

ASSUME PolicyAssumption ==
  Policies \in [AppServices -> [sourceHead : BOOLEAN, stagingHead : BOOLEAN, declared : BOOLEAN]]

-----------------------------------------------------------------------------
(* _verify_run; a contract may waive the comparison of head_sha.           *)
RunVerified(run, q, needHead) ==
  /\ run.good
  /\ needHead => run.head = q.sha
  /\ run.version = q.version

(* _verify_reviewed_pull                                                   *)
PullVerified(q) == q.pull.merged /\ q.pull.merge = q.sha

(* verify_production_evidence, under the contract fetched at source_sha.   *)
EvidenceVerified(q) ==
  LET policy == Policies[q.service]
  IN  /\ policy.declared
      /\ RunVerified(q.source, q, policy.sourceHead)
      /\ RunVerified(q.staging, q, policy.stagingHead)
      /\ PullVerified(q)

(* validate_request_authority against the application's repository: who    *)
(* asks for what with which URLs (authentic), the evidence of a production *)
(* request, and for a deployment that version_ref is source_sha now.       *)
Authorised(q, app) ==
  /\ q.authentic
  /\ q.type = "prod" => EvidenceVerified(q)
  /\ ~q.remove => /\ (q.type = "preview/pr") = (q.version.form = "pr")
                  /\ ResolveSha(app, q.version) = q.sha

(* select_iac_ref: the newest release tag merged into the checkout, for a  *)
(* fixed environment; NoCommit as a version: there is none.                *)
MergedTags(infra, head) == {v \in Tags : infra.tag[v] \in 1..head}

SelectIacRef(type, infra, head) ==
  IF type \notin FixedTypes THEN MainBranch
  ELSE LET merged == MergedTags(infra, head)
       IN  Ref("tag", IF merged = {} THEN NoCommit
                      ELSE CHOOSE v \in merged : \A w \in merged : w <= v)

(* deploy_v2_args: the plan's flags.  The acknowledgements of a production *)
(* deployment rest on the evidence that has been verified.                 *)
PlanArgs(q, iacRef) ==
  [services |-> {q.service}, type |-> q.type, version |-> q.version, iacRef |-> iacRef,
   expected |-> IF q.remove THEN NoCommit ELSE q.sha, down |-> q.remove,
   reviewed |-> q.type = "prod", validated |-> q.type = "prod", glass |-> FALSE, wait |-> TRUE]

(* requires_preflight_canary                                               *)
NeedsCanary(q) == q.type \in FixedTypes /\ ~q.remove

=============================================================================
