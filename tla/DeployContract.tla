--------------------------- MODULE DeployContract ---------------------------
(***************************************************************************)
(* The contract of a deployment coordinate (service, type, version_ref,    *)
(* iac_ref): libs/deploy_contract.py, the environments it derives from     *)
(* (libs/deploy_env_config.py) and the red lines of deploy_v2.  Pure: a    *)
(* coordinate is refused before anything has happened.                     *)
(***************************************************************************)
EXTENDS DeployRefs

CONSTANTS
  AppServices,   \* libs.deploy_contract.SERVICES
  Pinned,        \* services derived from Deployer classes: iac_pinned
  ProdOnly,      \* pinned services that exist in production only
  NotYetInProd,  \* pinned services without a production deployment
  NoPreview      \* app services without a preview configuration

ASSUME ContractAssumption ==
  /\ AppServices \cap Pinned = {}
  /\ ProdOnly \subseteq Pinned /\ NotYetInProd \subseteq Pinned
  /\ NoPreview \subseteq AppServices

FixedTypes   == {"staging", "prod"}
PreviewTypes == {"preview/branch", "preview/pr", "preview/commit", "preview/tag"}
DeployTypes  == FixedTypes \cup PreviewTypes \cup {"canary"}

(* deploy_type_spec: the environment, and the forms of version_ref.        *)
EnvOf(type) == IF type \in FixedTypes THEN type ELSE "preview"

AcceptedForms(type) ==
  CASE type \in FixedTypes \cup {"preview/tag"} -> {"tag"}
    [] type = "preview/branch" -> {"branch"}
    [] type = "preview/commit" -> {"sha"}
    [] type = "preview/pr"     -> {"pr"}
    [] type = "canary"         -> {"branch", "sha", "tag"}

(* env_config                                                              *)
DataOf(env)              == IF env = "prod" THEN "prod" ELSE "staging"
RequiresStagingFirst(env) == env = "prod"

-----------------------------------------------------------------------------
(* validate_iac_ref_form: a fixed environment takes a release tag only.    *)
IacFormAccepted(type, ref) == type \in FixedTypes => ref.form = "tag"

(* The canary and a branch preview take main where version_ref is empty.   *)
VersionFormAccepted(type, ref) == ref.form \in AcceptedForms(type)

(* validate_deploy_target: both versions are commits, a service that only  *)
(* production has is deployed there only, and a preview needs a service    *)
(* that can have instances.                                                *)
TargetValid(service, type, code, iac) ==
  /\ code \in Commits
  /\ iac \in Commits
  /\ service \in ProdOnly => type = "prod"

(* enforce_data_lane_red_lines: production data only for reviewed code.    *)
RedLinesKept(type, reviewed) == DataOf(EnvOf(type)) = "prod" => reviewed

(* The staging-first gate of deploy_v2.                                    *)
StagingFirstKept(type, validated, glass) ==
  RequiresStagingFirst(EnvOf(type)) => validated \/ glass

=============================================================================
