------------------------------ MODULE AppCompose ------------------------------
(***************************************************************************)
(* The fixed compose of an application: promotions write it through        *)
(* AppPromote, and the runner's <app>.sync, one of the services that       *)
(* discover_services finds, writes it through ServiceSync.                 *)
(***************************************************************************)
EXTENDS Dokploy

CONSTANTS
  UsesAppRole, HasDomain,
  Promoters, Processes, Nobody, ProcessOf, ImageOf, BranchOf, StampOf

VARIABLES
  pc, want, force, env, known, retried, answer, vpc, venv,
  at, holder, depth, seen, merged, raced

Service == INSTANCE ServiceSync
App     == INSTANCE AppPromote

sync    == <<pc, want, force, env, known, retried, answer>>
approle == <<vpc, venv>>
promote == <<at, holder, depth, seen, merged, raced>>
vars    == <<dokploy, sync, approle, promote>>

Init == App!Init /\ Service!Idle

Next ==
  \/ Service!Sync /\ UNCHANGED promote
  \/ Service!SetupAppRole /\ UNCHANGED promote
  \/ \E p \in Promoters : App!Promote(p) /\ UNCHANGED <<sync, approle>>
  \/ Worker /\ UNCHANGED <<sync, approle, promote>>

Spec == Init /\ [][Next]_vars

(* ops.pipeline.md, section 5.2: a sync skips finance_report/*, which its  *)
(* own promotions deploy.  So once a release has been promoted, an         *)
(* application that runs what its compose says runs an image that was      *)
(* promoted, and not the "latest" that the compose file falls back to.     *)
PromotedImageKept ==
  /\ \E p \in Promoters : at[p] = "ok"
  /\ pc = "idle" /\ vpc = "idle" /\ Quiet /\ running = row
  => running.env.image # None
=============================================================================
