---------------------------- MODULE MCAppCompose ----------------------------
(***************************************************************************)
(* One promotion of an application, and syncs of its config.               *)
(***************************************************************************)
EXTENDS AppCompose, TLC

CONSTANTS p1, v1, r1, s1, job1

MCProcessOf == p1 :> job1
MCImageOf   == p1 :> r1
MCBranchOf  == p1 :> v1
MCStampOf   == p1 :> s1
=============================================================================
