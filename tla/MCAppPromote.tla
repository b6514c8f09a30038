---------------------------- MODULE MCAppPromote ----------------------------
(***************************************************************************)
(* Two promotions of different releases from different branches, and a     *)
(* retry of the first one, in one job of deploy.yml and one of             *)
(* app-deploy-request.yml, whose concurrency groups differ.                *)
(***************************************************************************)
EXTENDS AppPromote, TLC

CONSTANTS p1, p2, p3, v1, v2, r1, r2, s1, s2, s3, job1, job2

MCProcessOf == p1 :> job1 @@ p2 :> job1 @@ p3 :> job2
MCImageOf   == p1 :> r1 @@ p2 :> r2 @@ p3 :> r1
MCBranchOf  == p1 :> v1 @@ p2 :> v2 @@ p3 :> v1
MCStampOf   == p1 :> s1 @@ p2 :> s2 @@ p3 :> s3
=============================================================================
