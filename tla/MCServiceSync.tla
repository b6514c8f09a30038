---------------------------- MODULE MCServiceSync ----------------------------
(***************************************************************************)
(* A service that is new to Dokploy, with AppRole and a domain, and two    *)
(* revisions of its config.                                                *)
(***************************************************************************)
EXTENDS ServiceSync, TLC

MCSymmetry == Permutations(Versions)
=============================================================================
