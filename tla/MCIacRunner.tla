----------------------------- MODULE MCIacRunner -----------------------------
(***************************************************************************)
(* A small repository for the model checker: two services that have a sync *)
(* task and the runner itself, which has none, over a history of two       *)
(* commits.  The second commit changes one service and the runner.         *)
(***************************************************************************)
EXTENDS IacRunner, TLC

CONSTANTS redis, vault, boot, paddedVault, staging, production, v0, v1, v2

MCTree == <<[s \in Services |-> v1],
            [s \in Services |-> IF s = redis THEN v1 ELSE v2]>>

MCNames == Services \cup {All, paddedVault}

MCStrip == [n \in MCNames |-> IF n = paddedVault THEN vault ELSE n]

Body(env, ref, asked, wait) ==
  [env |-> env, ref |-> ref, asked |-> asked, wait |-> wait]

(* One operation under two spellings of its service, and an omitted service *)
(* set at another ref, for one environment; staging has the pushes.        *)
MCFewRequests == {Body(production, 1, {vault}, TRUE),
                  Body(production, 1, {paddedVault}, FALSE),
                  Body(production, 2, {}, FALSE)}

(* Both refs of one service in one environment.                            *)
MCRequests == {Body(production, 1, {vault}, TRUE),
               Body(production, 1, {paddedVault}, FALSE),
               Body(production, 2, {vault, boot}, FALSE),
               Body(staging, 2, {}, FALSE)}
=============================================================================
