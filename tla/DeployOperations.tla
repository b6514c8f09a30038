--------------------------- MODULE DeployOperations ---------------------------
(***************************************************************************)
(* What the registry of the IaC runner promises to the callers of /deploy  *)
(* and /deploy/status: an operation, identified by environment, exact ref  *)
(* and normalized service set, is started once, settles once, and is then  *)
(* forgotten.  While it runs no second run of it starts, and a response    *)
(* that has been given never turns into another one.                       *)
(***************************************************************************)
CONSTANT Keys        \* the identities of operations

VARIABLE op          \* what /deploy/status answers for each identity

Terminal == {"completed", "failed"}

OpTypeOK == op \in [Keys -> {"not_found", "in_progress"} \cup Terminal]

Init == op = [k \in Keys |-> "not_found"]

(* /deploy takes the operation on.                                         *)
Accept(k) ==
  /\ op[k] = "not_found"
  /\ op' = [op EXCEPT ![k] = "in_progress"]

(* Its one run ends.                                                       *)
Settle(k) ==
  /\ op[k] = "in_progress"
  /\ \E status \in Terminal : op' = [op EXCEPT ![k] = status]

(* The stored response is older than RECENT_DEPLOY_TTL_SECONDS.            *)
Forget(k) ==
  /\ op[k] \in Terminal
  /\ op' = [op EXCEPT ![k] = "not_found"]

(* A restart of the runner loses every operation.                          *)
Lose == op' = [k \in Keys |-> "not_found"]

Next ==
  \/ \E k \in Keys : Accept(k) \/ Settle(k) \/ Forget(k)
  \/ Lose

Spec == Init /\ [][Next]_op
=============================================================================
