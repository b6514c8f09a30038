----------------------------- MODULE MCRelease -----------------------------
EXTENDS Release

Command(services, type, version, iacRef, reviewed, validated) ==
  [services |-> services, type |-> type, version |-> version, iacRef |-> iacRef,
   expected |-> NoCommit, down |-> FALSE, reviewed |-> reviewed, validated |-> validated,
   glass |-> FALSE, wait |-> TRUE]

(* Operators: one service, and one whose ref is refused.                   *)
MCCommands ==
  {Command({"db"}, "prod", MainBranch, Ref("tag", 2), TRUE, FALSE),
   Command({"db"}, "staging", MainBranch, MainBranch, FALSE, FALSE)}

(* Each release in production, and the second one in staging before.       *)
MCReconciles ==
  {[after |-> Ref("tag", 2), prod |-> FALSE], [after |-> Ref("tag", 2), prod |-> TRUE],
   [after |-> Ref("tag", 3), prod |-> TRUE]}

(* The two dispatches by hand that the workflow's form lets through.       *)
MCBatchReconciles == {[after |-> MainBranch, prod |-> p] : p \in BOOLEAN}

Run(head, version) == [head |-> head, version |-> version, good |-> TRUE]

MCRequest == [service |-> "app", type |-> "prod", version |-> Ref("tag", 1), sha |-> 1,
              remove |-> FALSE, authentic |-> TRUE,
              source |-> Run(1, Ref("tag", 1)), staging |-> Run(2, Ref("tag", 1)),
              pull |-> [merge |-> 1, merged |-> TRUE]]

(* A valid production request; one that staging ran as another version;    *)
(* the removal of a preview.                                               *)
MCAsked ==
  {MCRequest,
   [MCRequest EXCEPT !.staging = Run(2, Ref("tag", 2))],
   [MCRequest EXCEPT !.type = "preview/pr", !.version = Ref("pr", 1), !.remove = TRUE]}

MCPolicies == [s \in {"app"} |-> [sourceHead |-> TRUE, stagingHead |-> FALSE, declared |-> TRUE]]

MCTouched == <<{}, {"db", "logs"}, {"db", "new"}>>
=============================================================================
