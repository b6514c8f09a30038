------------------------------- MODULE FanOut -------------------------------
(***************************************************************************)
(* Which services a revision of the repository concerns.                   *)
(*                                                                         *)
(* A commit is abstracted to the content it gives each service:            *)
(* Tree[c][s] stands for every file of commit c that the deploy dependency *)
(* graph maps to service s (its own directory and the extra dependencies   *)
(* that docs/ssot/deploy-dependencies.yaml declares).  A file no service   *)
(* depends on (libs/, tools/) is no part of any version, so a commit that  *)
(* changes such files only leaves every Tree[c][s] as it was.              *)
(***************************************************************************)
EXTENDS Naturals

CONSTANTS
  Services,    \* service ids, "platform/redis", "bootstrap/vault", ...
  Untasked,    \* the services the task map gives no sync task (bootstrap/...)
  Versions,    \* what a service's files can be
  Absent,      \* a commit that has no such service
  All,         \* the name "__all__" in a set of requested services
  MaxCommit,   \* bound: length of the history of main that is explored
  Tree         \* the content of each commit, per service

Commits == 1..MaxCommit

NoCommit == 0    \* no checkout yet; as a requested ref: the tip of main

ASSUME FanOutAssumption ==
  /\ Untasked \subseteq Services
  /\ All \notin Services
  /\ Absent \notin Versions
  /\ MaxCommit \in Nat \ {0}
  /\ Tree \in [Commits -> [Services -> Versions \cup {Absent}]]

-----------------------------------------------------------------------------
(* _service_task_map and _all_services, evaluated in the checkout of c.    *)
Tasks(c) == {s \in Services \ Untasked : Tree[c][s] # Absent}

(* git diff --name-only from..to, then match_changed_services.             *)
Changed(from, to) == {s \in Services : Tree[from][s] # Tree[to][s]}

(* The services of one sync: the requested ones, every one of the checkout *)
(* for "__all__", and for an empty request those that differ between the   *)
(* previous and the new checkout.  An empty difference, a first clone and  *)
(* a git diff that fails (diffOk = FALSE) mean every service.              *)
Selected(asked, before, after, diffOk) ==
  IF All \in asked THEN Tasks(after)
  ELSE IF asked # {} THEN asked
  ELSE LET changed == IF diffOk /\ before \notin {NoCommit, after}
                      THEN Changed(before, after) ELSE {}
       IN  IF changed # {} THEN changed ELSE Tasks(after)

=============================================================================
