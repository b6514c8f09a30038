----------------------------- MODULE DeployRefs -----------------------------
(***************************************************************************)
(* How a ref that a person or another repository hands to a deployment is  *)
(* read (tools/resolve_deploy_ref.py): its form and the commit it stands   *)
(* for.                                                                    *)
(*                                                                         *)
(* A repository is a value here; the modules that use it say how it moves. *)
(* The commits of main are 1..tip, a larger number is a commit of another  *)
(* branch; tag v is the v-th version, and as git answers with object ids,  *)
(* the object of an annotated tag v has the id -v.                         *)
(***************************************************************************)
EXTENDS Integers, FiniteSets

CONSTANTS
  MaxCommit,   \* bound: the length of main
  Side,        \* commits of branches that were never merged as they are
  Tags,        \* versions, in their order
  Pulls        \* pull requests of an application

ASSUME RefsAssumption ==
  /\ MaxCommit \in Nat \ {0}
  /\ Side \subseteq Nat /\ \A c \in Side : c > MaxCommit
  /\ Tags \subseteq Nat \ {0} /\ IsFiniteSet(Tags)
  /\ Pulls \subseteq Nat \ {0}

NoCommit == 0

Commits == 1..MaxCommit \cup Side

Ref(form, of) == [form |-> form, of |-> of]

Refs == [form : {"tag", "branch", "sha", "pr"}, of : Nat]

MainBranch == Ref("branch", 0)

(* tip of main; commit of each tag; which tags are annotated; heads of     *)
(* pull requests.  NoCommit: there is no such ref.                         *)
Repos == [tip : 1..MaxCommit, tag : [Tags -> Commits \cup {NoCommit}],
          annotated : SUBSET Tags, pull : [Pulls -> Commits \cup {NoCommit}]]

(* Reachable from main.                                                    *)
OnMain(repo, commit) == commit \in 1..repo.tip

-----------------------------------------------------------------------------
(* git ls-remote for refs/tags/v and its peel: one row for a lightweight   *)
(* tag, two for an annotated one.                                          *)
TagRows(repo, v) ==
  IF v \notin Tags \/ repo.tag[v] = NoCommit THEN {}
  ELSE IF v \in repo.annotated
       THEN {[sha |-> -v, peeled |-> FALSE], [sha |-> repo.tag[v], peeled |-> TRUE]}
       ELSE {[sha |-> repo.tag[v], peeled |-> FALSE]}

(* The row of the peel if there is one, else the row of the ref itself.    *)
TagSha(repo, v) ==
  LET rows   == TagRows(repo, v)
      peeled == {r \in rows : r.peeled}
  IN  IF rows = {} THEN NoCommit
      ELSE (CHOOSE r \in IF peeled # {} THEN peeled ELSE rows : TRUE).sha

(* resolve_to_sha and resolve_pr: a sha stands for itself, whether or not  *)
(* the repository has it.                                                  *)
ResolveSha(repo, ref) ==
  CASE ref.form = "sha"    -> ref.of
    [] ref.form = "branch" -> repo.tip
    [] ref.form = "tag"    -> TagSha(repo, ref.of)
    [] ref.form = "pr"     -> IF ref.of \in Pulls THEN repo.pull[ref.of] ELSE NoCommit
=============================================================================
