------------------------------- MODULE MCChecks -------------------------------
(***************************************************************************)
(* The constants of the checks run, machine by machine.                    *)
(***************************************************************************)
EXTENDS Checks

(* Previews: two runs, a pull request that opens and closes, two branches   *)
(* with one slug; a stack of the old form and a canary's were left behind.  *)
Ask(op, kind, value, image) == [op |-> op, kind |-> kind, value |-> value, image |-> image]

MCAsked == {Ask("up", "pr", 1, 2), Ask("up", "pr", 1, 3), Ask("down", "pr", 1, 1), Ask("up", "branch", 1, 2),
            Ask("up", "branch", 2, 3), Ask("canary", "pr", 9, 2), Ask("down", "pr", 9, 1),
            Ask("check", "pr", 1, 1), Ask("remediate", "pr", 1, 1)}
MCSlugs == [v \in 0..2 |-> IF v = 0 THEN 0 ELSE 1]
MCLeft  == <<[kind |-> "bare", of |-> 1], [kind |-> "pr", of |-> 9]>>

(* Resident watchers: one container, one compose.                           *)
Entry(s, unhealthy, clean) == [state |-> s, unhealthy |-> unhealthy, clean |-> clean]

MCEntries == {Entry("running", FALSE, TRUE), Entry("running", TRUE, TRUE), Entry("exited", FALSE, TRUE),
              Entry("exited", FALSE, FALSE)}

(* The bridge: two requests, and environments that are complete, lack a     *)
(* value, or have one of blanks only.                                       *)
Config(mode, url, base, ids) == [mode |-> mode, url |-> url, base |-> base, ids |-> ids]
Nothing == Config("unset", "unset", "unset", "unset")
Env(own, band, reports, auth) == [own |-> own, band |-> band, reports |-> reports, auth |-> auth]

MCSettings ==
  {Env(Config("feishu_webhook", "good", "unset", "unset"), Nothing, Nothing, TRUE),
   Env(Config("feishu_app", "unset", "unset", "good"), Config("unset", "good", "unset", "unset"),
       Config("unset", "unset", "bad", "good"), FALSE),
   Env(Config("feishu_app", "unset", "good", "unset"), Config("feishu_app", "unset", "unset", "good"),
       Config("unset", "unset", "unset", "good"), FALSE),
   Env(Config("other", "bad", "bad", "blank"), Config("feishu_webhook", "unset", "unset", "unset"), Nothing, FALSE),
   Env(Config("feishu_app", "unset", "unset", "blank"), Nothing, Nothing, FALSE)}

Alert(status, severity, count) == [status |-> status, severity |-> severity, count |-> count]

MCAlerts == {Alert("firing", "critical", 9), Alert("resolved", "critical", 1), Alert("firing", "warning", 1)}

(* Alert rules: two jobs, a catalog of two that changes once; a rule of an  *)
(* older catalog, one that was renamed since, and one a person made.        *)
Rule(name, source) == [name |-> name, def |-> 0, source |-> source, signal |-> "logs"]

MCCatalog == <<[name |-> "errors", signal |-> "logs"], [name |-> "latency", signal |-> "metrics"]>>
MCLegacy  == <<Rule("errors", "catalog"), Rule("renamed", "catalog"), Rule("made by hand", "none")>>

(* The audit: an AppRole service and a token service, and an application    *)
(* that is not in production, with a stack declared on its behalf.  The     *)
(* call for the logs has no answer, or all the others have none.            *)
Facet(id, owner, auth, exempt, optional) ==
  [id |-> id, owner |-> owner, auth |-> auth, exempt |-> exempt, optional |-> optional]

MCFacets == {Facet("platform/a", "platform/a", "approle", TRUE, {"field"}),
             Facet("app/b", "app/b", "token", FALSE, {}), Facet("app/c", "app/c", "token", FALSE, {}),
             Facet("app/c-preview", "app/c", "approle", FALSE, {})}
MCLosses == {{}, {"logs"}, {"token", "file", "agent", "app"}}

(* The daily comparison: a commit may change a mounted file, a shared one,  *)
(* the compose file or the env.                                             *)
MCFirst == [file |-> [f \in {"compose", "conf", "shared"} |-> 1], env |-> 1]
===============================================================================
