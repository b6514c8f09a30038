--------------------------- MODULE SelfRefreshAudit ---------------------------
(***************************************************************************)
(* The daily audit of how the services of production renew their secrets   *)
(* (libs/vault_self_refresh_audit.py): what it collects from Dokploy,      *)
(* Vault and the containers of one service after the other, and how it     *)
(* judges that.  Docker counts restarts for as long as a container lives   *)
(* and a log keeps old errors: the judgement must be about the present.    *)
(*                                                                         *)
(* Time is counted in steps; ages stop right after the window.             *)
(***************************************************************************)
EXTENDS Naturals, FiniteSets

CONSTANTS
  Facets,           \* SecretsFacets: [id, owner, auth, exempt, optional]
  NotInProduction,  \* declaring services that have no production deployment
  MaxRestartCount,  \* max_restart_count
  Window,           \* RESTART_RECENCY_WINDOW_SECONDS and DEFAULT_LOG_SINCE
  Losses,           \* which calls of one service may have no answer together
  MaxTrouble        \* bound: things that go wrong

Auths == {"token", "approle"}

(* What is asked of Vault and, over ssh, of the host of the containers.     *)
Calls == {"token", "file", "logs", "agent", "app"}

(* What an instance gives these constants.                                  *)
AuditAssumption ==
  /\ \A f \in Facets : f.auth \in Auths /\ f.exempt \in BOOLEAN
  /\ \A f, g \in Facets : f.id = g.id => f = g     \* a duplicate id fails the derivation
  /\ Facets # {} /\ IsFiniteSet(Facets)            \* as does an empty inventory
  /\ MaxRestartCount \in Nat /\ Window \in Nat \ {0} /\ MaxTrouble \in Nat
  /\ Losses \subseteq SUBSET Calls

VARIABLES
  world,     \* the truth about each service
  troubles,  \* how much has gone wrong
  calm,      \* history: steps since something was last wrong with a service
  seen,      \* what the running audit has collected
  ticks,     \* steps since it began
  report     \* the last report, and what was true when it was made

vars == <<world, troubles, calm, seen, ticks, report>>

Boxes == {"agent", "app"}
Old == Window + 1
Never == Old + 1
Aged(n) == IF n < Old THEN n + 1 ELSE n

(* inventory_ids_not_in_production: the owners, and what they declare on    *)
(* behalf of others.                                                        *)
Excluded == NotInProduction \cup {f.id : f \in {g \in Facets : g.owner \in NotInProduction}}
Audited  == {f \in Facets : f.id \notin Excluded}

FaultsOf(f) ==
  {"creds_missing", "file_missing", "file_unreadable", "file_empty", "no_value",
   "agent_missing", "agent_exited", "agent_unhealthy", "app_missing", "app_exited", "app_unhealthy"}
  \cup (IF f.auth = "token" THEN {"token_malformed", "token_invalid", "token_fixed", "token_low"} ELSE {})
  \cup (IF f.exempt THEN {} ELSE {"app_unmounted"})

NoReport == [status |-> "none", basis |-> {}]

Init ==
  /\ world = [f \in Audited |-> [fault |-> "none", error |-> Never,
                                 restarts |-> [b \in Boxes |-> 0], started |-> [b \in Boxes |-> Old]]]
  /\ troubles = 0
  /\ calm = [f \in Audited |-> Never]
  /\ seen = {} /\ ticks = 0
  /\ report = NoReport

(* A report is looked at when it is made.                                   *)
Outside == report' = NoReport /\ UNCHANGED <<seen, ticks>>

-----------------------------------------------------------------------------
(* Something breaks, or is mended.                                          *)
Break(f) ==
  /\ troubles < MaxTrouble
  /\ world[f].fault = "none"
  /\ \E fault \in FaultsOf(f) : world' = [world EXCEPT ![f].fault = fault]
  /\ troubles' = troubles + 1
  /\ calm' = [calm EXCEPT ![f] = 0]
  /\ Outside

Mend(f) ==
  /\ world[f].fault # "none"
  /\ world' = [world EXCEPT ![f].fault = "none"]
  /\ Outside
  /\ UNCHANGED <<troubles, calm>>

(* A container restarts; the agent logs an error.                           *)
Restart(f) ==
  /\ troubles < MaxTrouble
  /\ \E b \in Boxes :
       world' = [world EXCEPT ![f].restarts[b] = IF @ > MaxRestartCount THEN @ ELSE @ + 1, ![f].started[b] = 0]
  /\ troubles' = troubles + 1
  /\ calm' = [calm EXCEPT ![f] = 0]
  /\ Outside

LogError(f) ==
  /\ troubles < MaxTrouble
  /\ world' = [world EXCEPT ![f].error = 0]
  /\ troubles' = troubles + 1
  /\ calm' = [calm EXCEPT ![f] = 0]
  /\ Outside

(* A step of time.  What an audit has seen carries times, not ages; a run   *)
(* of the audit is shorter than the window.                                 *)
Older(w) == [w EXCEPT !.error = Aged(@), !.started = [b \in Boxes |-> Aged(w.started[b])]]

Tick ==
  /\ seen # {} => ticks = 0
  /\ ticks' = IF seen = {} THEN 0 ELSE 1
  /\ world' = [f \in Audited |-> Older(world[f])]
  /\ calm' = [f \in Audited |-> IF world[f].fault # "none" THEN 0 ELSE IF calm[f] < Never THEN calm[f] + 1 ELSE Never]
  /\ seen' = {[o EXCEPT !.started = [b \in Boxes |-> Aged(o.started[b])]] : o \in seen}
  /\ report' = NoReport
  /\ UNCHANGED troubles

-----------------------------------------------------------------------------
(* collect_live_observations for one service, call by call: a call without  *)
(* an answer (_remote_json, _ssh) tells nothing of its own but reads as a   *)
(* container or file that is missing or a token that is not valid, as does  *)
(* the file of an agent that does not run.  AppRole has no token to ask of. *)
CallsOf(f) == IF f.auth = "token" THEN Calls ELSE Calls \ {"token"}

Tells(call) ==
  CASE call = "token" -> {"token_invalid", "token_fixed", "token_low"}
    [] call = "file"  -> {"file_missing", "file_unreadable", "file_empty", "no_value"}
    [] call = "agent" -> {"agent_missing", "agent_exited", "agent_unhealthy"}
    [] call = "app"   -> {"app_missing", "app_exited", "app_unhealthy", "app_unmounted"}
    [] OTHER          -> {}

Told(fault, lost) == {fault} \ UNION {Tells(call) : call \in lost}

Consequences(fault, lost) ==
  (IF fault \in {"agent_missing", "agent_exited"} \/ "file" \in lost THEN {"file_missing"} ELSE {})
  \cup (IF "agent" \in lost THEN {"agent_missing"} ELSE {})
  \cup (IF "app" \in lost THEN {"app_missing"} ELSE {})
  \cup (IF "token" \in lost THEN {"token_invalid"} ELSE {})

(* The logs are cut to the window, and to 200 lines; without an answer they *)
(* are what ssh itself says, which reads as an error when it is a refusal.  *)
Lines(error, lost, excerpt) ==
  IF "logs" \in lost THEN excerpt = "refused" ELSE error <= Window /\ excerpt = "whole"

Observation(f, lost, excerpt) ==
  [of |-> f, lost |-> lost, fault |-> world[f].fault,
   faults   |-> Told(world[f].fault, lost) \cup Consequences(world[f].fault, lost),
   errors   |-> Lines(world[f].error, lost, excerpt),
   restarts |-> world[f].restarts, started |-> world[f].started]

Collect(f) ==
  /\ \A o \in seen : o.of # f
  /\ \E loss \in Losses, excerpt \in {"whole", "cut", "refused"} :
       seen' = seen \cup {Observation(f, loss \cap CallsOf(f), excerpt)}
  /\ report' = NoReport
  /\ UNCHANGED <<world, troubles, calm, ticks>>

-----------------------------------------------------------------------------
(* classify_token: AppRole has credentials to look for, and no token.       *)
TokenFault(o) ==
  \/ "creds_missing" \in o.faults
  \/ o.of.auth = "token" /\ {"token_malformed", "token_invalid", "token_fixed", "token_low"} \cap o.faults # {}

(* classify_rendered_env: its age is information, never a failure; when the *)
(* secret last changed is not modelled.                                     *)
FileFault(o) == {"file_missing", "file_unreadable", "file_empty", "no_value"} \cap o.faults # {}
FileInfo(o, stale) == ~FileFault(o) /\ o.of \in stale

(* classify_optional_field_inertness: information.                          *)
FieldInfos(o) == o.of.optional

(* classify_vault_agent_logs                                                *)
LogFault(o) == o.errors

\* Docker's count speaks for itself.
EverFlapping(count, age) == count > MaxRestartCount

(* is_recently_flapping: often, and lately.                                 *)
RecentlyFlapping(count, age) == count > MaxRestartCount /\ age <= Window

(* classify_container, for the agent and for the application's container.   *)
BoxFault(o, b) ==
  \/ {fault \in o.faults : fault \in (IF b = "agent" THEN {"agent_missing", "agent_exited", "agent_unhealthy"}
                                      ELSE {"app_missing", "app_exited", "app_unhealthy"})} # {}
  \/ RecentlyFlapping(o.restarts[b], o.started[b])
  \/ b = "app" /\ ~o.of.exempt /\ "app_unmounted" \in o.faults

(* audit_from_observations: what is only information does not count.        *)
Results(o, stale) ==
  {<<"token", IF TokenFault(o) THEN "fail" ELSE "pass">>,
   <<"rendered-env", IF FileFault(o) THEN "fail" ELSE IF FileInfo(o, stale) THEN "info" ELSE "pass">>,
   <<"logs", IF LogFault(o) THEN "fail" ELSE "pass">>}
  \cup {<<field, "info">> : field \in FieldInfos(o)}
  \cup {<<b, IF BoxFault(o, b) THEN "fail" ELSE "pass">> : b \in Boxes}

Fails(o, stale) == \E result \in Results(o, stale) : result[2] \notin {"pass", "info"}

(* run and main: the services that are in production, all collected.        *)
Judge ==
  /\ seen # {} /\ {o.of : o \in seen} = Audited
  /\ \E stale \in SUBSET Audited :
       report' = [status |-> IF \A o \in seen : ~Fails(o, stale) THEN "pass" ELSE "fail",
                  basis  |-> {[lost |-> o.lost, fault |-> o.fault, failed |-> Fails(o, stale), calm |-> calm[o.of]] : o \in seen}]
  /\ seen' = {} /\ ticks' = 0
  /\ UNCHANGED <<world, troubles, calm>>

Next ==
  \/ Tick \/ Judge
  \/ \E f \in Audited : Break(f) \/ Mend(f) \/ Restart(f) \/ LogError(f) \/ Collect(f)

Spec == Init /\ [][Next]_vars
-----------------------------------------------------------------------------
(* Every variable has its type.                                             *)
TypeOK ==
  /\ \A f \in Audited :
       /\ world[f].fault \in FaultsOf(f) \cup {"none"} /\ world[f].error \in 0..Never
       /\ world[f].restarts \in [Boxes -> 0..MaxRestartCount + 1] /\ world[f].started \in [Boxes -> 0..Old]
       /\ calm[f] \in 0..Never
  /\ troubles \in 0..MaxTrouble /\ Cardinality(seen) <= Cardinality(Audited) /\ ticks \in 0..1
  /\ report.status \in {"none", "pass", "fail"}

(* The audit is about the present: a service all of whose calls have been   *)
(* answered fails it only when something was wrong with it within the       *)
(* window, never for what is over; and it fails whenever a secret or a      *)
(* container is broken (FaultsOf) when it is looked at, or a call other than *)
(* that for the logs has no answer.                                         *)
AuditTellsThePresent ==
  \A b \in report.basis :
    /\ b.failed /\ b.lost = {} => b.calm <= Window + 1
    /\ b.lost \ {"logs"} # {} \/ b.fault # "none" => b.failed /\ report.status = "fail"
=============================================================================
