-------------------------------- MODULE Checks --------------------------------
(***************************************************************************)
(* Seven small machines that share nothing, in one specification: the      *)
(* subject of a behaviour is chosen in the beginning and the others stand  *)
(* still.  The constants are those of the machines, by their names.        *)
(***************************************************************************)
EXTENDS Naturals, Sequences, FiniteSets

CONSTANTS
  Runs, Asked, Pulls, CanaryPull, Slugs, Left, MaxStacks, MaxTurns, Polls, Attempts,  \* Preview
  Containers, Composes, Entries, Remediate, GuardInterval, FailureThreshold,
  RecoveryThreshold, BreakdownRenotify, GuardRenotify, Ceiling,                       \* ResidentSidecar
  Requests, Settings, Alerts, MaxBoots,                                               \* AlertBridge
  Jobs, Kinds, Catalog, Legacy, MaxRules, MaxMerges,                                  \* AlertRules
  Facets, NotInProduction, MaxRestartCount, Window, Losses, MaxTrouble,                       \* SelfRefreshAudit
  Artifacts, Dependencies, Transient, First, MaxTrees,                                \* ConfigDrift
  Routes, Heartbeat, Preflight, MinWrite, MaxAge, CronEvery, Renotify, Faults         \* Watchdog

VARIABLES
  subject,
  stack, created, open, turns, proc, contested, wasClosed,                        \* Preview
  pc, since, state, alerted, running, stuck, killed, told, lost, seen, swept,     \* ResidentSidecar
  settings, boots, req, chat, healthy,                                            \* AlertBridge
  rules, made, channel, dashboard, tip, job, doubled,                             \* AlertRules
  world, troubles, calm, collected, ticks, report,                                \* SelfRefreshAudit
  main, tag, secret, identity, tampered, daily, drift,                            \* ConfigDrift
  runner, silence, beat, incident, lastRun, parses, cron, due, failing, unsent,
  notified, quiet, put, faulty, spell                                             \* Watchdog

ofPreview == <<stack, created, open, turns, proc, contested, wasClosed>>
ofSidecar == <<pc, since, state, alerted, running, stuck, killed, told, lost, seen, swept>>
ofBridge  == <<settings, boots, req, chat, healthy>>
ofRules   == <<rules, made, channel, dashboard, tip, job, doubled>>
ofAudit   == <<world, troubles, calm, collected, ticks, report>>
ofDrift   == <<main, tag, secret, identity, tampered, daily, drift>>
ofWatch   == <<runner, silence, beat, incident, lastRun, parses, cron, due, failing, unsent, notified, quiet, put, faulty,
               spell>>

vars == <<subject, ofPreview, ofSidecar, ofBridge, ofRules, ofAudit, ofDrift, ofWatch>>

P == INSTANCE Preview WITH made <- created
S == INSTANCE ResidentSidecar
B == INSTANCE AlertBridge
R == INSTANCE AlertRules
A == INSTANCE SelfRefreshAudit WITH seen <- collected
D == INSTANCE ConfigDrift WITH job <- daily, report <- drift
W == INSTANCE Watchdog WITH told <- notified, alert <- incident, found <- failing, error <- unsent

(* The constants of each machine are what it assumes.                       *)
ASSUME ChecksAssumption ==
  /\ P!PreviewAssumption /\ S!SidecarAssumption /\ B!BridgeAssumption
  /\ R!RulesAssumption /\ A!AuditAssumption /\ D!DriftAssumption
  /\ W!WatchdogAssumption

Init ==
  /\ subject \in {"previews", "sidecar", "bridge", "rules", "audit", "drift", "watchdog"}
  /\ P!Init /\ S!Init /\ B!Init /\ R!Init /\ A!Init /\ D!Init /\ W!Init

Previews == subject = "previews"  /\ P!Next /\ UNCHANGED <<subject, ofSidecar, ofBridge, ofRules, ofAudit, ofDrift, ofWatch>>
Sidecar  == subject = "sidecar"   /\ S!Next /\ UNCHANGED <<subject, ofPreview, ofBridge, ofRules, ofAudit, ofDrift, ofWatch>>
Bridge   == subject = "bridge"    /\ B!Next /\ UNCHANGED <<subject, ofPreview, ofSidecar, ofRules, ofAudit, ofDrift, ofWatch>>
Rules    == subject = "rules"     /\ R!Next /\ UNCHANGED <<subject, ofPreview, ofSidecar, ofBridge, ofAudit, ofDrift, ofWatch>>
Audit    == subject = "audit"     /\ A!Next /\ UNCHANGED <<subject, ofPreview, ofSidecar, ofBridge, ofRules, ofDrift, ofWatch>>
Drift    == subject = "drift"     /\ D!Next /\ UNCHANGED <<subject, ofPreview, ofSidecar, ofBridge, ofRules, ofAudit, ofWatch>>
Watch    == subject = "watchdog"  /\ W!Next /\ UNCHANGED <<subject, ofPreview, ofSidecar, ofBridge, ofRules, ofAudit, ofDrift>>

Next == Previews \/ Sidecar \/ Bridge \/ Rules \/ Audit \/ Drift \/ Watch

Spec == Init /\ [][Next]_vars
-----------------------------------------------------------------------------
(* Every variable has its type.                                             *)
TypeOK == P!TypeOK /\ S!TypeOK /\ B!TypeOK /\ R!TypeOK /\ A!TypeOK /\ D!TypeOK /\ W!TypeOK

(* Ups, downs and canaries that follow each other leave no stack over: one  *)
(* alias has one stack, although a create may succeed without its answer,   *)
(* and a canary that could tear down has left nothing of its own.           *)
NoStackIsLeftOver == P!OneStackPerAlias /\ P!CanaryLeavesNothing

(* A stack that the leak check flags is of the old form, or its pull        *)
(* request was closed at a time when it existed, or GitHub's answer left    *)
(* that pull request out.                                                   *)
FlaggedOnlyWhenClosed == P!FlaggedOnlyWhenClosed

(* An incident of a container begins and ends only after as many sweeps in  *)
(* a row as the thresholds ask for.                                         *)
FlapsAreQuiet == S!FlapsAreQuiet

(* Trouble that stays is paged, or its page was lost within the last        *)
(* renotify interval.                                                       *)
TroubleIsPaged == S!TroubleIsPaged

(* What the bridge accepted is in the chat, and what it refused is not.     *)
AcceptedIsDelivered == B!AcceptedIsDelivered

(* After a healthy answer only Feishu's own failures keep an alert back.    *)
HealthyBridgeDelivers == B!HealthyBridgeDelivers

(* A green apply of its own has put its catalog into SigNoz, and nothing    *)
(* else was lost by it.                                                     *)
GreenApplyMeansCatalog == R!GreenApplyMeansCatalog

(* The self-refresh audit fails a service only for what is recent, and for  *)
(* all that is wrong when it looks.                                         *)
AuditTellsThePresent == A!AuditTellsThePresent

(* The daily comparison says in sync, or drift, only when it is so, as far  *)
(* as the files of its own checkout go.                                     *)
DriftIsTheTruth == D!DriftIsTheTruth

(* "the file set can't diverge from the deploy": no drift is reported of    *)
(* what was synced at the latest release.                                   *)
FileSetsDoNotDiverge == D!FileSetsDoNotDiverge

(* The age of the stored heartbeat is that of the last one that arrived, or *)
(* at most the throttle more.                                               *)
HeartbeatAgeIsHonest == W!HeartbeatAgeIsHonest

(* An outage that run after run of the watchdog finds is told.              *)
StableOutageIsTold == W!StableOutageIsTold

(* Between runs the watchdog's alert state says what the operator was told. *)
AlertSaysWhatWasTold == W!AlertSaysWhatWasTold

(* The watchdog repeats a message only after the renotify interval.         *)
SameMessageWaits == W!SameMessageWaits
=============================================================================
