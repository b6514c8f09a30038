# A model of the infra2 deployment and alerting core

TLA+ modules for the parts of this repository where several processes, a
remote API and partial failures meet: how a revision of the repository gets
from a request onto the machines, and how an outage gets from a probe to a
person. Each module is checked with TLC on a small instance, and every safety
property that a passing run checks also has a proof that TLAPS checks, for every
instance. Two liveness properties, `OperationsSettle` and `PromotionsEnd`, are
left to TLC.

`PROJECT.json` lists the components, the runs, the mutants, the hazards and,
under `map`, the lines of source that each definition translates.

## The system

| Part | State it keeps | Operations | What makes it correct |
|---|---|---|---|
| IaC runner, `bootstrap/06.iac_runner/webhook_server.py` | `_in_flight_deploys`, `_recent_deploys`, threads | `/deploy` (waiting or not), `/deploy/status`, `/webhook`, cache expiry | one run of an operation at a time; an answer that was given stays; every accepted operation settles |
| Runner's sync, `sync_runner.py` | two file locks, the checkout in `/workspace` | check out, select services, `invoke <service>.sync` one by one | a sync runs alone and from the commit it reports; `completed` stands for synced services |
| Fan-out map, `libs/deploy_dependencies.py` | none | changed paths to services | the services a change concerns |
| Service sync, `libs/deploy/deployer.py` | none of its own: the env of a Dokploy compose holds the fingerprints | compare, create or update, check credentials, deploy, await the record, verify | "deployed" means deployed from that config; "unchanged" means running that config; no deployment without credentials |
| Vault `setup-approle`, `bootstrap/05.vault/tasks.py` | Vault, and the same compose | merge credentials, deploy | does not fight the sync |
| Dokploy (external), `libs/dokploy.py` | composes, deployment records, one queue | create, update, deploy, redeploy | last writer wins; a deployment reads the row when it starts |
| Application promotion, `libs/deploy/promote.py`, `libs/compose_lock.py` | an in-process lock for each compose | gates, branch, env, deploy, rollout, verify | no rollout mixes two releases; a call that returns was rolled out, as long as no other process has the compose |
| Release flow, `tools/deploy_v2.py`, `libs/deploy_contract.py`, `libs/app_deploy_request.py` | the job's arguments and resolved refs | gate, plan, resolve, trigger, hand over | only reviewed commits reach production, only main a fixed environment |
| Reconcile, `tools/reconcile_iac_inputs.py`, and runner client, `libs/iac_runner_client.py` | the plan of a tag | diff, deploy, poll | a release leaves no service behind; green means completed |
| Previews, `libs/deploy/preview.py`, `tools/preview_leak_check.py`, `tools/deploy_v2_canary.py` | composes of an application, by alias | up, down, canary, leak check, remediation | one compose for each preview; a canary cleans up; only leaks are flagged |
| Probe loop, `tools/infra_probe_runner.py`, `libs/infra_probes.py` | a state file in `/tmp` | probe, hold back, count, send, save | an outage that stays is told, noise is not |
| Resident watchers, `libs/resident_watchers.py`, `libs/container_breakdown_watch.py`, `libs/deploy_queue_guard.py` | hysteresis of each container, what was alerted, in memory | sweep, alert, kill, second look | as above; what is stuck is paged, flaps are not |
| Watchdog, `cloudflare/infra-watchdog/worker.js` | KV: heartbeats, alert state, ledger, last run | `POST /heartbeat`, cron run | a dead loop is noticed from outside |
| Alert bridge, `libs/alerting.py`, `platform/12.alerting/app.py` | its settings | health, alert, report, out-of-band text | an alert is delivered or refused visibly |
| Alert rules, `finance_report/.../observability/shared_tasks.py`, `tools/signoz_alert_rule_probe.py` | rules, channel and dashboard in SigNoz | apply, prune, ensure, canary | a green apply is the catalog |
| Self-refresh audit, `libs/vault_self_refresh_audit.py` | none between runs | collect, judge | the verdict is about the present |
| Configuration drift, `tools/facet_reconcile.py`, `tools/dokploy_config_drift.py` | none: it reads tags, checkout and Dokploy | fingerprint, compare, page | "in sync" and "drift" are true |
| Unsealer, backups, reports, registries, secrets | none that others share | read, compare, report | their verdict |

How they interact. A push or a workflow calls the runner over HTTP; a runner
thread takes the deployment lock and starts `invoke <service>.sync`, which
talks to Dokploy. `setup-approle`, promotions and previews talk to Dokploy from
processes of their own, and nothing but the composes they share orders them.
Dokploy's queue starts deployments later, from whatever the compose says then.
A release is a tag of infra2: the reconcile computes what it changed and calls
`deploy_v2`, as an operator and an application's request do; `deploy_v2` hands
platform services to the runner and polls it, and applications to
`promote.deploy` or a preview. The probe loop sends to the alert bridge, runs
the resident watchers after its probes, and posts a heartbeat to the watchdog
before and after them; the watchdog alerts on its own channel.

What is hard: read-modify-write of a compose's env by several processes;
deployments that start after the row has changed again; records that may be
somebody else's; steps that fail after the fingerprint was written; a restart
between starting and recording; the cache of answers; refs that move between
the check and the use; a runner that forgets what a client polls; two lists
read one after the other; a delete that is answered well and did nothing;
counters that cover a container's whole life; thresholds, throttles and
fingerprints that must neither lose nor repeat an alert when a send or a save
fails half-way. `PROJECT.json` has them as `hazards`, each at its line.

## The modules

    DeployOperations   what the registry promises its callers (abstract)
    FanOut             which services a revision concerns
    IacRunner          registry, threads, locks, checkout, environments     EXTENDS FanOut
    Dokploy            one compose, its queue and records
    ServiceSync        Deployer.sync beside setup-approle                   EXTENDS Dokploy
    AppPromote         promotions under compose_write_lock                  EXTENDS Dokploy
    AppCompose         an application's compose under both                  INSTANCEs ServiceSync, AppPromote
    DeployRefs         how a ref is read
    DeployContract     which coordinates are accepted                       EXTENDS DeployRefs
    AppRequest         what an application may ask, and its evidence        EXTENDS DeployContract
    Release            jobs: deploy_v2, reconcile, request, client          EXTENDS AppRequest, INSTANCEs DeployOperations
    ProbeRunner        the probe loop
    Watchdog           the worker and the heartbeats it gets
    Preview            preview stacks and their leak check
    ResidentSidecar    breakdown watch and queue guard
    AlertBridge        requests of the bridge, and the other senders
    AlertRules         applies, prunes and canaries of the alert rules
    SelfRefreshAudit   the audit of self-refreshing secrets
    ConfigDrift        fingerprints, and the daily comparison
    Checks             the last six and Watchdog, one in each behaviour     INSTANCEs them
    MC*                instances for TLC;  *Proofs   theorems

**IacRunner.** `inFlight`, `recent` are the two dictionaries; a locked section
of a handler is one action (`Deploy` for the admission, `Store` inside
`Publish` for the answer). `pc` walks a thread through `Acquire`, `CheckOut` or
`CheckOutFails`, `SyncService` for each selected service in any order,
`Finish` or `Raise`, and `Publish`; a waiting handler goes on to `Reply`. The
repository is `Tree[c][s]`, what commit c gives service s. What a task does is
the version it leaves in `live`, which is what the environment's compose holds
in Dokploy: the new one when it returns 0, either when it fails or is killed
(whether the containers follow is `ServiceSync`'s business, whose
`service_sync_stale` shows that they need not). `Names` are the strings that
callers write, and `Strip` takes their blanks off: `KeyOf` strips, the operation
is given the names as they came, and one that is padded is in no task map and
so skipped, while its answer goes under the key of the plain name. `Strand` is
a registration whose thread never starts or fails before its `try`: its key
stays in flight until a restart (`stranded`). `Restart` forgets the process and
keeps checkout and environments. The two locks are one, since the workspace
lock is only ever taken under the deployment lock. `Push` is GitHub's; its
handler is `Webhook`.

**Dokploy.** `row` is the compose (`source`, `env`, `routed`), `queue` the
accepted deployments, `records` the deployments that started, each with the
row it read. `Begin`, `Complete` and `Vanish` are the worker.

**ServiceSync.** One API call is one step, so a read of the env and the write
computed from it are apart. A version stands for both fingerprints of a
config, which are equal exactly when the configs are. `Fail` is every
exception and the runner's time limit. `RotateAwait` ends either way: the poll
of `setup-approle` changes nothing, so what it saw is left open. The compose
exists before `setup-approle` writes, as the code requires.

**AppPromote.** A promoter is one call of `deploy()`, in a process of its own or
together with others (`ProcessOf`). `holder` and `depth` are each process's
reentrant lock; `Reenter` is its second acquisition inside
`update_compose_env`. `raced` is history: a call that is in its section
while a call of another process is, too. `NewRecords` leaves the five seconds
of tolerance for old records open: a record that appeared after the snapshot
may count.

**ProbeRunner.** Time is counted in iterations; an iteration is `Begin`, then
for each group `RunProbes` and for each of its two streams one of `Pass`,
`Withhold`, `Send`, `SendFails`, then `Save` or `SaveFails`. `saved` is the
file, `state` its copy in memory, `told` what the operator was last told and
`spell` how many polls running a stream has had the same failures: the last
two are history, read by properties only. An exception ends the iteration and
loses `state`. Counters saturate at their thresholds, ages at the interval:
the code compares them with nothing larger.

**Watchdog.** The KV store is `beat`, `alert`, `lastRun`; a cron run is
`Check`, `RecordLedger`, then nothing, `Deliver` or `DeliveryFails`,
`RecordAlert` and `Finish`. The loop's two heartbeats are `Iterate` and
`Probed`, and a check may fall between them. A cron run ends within the
iteration in which it starts (in production it takes up to 76 seconds, its
clock being read once at the start, against an age limit of 90 minutes).
Fingerprints of the worker leave the details out, so a set of checks is one.

**Release.** A job of a workflow is an operator's command (`Start`), a
reconcile (`Reconcile`) or a request (`Plan`, then `Plan` again after the
canary). Its `pc` walks through the calls of `deploy_v2`: `Down` for a removal,
`AssertIacRefOnMain` and `ResolveIac` for platform services (the batch path
goes to the second at once), `Trigger` and `Poll` of the runner client,
`ResolveVersion`, `MakeTarget`, `WaitForImages` and `Backend` for applications.
Each is one read or one call, so that refs move in between: `infra` and `app`
are the two repositories, moved by `Advance`, `CutTag` and `MoveApp`. The
registry has an `image` for each tag of the application, published some time
after the tag was cut or cut anew (`Publish`); a release is deployed by its
tag's name, code by its commit (`ByTag`, `ImageNow`), and `pulled` is what came
with it. `recut` are the tags that were cut anew. The runner is `DeployOperations` (`op`), which `IacRunner` is shown to implement;
`RunnerStep` deploys one service of an operation, settles, forgets and loses;
what was deployed before an operation failed or was lost stays. `live` is what
each pinned service was last deployed from. `completed` and `upTo` are history: the operations that
ever completed, and the last tag up to which an environment has had every
release. The refs themselves are in `DeployRefs` (tags with and without a
peeled object), the red lines in `DeployContract`, evidence and policies in
`AppRequest`: three modules of operators without state, as in the code.

**Preview.** A run (`proc`) is an up, a down, a canary, a check or a
remediation, each call of Dokploy or GitHub one step: `Find`, `Create`,
`Configure`, `Deploy`, `Wait`, `Delete`; `List`, `Fetch`, `Reap`. `Fetch` is one
page of the pull requests, and the next; a page that is empty, or a 200 whose
JSON is no list, ends the list as it is (`missed` are the open ones left out),
and an answer that fails makes it unknown. In `Wait` a status that cannot be
read counts as well as one that is good, as in the code. However the
up of a canary ends, `GoTo` turns it into its teardown, which is tried three
times before the canary gives its verdict. `stack` is Dokploy's composes by id;
a create may succeed without its answer. `TakeUp` and `Finish` are Dokploy's
queue, `Turn` opens and closes a pull request. `contested` and `wasClosed` are
history.

**ResidentSidecar.** An iteration is `Watch`, then `Guard` if its interval has
passed, with `Kill` for each stuck deployment and `Recheck` after the grace
period. `state` is the hysteresis of each container and `alerted` the guard's
memory, both lost in `Restart`; `running` are Dokploy's deployments with their
ages. `told`, `lost`, `seen` and `swept` are history.

**AlertBridge.** A request is answered by `Health`, refused or taken by
`Receive`, and sent by `Token` and `Message`, to a Feishu that answers well,
refuses, cannot be read, or gets the message and loses the answer. `Report` is
the two other senders, whose configuration falls back on the bridge's.
`Boot` starts the process in another environment.

**AlertRules.** `EnsureChannel`, `List`, then `Upsert`, `Delete`, `Create` for
each rule of the catalog, `PlanPrune` and `Prune`, `Dashboard`; the canary
creates, looks (`Resolve`) and deletes. Every call may fail before or after its
effect; a 2xx whose body cannot be read is an empty list to the code, so an
apply may not see the rules there are (`unseen`). `Die` ends a job anywhere, `Merge` changes the catalog. The workflow's
concurrency group is a guard of `Start`.

**SelfRefreshAudit.** `world` is the truth of each service; `Break`, `Mend`,
`Restart`, `LogError` and `Tick` move it while the audit collects one service
after the other (`Collect`) and judges (`Judge`). What a fault looks like
through each of the audit's reads is `Observation`: each ssh call of a service
may have no answer by itself (`Losses`), and what that means is different from
call to call. The judgements are operators of that.

**ConfigDrift.** A commit is the content of a service's files and its env;
`Hash` keeps what `Deployer` hashes, in its order. `Sync`, `Promote`, `Rotate`
and `Tamper` write what Dokploy stores (`identity`); a promotion merges, so that
the source and the ref of the sync before it stay beside its own fingerprint.
The daily job is `Checkout`
and, later, `Report`, which enumerates files in its own checkout and reads their
content from the release.

**Checks.** The last six and `Watchdog` share no state with each other, so one
specification has them all: `subject` picks the machine a behaviour is about and the others
stand still. Each keeps its own module, constants and properties; `Checks` only
declares the constants of all seven, assumes of them what each machine assumes,
and names the properties. `MCChecks` gives the constants their values.

## What each run checks

| Run | Bounds | Shows |
|---|---|---|
| `runner` | 3 services (one without a task) and a padded spelling of one, 2 commits, 2 environments, 3 bodies of 2 operations, one waiting, 2 threads | the registry shows exactly what runs or was stranded, a settled operation does not run, a sync is isolated, `completed` means synced, production is touched by registered operations only, the runner implements `DeployOperations`, and every operation whose thread started settles |
| `runner_cached` | the same with 4 bodies of 3 operations | **violated**: a rollback within the cache's TTL is answered `completed` and does nothing |
| `service_sync` | 2 configs, 3 deployments, AppRole, a domain | a reported deployment has begun from the reported config; none without credentials, however `setup-approle` interleaves |
| `service_sync_stale` | the same without a domain, 2 deployments | **violated**: after a failure behind the write of the env, every later sync answers "unchanged" |
| `app_promote` | 3 calls of 2 releases in two jobs, 3 deployments | unless the jobs have the compose at once, nothing mixes two releases, and a call that returns was rolled out; every call that waits for the lock ends |
| `app_promote_jobs` | the same | **violated**: two jobs of different concurrency groups race one compose, and one reports the other's rollout |
| `app_compose` | one promotion, one config, 2 deployments | **violated**: a sync of the application drops the promoted image tag |
| `release` | 2 jobs out of 2 commands, 3 reconciles and 3 requests; 3 commits of main and one beside it, tags 1 to 3, one pull request, one application, 3 pinned services (one in production only, one not there yet), images published after their tags, the application's tag cut anew once, 2 polls | what an application brings to production is the reviewed commit under a staged version, and so are its images unless the tag is cut anew; fixed environments get main; green means completed; releases in order leave no service behind |
| `release_batch` | one job, the reconciles of a branch | **violated**: a ref that is no tag is pinned in a fixed environment |
| `probe_runner` | a liveness and a command probe, with 3 dependency graphs; thresholds 3 and 2, renotify 3 | nothing is held back unexplained, a stable failure is told, file and operator agree, thresholds hold |
| `checks` | see below | thirteen properties of the seven machines of `Checks`, and the types |
| `checks_drift` | the same | **violated**: a service that was synced at the latest release is reported as drifted |

The instances of `checks`: previews with two runs out of nine, a pull request
that turns twice, two branches of one slug, and two stacks left behind, one of
them in the old form of names; the sidecar with one container, one compose,
thresholds of 2, intervals of 2 and remediation on; the bridge with two
requests, two starts and five environments (complete, incomplete, falling back,
blank); the rules with two jobs, a catalog of two that changes once, while a
job is yet to start, three rules that were there before, and five ids; the audit
with an AppRole and a token service beside an application that is not in
production, a window of 1, two troubles, and calls without an answer (none, the
logs, all but the logs); the drift with three commits over a mounted, a shared
and the compose file; the watchdog with one route, throttle 1, age limit 2, a
run every 2, renotify 3, and every fault.

Why the bounds are enough. Two threads, three calls in two processes and one sync beside
one `setup-approle` give every pairwise interleaving, and the retry of a
finished operation as a third. Two versions tell right from wrong content.
Three deployments cover a first one, its redeploy and one of somebody else.
Two jobs of the release flow let one move what the other has checked, and
three tags let a release be skipped. Two previews contend for one name, and a
third would only repeat that. Thresholds of 3 and 2 are the production
defaults; intervals are small numbers in the order that production has
(throttle < age limit, run < renotify). `Requests`, `Names`, `Threads`, `MaxCommit`,
`MaxDeploys`, `Jobs`, `AppMoves`, `Attempts`, `MaxStacks`, `MaxTurns`, `Polls`,
`MaxBoots`, `MaxRules`, `MaxMerges`, `MaxTrouble` and `MaxTrees` are bounds and
named as such where they are declared; nothing else is bounded but the
saturated ages. Two threads and `MaxDeploys` also mean that a request finds no
free thread or a deployment is not accepted: such a caller waits, and nothing
is lost.

Deadlock is checked except in `app_promote`, where every call ends, and in
`checks`, where jobs and requests are used up: there the system really stops.

Fairness. In `IacRunner`, a thread that can go on does, because git, invoke
and the tasks all have time limits (weak fairness), and a thread that waits
for the flock gets it although it is freed and taken again, because the kernel
queues waiters (strong fairness of `Acquire`). In `AppPromote`, a call goes
on, because the API answers or times out and each wait has a deadline; the
lock needs no more, since three calls cannot overtake for ever. A stranded
operation has no thread that could go on: `OperationsSettle` is about the
operations whose thread started. Callers, pushes,
Dokploy's worker, clocks and restarts owe nothing.

## Disagreements found

Six runs are expected to be violated: each asks what a document or a comment
of the repository says, and the counterexample is what the code does. The
`findings` of `PROJECT.json` quote both sides.

1. `runner_cached`: the answer cache is not invalidated by a later deployment.
2. `service_sync_stale`: fingerprints are written before the deployment they vouch for.
3. `app_compose`: applications are not skipped by the runner's syncs.
4. `app_promote_jobs`: the concurrency groups of the two deploying workflows
   differ, and the compose lock is the process's; two jobs race one compose.
5. `release_batch`: the batch path asks neither for a tag nor for main.
6. `checks_drift`: the file set and the env of the daily comparison are those of
   the checkout it runs in, not of the release whose contents it reads.

Seen while modelling, and kept as comments or hazards rather than runs:

* The debounce of the probe loop counts a group's text, not a probe's
  failures: a reading that changes keeps its group's failures from counting.
* A heartbeat whose status flaps is not throttled: about 2880 puts a day
  against the 1000 that `cloudflare/infra-watchdog/README.md` reckons with.
* `facet_reconcile` calls hash drift never transient, and pages for errors of
  the computation with it.
* The breakdown watch resolves an incident with the last breakdown it saw; its
  comment says the original one.
* The canary of the alert rules believes the status of a DELETE, and reads a
  list that failed as one without its rule.
* A SigNoz answer of 200 whose body is no list is an empty list to the apply:
  rules that are there are created again (`unseen`), and to a delete it means
  that the rule is gone.
* Ids of blanks pass `/health`, which asks whether they are empty, while the
  delivery strips them and then refuses for want of an id;
  `HealthyBridgeDelivers` is stated for settings without them.
* A service name padded with blanks has the key of the plain name, but not its
  task (`webhook_server.py:187-191` against `:466` and `:489`): it is skipped, and
  "completed" is then the answer for the plain name, too, until it expires.
  `CompletedMeansSynced` is therefore about the names as the run was given them,
  of which a padded one means no service.
* When `Thread.start()` raises, or the import at `webhook_server.py:263` fails, the
  key stays in `_in_flight_deploys` until the process ends, and every later
  request of the operation is told "in progress" (`stranded`).
* `deploy_contract.py:372` and `:395` call release images immutable. They are
  pulled by their tag, and after the check of the reviewed commit nothing
  compares the two: if the application cuts its tag anew in between, production
  gets the new image. `ProductionIsReviewedAndStaged` says of the image what
  holds as long as it does not.
* `fetch_open_pr_numbers` says None "if it can't be determined", but a 200 that is
  no list, the eleventh page, and a page boundary that moves end the list as it
  is: `FlaggedOnlyWhenClosed` leaves out the pull requests that GitHub's answers
  left out (`missed`).
* A `docker logs` over ssh that has no answer reads as a log without errors,
  unless the refusal itself matches an error pattern
  (`vault_self_refresh_audit.py:999-1005`).
* `--staging-validated` of a production reconcile is taken at its word.

## What is proved

For all values of the constants, under the ASSUMEs of the modules:

* **IacRunnerProofs**: `TypeOK`; `RegistryMatchesThreads`,
  `SettledIsNotRunning`, `SyncIsIsolated`; and `PromiseKept`, the refinement of
  `DeployOperations`. `TypeInv` adds to the types that a syncing thread has a
  commit. `RunInv` adds that whoever is between checkout and publish holds the
  lock, and that a stored answer is terminal; without the first, isolation is
  not inductive, without the second, the refinement would have to map an entry
  to no status. Each step then maps to `Accept`, `Settle`, `Forget`, `Lose` or
  a stutter. `SyncInv` follows an answer back to its sync: a thread that syncs a
  request has that request's commit and has selected every service it means
  that has a task (`SelectionKept`), and a verdict "completed" is earned before
  it is stored (`AnswersEarned`); from it follow `CompletedMeansSynced` and
  `OnlyRegisteredRunsTouchProduction`.
* **ServiceSyncProofs** (over **DokployProofs**): `TypeOK`,
  `DeployedMeansBegun`, `SyncShipsCredentials`. `IInv` says that the row exists
  once a sync has written it, that the credentials it checked stay
  (`CredentialsKept`: `setup-approle` only ever adds them), that the source
  stays the sync's (`ConfigKept`), and `RecordsAreOwn`: as long as the row has
  the sync's fingerprint, every record since its snapshot ran its config. That
  conditional is the heart of it: `setup-approle` may overwrite the env with
  an older fingerprint, and then the sync's own verification fails.
* **AppPromoteProofs**: `TypeOK`, `PromotedRowIsOwn` and
  `PromotedMeansRolledOut`, for any calls in any processes. `LockHeld` ties `at`
  to each process's holder and depth; `RacesKnown` says that calls of two
  processes that have the compose at once are `raced`, so that a call that is
  not is alone in its section (`Alone`), from which the rest follows. For the
  calls that raced it is false: that is `app_promote_jobs`.
* **ReleaseProofs**: all five properties of `release`, for any jobs, tags,
  commits, services, commands and requests. `TypeInv` adds to the types which
  fields a job has at which `pc` (`Phased`). `FlowInv` carries what a job has
  checked to where it uses it: `Reviewed` keeps the evidence of a production
  request, and from `--expected-sha` on the commit, although the tag may be cut
  again; `RunsMain` needs that main only grows and that a tag of infra2 is cut
  once; `Earned` and `CompletedIsKnown` tie green to an operation that did
  complete, whatever the runner forgot since. `ImageInv` follows the images: that
  of a tag that was not cut anew is the tag's commit (`Steady`), and the tag of
  a request that has passed `--expected-sha` still names the reviewed one
  (`Promotes`). `HistoryInv` is the hard one: as
  long as an environment has had every release, only the next one is ever on
  its way there, because the workflow runs one reconcile at a time and an
  answer of the runner is for an older commit or for that reconcile
  (`OnlyTheNext`); each service has the last release's content already or gets
  the next one's (`Current`); and the services a plan leaves out have, between
  neighbouring tags along main, nothing new (`Releases`). `Largest` gives
  `select_iac_ref` its newest tag, from the well-foundedness of inclusion among
  finite sets.
* **ProbeRunnerProofs**: `TypeOK`, `FileSaysWhatWasTold`, `ThresholdsKept`,
  `StableFailureIsTold` and `HeldBackIsExplained`, for any finite set of probes
  and any groups, dependencies and thresholds.
  `KeptInv` holds while nothing was lost: the record a stream goes on from has
  the operator's incident (`Agrees`) and counts no more than there was
  (`Counted`). `WaitInv` holds whatever was lost: failures that stay and were
  not told are counted on their way to the threshold, or the file believes them
  told and its age follows their run to the interval, one behind while the
  iteration has not come to the stream yet (`Late`).
  `HeldBackIsExplained` is about one iteration, but about a walk of any length
  through any graph of dependencies. `Leads` is a recursive function, whose
  equation says nothing before something is shown to satisfy it: `WalkIs`
  exhibits a solution that speaks of explicit ways (`IsWay`) instead of calls,
  so that `CHOOSE` has one to choose. `WalkHasWay` then says that where the walk
  ends well there is a way: of the counterexamples it takes one with the fewest
  probes still to meet, which exists since the probes are finitely many, and one
  step further there would be a smaller one. `UpstreamIs` finds the way again in
  `Upstream`; no probe occurs twice in it, so it is no longer than the number of
  probes, which is what the property asks.
* **ChecksProofs**: `TypeOK` and the thirteen other properties of `checks`, among
  them the action properties `FlapsAreQuiet` and `SameMessageWaits`, for any
  constants that satisfy the assumptions. Each machine has an inductive invariant, one lemma for each of its
  actions, and the step of the composition that leaves it alone.
  - `BridgeInv`: a request that is not answered has no card in the chat, one that
    was answered 202 has its card, a refused one has none (`Told`); and whoever
    was refused with 502, without a fault outside, by the process that runs now,
    was not deliverable with its settings (`Refusals`). Health is about the
    settings of this process only, which is why `boot` is in it.
  - `SidecarInv`: the counters are streaks at the end of what was seen
    (`Streak`), which proves `FlapsAreQuiet`; an incident that is active was told
    or lost; and after a sweep that saw it broken its age is below the interval,
    since the sweep would have repeated it otherwise. The guard kills only what
    it did not alert on lately.
  - `PreviewInv`: what a run remembers of a stack by its id is still so or the
    stack is gone, as ids are not used again (`Linked`); a run about to create
    found no stack, and none was made for its alias since unless the alias is
    contested (`Creates`), which runs that overlap make it (`PairsContested`).
    `ClosedKnown` carries the closing of a pull request to its stacks, and with
    it what a check flags from two lists it read one after the other.
  - `RulesInv`: a rule that a job listed never changes but may be gone
    (`Memory`). A job that has the jobs to itself knows all rules of the alerts
    ahead of it, but those an unreadable list kept from it, and has applied those
    behind it (`Own`); that needs that a rule of the catalog exists once unless a create was doubled (`Once`) and that
    jobs start in turn (`RulesTurns`). `Greens` keeps the result when the job has
    ended, `Heirlooms` what a person made.
  - `AuditInv`: a service that is in trouble, or was within the window, is not
    calm for longer than that (`Lately`), and a note that was taken is behind the
    present by the ticks since, if all calls of the service were answered
    (`AuditSeen`): the audit may be late, by a tick.
  - `DriftInv`: an identity that nobody tampered with is the hash of the tree of
    the commit it names (`Stored`), a promotion's fingerprint in it or not. `LocalHash` is compared with it; a used
    checkout hashes like a fresh one (`HashOfUsed`), and two trees of one hash
    have the same files as far as the checkout enumerates them.
  - `AlertKept` (watchdog): outside of recording, the alert state is what was
    told and is no older than `quiet`, which the comparison of `alert.age` with
    the interval relies on. `SpellKept`: while runs find the same failures that
    the operator was not told, the alert state that says otherwise ages with the
    spell, the time to the next run included, so that it passes the interval
    when the spell does. The faults are not excluded there: a state that says
    "told" wrongly is exactly what they leave behind.

What the constants are assumed to be is written in each module and justified
where it is not plainly a type. Probes and audited services are assumed to be
finitely many, where a length or a number of them is compared. The
catalog of alert rules is not empty and has no name twice, since
`load_alert_definitions` refuses others, and the canary's name has a prefix of
its own. The dependency graphs are arbitrary, cycles included.

Only model-checked: the liveness properties `OperationsSettle` and
`PromotionsEnd`, which need fairness and so are out of the prover's reach. The
runs that expect a violation have counterexamples, and nothing to prove.

## What is not modelled

The texts of answers, logs, alerts and cards, except where a length or a colour
is at stake; how a probe looks at its target; the archive, `/ledger` and
`/status` of the watchdog and the reports made of them; 1Password and Vault
reads, which succeed or fail; the unsealer and the backups; the pool of request
threads, and so a runner whose threads all wait for the lock; the runner's
legacy status query; the puts of a day. The registries, facets and probe
specifications derive constants of the models from declarations. The other
audits read once, compare and report: they keep nothing, and nothing
interleaves with them. `status` in `PROJECT.json` says for each component what
is left out.

Five hazards have no property, each with its reason: the diff base of an
omitted service set, the pool of request threads, the counting by a group's
text, the KV quota, and the queue guard's memory of a compose.

## Plan

Done: the runner with its abstract registry; service sync and Dokploy;
promotions and the two composed; the release flow over the registry's promise;
probe loop, watchdog, resident watchers and bridge; previews, alert rules,
audit and drift; a proof of every safety property. What would come next, in
order of weight:

1. What is left of the guarantees of `ServiceSync` and `AppPromote` when both
   write one compose: invariants of `AppCompose` beside its counterexample, and
   their proofs.
2. What an omitted service set should mean, per environment, as a property of
   `IacRunner` with the selection of `FanOut`.
3. The pool of request threads of the runner, with `wait=true` in it, and the
   liveness of `/health` under it.
4. An alert channel as an abstract specification that `ProbeRunner`,
   `Watchdog` and `ResidentSidecar` implement.
5. Backups and the unsealer.
