------------------------------- MODULE Release -------------------------------
(***************************************************************************)
(* The front door of every deployment: the deploy_v2 command and its two   *)
(* automatic callers, the reconcile of a release tag and the request of an *)
(* application repository, each a job of a workflow.                       *)
(*                                                                         *)
(* A job reads refs, registries and runners one after the other; between   *)
(* two reads main moves, tags are cut or (in the application's repository) *)
(* cut again, images appear, and the IaC runner settles, forgets or loses  *)
(* operations.  What the runner promises is DeployOperations.              *)
(***************************************************************************)
EXTENDS AppRequest

CONSTANTS
  Jobs,        \* runs of workflows, in the order they start
  Commands,    \* deploy_v2 command lines of operators
  Reconciles,  \* dispatches of the reconcile: [after, prod]
  Asked,       \* requests of application repositories
  Touched,     \* the pinned services each commit of infra2 concerns
  AppMoves,    \* bound: how often the application cuts a tag anew
  Attempts     \* bound: polls of the runner, and of the image registry

VARIABLES
  infra,    \* the repository infra2
  app,      \* the application's repository
  image,    \* the commit in the image the registry has under each version tag
  recut,    \* history: the tags the application has cut anew
  op,       \* what the runner answers for each operation
  completed, \* history: operations that have completed
  live,     \* the infra2 commit each pinned service was last deployed from
  job,      \* the state of each job
  upTo      \* history: the last tag up to which an environment has had every
            \* release, in order and with success; NoCommit: no such tag

vars == <<infra, app, image, recut, op, completed, live, job, upTo>>

world == <<infra, app, image, recut>>
backends == <<op, completed, live, upTo>>

Keys == [env : FixedTypes, ref : Commits, services : (SUBSET Pinned) \ {{}}]

Runner == INSTANCE DeployOperations WITH Keys <- Keys

Args == [services : (SUBSET (AppServices \cup Pinned)) \ {{}}, type : DeployTypes, version : Refs,
         iacRef : Refs, expected : Commits \cup {NoCommit}, down : BOOLEAN,
         reviewed : BOOLEAN, validated : BOOLEAN, glass : BOOLEAN, wait : BOOLEAN]

ASSUME ReleaseAssumption ==
  /\ Jobs \subseteq Nat
  /\ MaxCommit >= 2 /\ 1 \in Tags
  /\ AppMoves \in Nat
  /\ Commands \subseteq Args
  /\ Reconciles \subseteq [after : Refs, prod : BOOLEAN]
  /\ Asked \subseteq Requests
  /\ Touched \in [1..MaxCommit -> SUBSET Pinned]
  /\ Attempts \in Nat \ {0}

(* from: the reconcile or the request behind the arguments; code and iac:  *)
(* the commits that version_ref and iac_ref were resolved to; sent: the    *)
(* coordinate has been handed to a backend; pulled: the commit in the      *)
(* images the backend then pulled.                                         *)
Phases == {"idle", "reconcile", "plan", "replan", "down", "onmain", "platform", "batch", "trigger",
           "poll", "resolve", "target", "images", "backend", "green", "red"}

JobStates == [pc : Phases, from : Reconciles \cup Asked \cup {<<>>}, args : Args \cup {<<>>},
              code : Nat, iac : Commits \cup {NoCommit}, tries : 0..Attempts, sent : BOOLEAN,
              pulled : Nat]

NoJob == [pc |-> "idle", from |-> <<>>, args |-> <<>>, code |-> NoCommit, iac |-> NoCommit,
          tries |-> 0, sent |-> FALSE, pulled |-> NoCommit]

Init ==
  /\ infra = [tip |-> 2, tag |-> [v \in Tags |-> IF v = 1 THEN 1 ELSE NoCommit],
              annotated |-> Tags, pull |-> [n \in Pulls |-> NoCommit]]
  /\ app = [tip |-> 1, tag |-> [v \in Tags |-> IF v = 1 THEN 1 ELSE NoCommit],
            annotated |-> {}, pull |-> [n \in Pulls |-> 1]]
  /\ image = [v \in Tags |-> NoCommit]
  /\ recut = {}
  /\ Runner!Init
  /\ completed = {}
  /\ live = [env \in FixedTypes |-> [s \in Pinned |-> 1]]
  /\ job = [j \in Jobs |-> NoJob]
  /\ upTo = [env \in FixedTypes |-> 1]

Step(j, pc)      == job' = [job EXCEPT ![j].pc = pc, ![j].tries = 0]
Begin(j, pc, of) == job' = [job EXCEPT ![j].pc = pc, ![j].from = of]
At(j, pc)        == job[j].pc = pc

IsReconcile(j) == job[j].from # <<>> /\ "after" \in DOMAIN job[j].from
IsRequest(j)   == job[j].from # <<>> /\ "sha" \in DOMAIN job[j].from

(* A failure before anything was sent ends the job, and leaves nothing.    *)
Red(j) == job' = [job EXCEPT ![j] = [NoJob EXCEPT !.pc = "red"]] /\ UNCHANGED backends

-----------------------------------------------------------------------------
(* The release history an environment has had; a deployment that is not    *)
(* the next release in order breaks it, and so does a tag that was not cut *)
(* behind the one before it.                                               *)
CutAlongMain == \A v, w \in Tags : v < w /\ infra.tag[w] # NoCommit => infra.tag[v] < infra.tag[w]

InOrder(j, env) ==
  LET after == job[j].from.after
  IN  /\ IsReconcile(j)
      /\ after.form = "tag"
      /\ upTo[env] # NoCommit
      /\ after.of = upTo[env] + 1
      /\ CutAlongMain

Broken(env) == [upTo EXCEPT ![env] = NoCommit]

Reached(j, env) ==
  IF InOrder(j, env) THEN [upTo EXCEPT ![env] = job[j].from.after.of] ELSE Broken(env)

(* tools/reconcile_iac_inputs.py, in a checkout of the job's own.  The     *)
(* workflow passes the newest earlier tag as --before.                     *)
Before(commit) ==
  LET earlier == {v \in Tags : infra.tag[v] \in 1..(commit - 1)}
  IN  IF earlier = {} THEN NoCommit
      ELSE infra.tag[CHOOSE v \in earlier : \A w \in earlier : w <= v]

\* The diff of the last commit alone.
ChangedByTheLastCommit(before, after) == Touched[after]

(* changed_files_from_git and the fan-out of build_plan.                   *)
Changed(before, after) ==
  UNION {Touched[c] : c \in IF before = NoCommit THEN {after} ELSE before + 1 .. after}

(* build_plan and commands_to_apply: the services of the one environment   *)
(* this run applies.                                                       *)
PlannedServices(selected, prod) ==
  IF prod THEN selected \ NotYetInProd
  ELSE {s \in selected : s \notin ProdOnly \/ s \in NotYetInProd}

(* build_deploy_commands: one command with all the services of the plan.   *)
ReconcileArgs(services, from) ==
  [services |-> services, type |-> IF from.prod THEN "prod" ELSE "staging",
   version |-> from.after, iacRef |-> from.after, expected |-> NoCommit, down |-> FALSE,
   reviewed |-> from.prod, glass |-> FALSE, wait |-> TRUE,
   validated |-> from.prod /\ services \ (ProdOnly \ NotYetInProd) # {}]

(* tools/deploy_v2.py, main: a teardown, a batch of services, or one, and  *)
(* for one the form of iac_ref is asked for before anything is read.       *)
Entry(a) ==
  CASE a.down -> IF EnvOf(a.type) = "preview" THEN "down" ELSE "red"
    [] ~a.down /\ Cardinality(a.services) > 1 -> "batch"
    [] OTHER -> IF IacFormAccepted(a.type, a.iacRef) THEN "onmain" ELSE "red"

Call(j, a) == job' = [job EXCEPT ![j].pc = Entry(a), ![j].args = a]

(* assert_after_on_main: the commit of the tag is an ancestor of main.     *)
AfterOnMain(commit) == OnMain(infra, commit)

(* main: the tag must be on main; then one deploy_v2 command, or nothing   *)
(* to apply.                                                               *)
Reconcile(j) ==
  LET from     == job[j].from
      commit   == ResolveSha(infra, from.after)
      env      == IF from.prod THEN "prod" ELSE "staging"
      services == PlannedServices(Changed(Before(commit), commit), from.prod)
  IN  /\ At(j, "reconcile")
      /\ IF ~AfterOnMain(commit) THEN Red(j)
         ELSE IF services = {}
         THEN /\ Step(j, "green")
              /\ upTo' = Reached(j, env)
              /\ UNCHANGED <<op, completed, live>>
         ELSE /\ Call(j, ReconcileArgs(services, from))
              /\ UNCHANGED backends
      /\ UNCHANGED world

(* tools/app_deploy_request.py: make_plan, in the job that validates the   *)
(* request and again in the one that executes it.  head: the checkout.     *)
Plan(j) ==
  /\ At(j, "plan") \/ At(j, "replan")
  /\ LET q == job[j].from
     IN  \E head \in 1..infra.tip :
           LET ref == SelectIacRef(q.type, infra, head)
           IN  IF ~Authorised(q, app) \/ ref = Ref("tag", NoCommit) THEN Red(j)
               ELSE /\ IF At(j, "plan") THEN Step(j, "replan") ELSE Call(j, PlanArgs(q, ref))
                    /\ UNCHANGED backends
  /\ UNCHANGED world

(* preflight_canary, between the two: the coordinate does not run on a     *)
(* throw-away slot.                                                        *)
CanaryFails(j) ==
  /\ At(j, "replan")
  /\ NeedsCanary(job[j].from)
  /\ Red(j)
  /\ UNCHANGED world

-----------------------------------------------------------------------------
Service(j) == CHOOSE s \in job[j].args.services : TRUE

Down(j) ==
  /\ At(j, "down")
  /\ \/ Step(j, "green") /\ UNCHANGED backends
     \/ Red(j)
  /\ UNCHANGED world

\* Any answer of the comparison will do, "diverged" too.
ComparedSomehow(type, ref) ==
  type \in FixedTypes => ResolveSha(infra, ref) # NoCommit

(* assert_iac_ref_on_main: GitHub compares a fixed environment's iac_ref   *)
(* with main; an answer that does not come is a refusal.  Then the path of *)
(* pinned services, which takes no expected sha, or that of applications.  *)
ComparedOnMain(type, ref) ==
  type \in FixedTypes => OnMain(infra, ResolveSha(infra, ref))

AssertIacRefOnMain(j) ==
  /\ At(j, "onmain")
  /\ LET a == job[j].args
     IN  \/ Red(j)
         \/ /\ ComparedOnMain(a.type, a.iacRef)
            /\ Service(j) \in Pinned => a.expected = NoCommit
            /\ Step(j, IF Service(j) \in Pinned THEN "platform" ELSE "resolve")
            /\ UNCHANGED backends
  /\ UNCHANGED world

(* _deploy_platform and _deploy_platform_batch: the fixed environments     *)
(* only; iac_ref is resolved, and every target checked against the         *)
(* contract and the red lines.                                             *)
PlatformAccepted(a, iac) ==
  /\ a.type \in FixedTypes
  /\ \A s \in a.services : /\ s \in Pinned
                           /\ TargetValid(s, a.type, iac, iac)
                           /\ RedLinesKept(a.type, a.reviewed)

ResolveIac(j) ==
  /\ At(j, "platform") \/ At(j, "batch")
  /\ LET a   == job[j].args
         iac == ResolveSha(infra, a.iacRef)
     IN  \/ Red(j)
         \/ /\ PlatformAccepted(a, iac)
            /\ job' = [job EXCEPT ![j].pc = "trigger", ![j].iac = iac]
            /\ UNCHANGED backends
  /\ UNCHANGED world

KeyOf(j) == [env |-> job[j].args.type, ref |-> job[j].iac, services |-> job[j].args.services]

(* trigger_platform_deploy: the runner takes the operation on, or answers  *)
(* for the one it knows; the answer may be lost.                           *)
Trigger(j) ==
  LET k == KeyOf(j)
  IN  /\ At(j, "trigger")
      /\ \/ Red(j)
         \/ /\ Runner!Accept(k) \/ (op[k] # "not_found" /\ UNCHANGED op)
            /\ \E pc \in {IF job[j].args.wait THEN "poll" ELSE "green", "red"} :
                 /\ job' = [job EXCEPT ![j].pc = pc, ![j].sent = TRUE]
                 /\ upTo' = IF pc = "poll" /\ InOrder(j, k.env) THEN upTo ELSE Broken(k.env)
            /\ UNCHANGED <<completed, live>>
      /\ UNCHANGED world

(* poll_platform_deploy_status: "completed" is success, any other terminal *)
(* answer a failure, and so is a query that fails; an operation that is    *)
(* not there (yet, or any more) is waited for like a running one, until    *)
(* the attempts are used up.                                               *)
NonTerminal == {"in_progress", "not_found"}

\* An operation the runner no longer knows must be done.
SucceededOrForgotten(status) == status \in {"completed", "not_found"}

Succeeded(status) == status = "completed"

\* One attempt too many.
AnotherTryLate(tries) == tries <= Attempts

AnotherTry(tries) == tries + 1 < Attempts

Poll(j) ==
  LET k == KeyOf(j)
  IN  /\ At(j, "poll")
      /\ \/ /\ op[k] \in NonTerminal
            /\ AnotherTry(job[j].tries)
            /\ job' = [job EXCEPT ![j].tries = @ + 1]
            /\ UNCHANGED backends
         \/ /\ Succeeded(op[k])
            /\ Step(j, "green")
            /\ upTo' = Reached(j, k.env)
            /\ UNCHANGED <<op, completed, live>>
         \/ /\ Step(j, "red")
            /\ upTo' = Broken(k.env)
            /\ UNCHANGED <<op, completed, live>>
      /\ UNCHANGED world

-----------------------------------------------------------------------------
\* A tag is what it says.
ExpectedTag(a, code) == a.version.form # "tag" => code = a.expected

(* The application path: _resolve_for_type reads version_ref from the      *)
(* application's repository, and the commit must be the expected one.      *)
ExpectedSha(a, code) == a.expected # NoCommit => code = a.expected

ResolveVersion(j) ==
  /\ At(j, "resolve")
  /\ LET a    == job[j].args
         code == ResolveSha(app, a.version)
     IN  \/ Red(j)
         \/ /\ VersionFormAccepted(a.type, a.version)
            /\ code # NoCommit
            /\ ExpectedSha(a, code)
            /\ job' = [job EXCEPT ![j].pc = "target", ![j].code = code]
            /\ UNCHANGED backends
  /\ UNCHANGED world

(* iac_ref is resolved; the target, the red lines and the staging gate.    *)
MakeTarget(j) ==
  /\ At(j, "target")
  /\ LET a   == job[j].args
         iac == ResolveSha(infra, a.iacRef)
     IN  \/ Red(j)
         \/ /\ TargetValid(Service(j), a.type, job[j].code, iac)
            /\ RedLinesKept(a.type, a.reviewed)
            /\ StagingFirstKept(a.type, a.validated, a.glass)
            /\ Service(j) \in AppServices
            /\ job' = [job EXCEPT ![j].pc = "images", ![j].iac = iac]
            /\ UNCHANGED backends
  /\ UNCHANGED world

(* image_ref, as resolve_image_ref gives it: a release is pulled by its    *)
(* tag, code by its commit, whose image does not change.                   *)
ByTag(j) == job[j].args.version.form = "tag"

ImageNow(j) == IF ByTag(j) THEN image[job[j].args.version.of] ELSE job[j].code

(* _wait_for_image_dependencies: every image of the service answers for    *)
(* image_ref, or the deadline passes; the registry may err.  What it has   *)
(* under a tag is not compared with the commit the tag was resolved to.    *)
WaitForImages(j) ==
  /\ At(j, "images")
  /\ \/ ImageNow(j) # NoCommit /\ Step(j, "backend")
     \/ /\ AnotherTry(job[j].tries)
        /\ job' = [job EXCEPT ![j].tries = @ + 1]
     \/ ~AnotherTry(job[j].tries) /\ Step(j, "red")
  /\ UNCHANGED <<world, backends>>

(* The preview lifecycle or the promotion of the fixed compose takes over  *)
(* and pulls image_ref; whatever it reports, it may have changed it.       *)
Backend(j) ==
  /\ At(j, "backend")
  /\ \/ Step(j, "red")
     \/ /\ EnvOf(job[j].args.type) = "preview" => Service(j) \notin NoPreview
        /\ \E pc \in {"green", "red"} :
             job' = [job EXCEPT ![j].pc = pc, ![j].sent = TRUE, ![j].pulled = ImageNow(j)]
  /\ UNCHANGED <<world, backends>>

-----------------------------------------------------------------------------
(* A workflow starts.  The reconciles are one concurrency group.           *)
Active(j) == job[j].pc \notin {"idle", "green", "red"}

Start(j) ==
  /\ At(j, "idle")
  /\ \A i \in Jobs : i < j => ~At(i, "idle")
  /\ \/ \E a \in Commands : Call(j, a)
     \/ \E r \in Reconciles :
          /\ \A i \in Jobs : Active(i) => ~IsReconcile(i)
          /\ ResolveSha(infra, r.after) # NoCommit
          /\ Begin(j, "reconcile", r)
     \/ \E q \in Asked : Begin(j, "plan", q)
  /\ UNCHANGED <<world, backends>>

Work(j) ==
  \/ Reconcile(j) \/ Plan(j) \/ CanaryFails(j) \/ Down(j)
  \/ AssertIacRefOnMain(j) \/ ResolveIac(j) \/ Trigger(j) \/ Poll(j)
  \/ ResolveVersion(j) \/ MakeTarget(j) \/ WaitForImages(j) \/ Backend(j)

-----------------------------------------------------------------------------
(* The runner deploys the services of an operation one by one; the         *)
(* operation ends, completed with every service deployed, or failed with   *)
(* some of them; its answer is forgotten, or lost with the process, which  *)
(* leaves what was deployed by then.                                       *)
Deployed(k, services) ==
  [live EXCEPT ![k.env] = [s \in Pinned |-> IF s \in services THEN k.ref ELSE @[s]]]

RunnerStep ==
  /\ \E k \in Keys :
       \/ /\ op[k] = "in_progress"
          /\ \E s \in k.services : live' = Deployed(k, {s})
          /\ UNCHANGED <<op, completed>>
       \/ /\ Runner!Settle(k)
          /\ IF op'[k] = "completed"
             THEN completed' = completed \cup {k} /\ live' = Deployed(k, k.services)
             ELSE UNCHANGED <<completed, live>>
       \/ Runner!Forget(k) /\ UNCHANGED <<completed, live>>
       \/ op[k] = "in_progress" /\ Runner!Lose /\ UNCHANGED <<completed, live>>
  /\ UNCHANGED <<world, job, upTo>>

(* A commit reaches main; a release tag is cut at its tip or beside it,    *)
(* once in infra2; the application cuts a tag anew, and publishes the image *)
(* of a tag, which the registry has under the tag's name from then on.     *)
Advance ==
  /\ infra.tip < MaxCommit
  /\ infra' = [infra EXCEPT !.tip = @ + 1]
  /\ UNCHANGED <<app, image, recut>>

CutTag ==
  /\ \E v \in Tags, c \in {infra.tip} \cup Side :
       /\ infra.tag[v] = NoCommit
       /\ v - 1 \in Tags => infra.tag[v - 1] # NoCommit
       /\ infra' = [infra EXCEPT !.tag[v] = c]
  /\ UNCHANGED <<app, image, recut>>

MoveApp ==
  /\ app.tip <= AppMoves
  /\ app.tip < MaxCommit
  /\ \E v \in Tags :
       /\ app.tag[v] # NoCommit
       /\ app' = [app EXCEPT !.tip = @ + 1, !.tag[v] = app.tip + 1]
       /\ recut' = recut \cup {v}
  /\ UNCHANGED <<infra, image>>

Publish ==
  /\ \E v \in Tags :
       /\ image[v] # app.tag[v]
       /\ image' = [image EXCEPT ![v] = app.tag[v]]
  /\ UNCHANGED <<infra, app, recut>>

World == (Advance \/ CutTag \/ MoveApp \/ Publish) /\ UNCHANGED <<backends, job>>

AllDone == /\ \A j \in Jobs : ~Active(j) /\ ~At(j, "idle")
           /\ UNCHANGED vars

Next ==
  \/ \E j \in Jobs : Start(j) \/ Work(j)
  \/ RunnerStep
  \/ World
  \/ AllDone

Spec == Init /\ [][Next]_vars
-----------------------------------------------------------------------------
(* Every variable has its type.                                            *)
TypeOK ==
  /\ infra \in Repos /\ app \in Repos
  /\ image \in [Tags -> Commits \cup {NoCommit}] /\ recut \subseteq Tags
  /\ Runner!OpTypeOK
  /\ completed \subseteq Keys
  /\ live \in [FixedTypes -> [Pinned -> Commits]]
  /\ job \in [Jobs -> JobStates]
  /\ upTo \in [FixedTypes -> Tags \cup {NoCommit}]

(* What the request of an application brings to production is the very     *)
(* commit that was reviewed and merged, under a version_ref that a         *)
(* successful staging run was made for, although the tag may be cut anew   *)
(* between the validation, the canary, the second plan and the resolution  *)
(* (make_plan's evidence, --expected-sha).  The images are pulled by the   *)
(* tag's name, later than that: they hold that commit, too, as long as the *)
(* application does not cut the tag anew; if it does, nothing compares     *)
(* them with it (resolve_image_ref, _wait_for_image_dependencies).         *)
ProductionIsReviewedAndStaged ==
  \A j \in Jobs :
    LET q == job[j].from
    IN  job[j].sent /\ IsRequest(j) /\ q.type = "prod" =>
          /\ q.pull.merged /\ job[j].code = q.pull.merge
          /\ q.staging.good /\ q.staging.version = q.version
          /\ q.version.of \notin recut => job[j].pulled = q.pull.merge

(* A fixed environment gets infra2 commits of main only, by the command of *)
(* one service, by a request and by the reconcile.  (A command line that   *)
(* names several services is not asked where its iac_ref comes from.)      *)
FixedEnvRunsMain ==
  \A j \in Jobs :
    /\ job[j].sent /\ job[j].args.type \in FixedTypes
    /\ Cardinality(job[j].args.services) = 1 \/ job[j].from # <<>>
    => OnMain(infra, job[j].iac)

(* deploy_v2.py on validate_iac_ref_form: "A sha/branch iac_ref can no     *)
(* longer reach a fixed env".                                              *)
FixedEnvPinsATag ==
  \A j \in Jobs :
    job[j].sent /\ job[j].args.type \in FixedTypes => job[j].args.iacRef.form = "tag"

(* A platform job that waited and ended green has seen its operation       *)
(* completed: a runner that lost, forgot or never knew it, and an answer   *)
(* that is not final, are not taken for success.                           *)
GreenMeansCompleted ==
  \A j \in Jobs :
    /\ At(j, "green") /\ job[j].args # <<>>
    /\ job[j].args.services \subseteq Pinned /\ ~job[j].args.down /\ job[j].args.wait
    => KeyOf(j) \in completed

(* A reconcile deploys only the services its tag changed since the one     *)
(* before.  As long as an environment has had every release, in order and  *)
(* each with success, and nothing else, that leaves no service behind: all *)
(* of them run the content of the last release.                            *)
Content(s, commit) == {c \in 1..commit : s \in Touched[c]}

BelongsTo(env) == IF env = "prod" THEN Pinned \ NotYetInProd ELSE Pinned \ (ProdOnly \ NotYetInProd)

InOrderReleasesLeaveNothingBehind ==
  \A env \in FixedTypes :
    /\ upTo[env] # NoCommit
    /\ ~\E j \in Jobs : Active(j) /\ IsReconcile(j)
    => \A s \in BelongsTo(env) : Content(s, live[env][s]) = Content(s, infra.tag[upTo[env]])
=============================================================================
