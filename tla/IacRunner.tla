------------------------------ MODULE IacRunner ------------------------------
(***************************************************************************)
(* The IaC runner of bootstrap/06.iac_runner: webhook_server.py, which     *)
(* keeps the registry of deployment operations, and sync_runner.py, whose  *)
(* threads check a commit out and run `invoke <service>.sync` one service  *)
(* after the other under the deployment lock.                              *)
(*                                                                         *)
(* The registry lives in memory (_in_flight_deploys, _recent_deploys) and  *)
(* is lost by a restart; the checkout is on a host volume and survives.    *)
(* What a sync task does is abstracted to the version of a service whose   *)
(* configuration the environment's compose in Dokploy holds: the checked-  *)
(* out one when it returns 0, the old or the new one when it fails, times  *)
(* out or is killed.  Whether the containers follow is ServiceSync's       *)
(* business.                                                               *)
(*                                                                         *)
(* A request is [env, ref, asked, wait]; asked is "services" as the caller *)
(* spells it, {} stands for a body without it.  The lock protected part of *)
(* a handler is one action.                                                *)
(***************************************************************************)
EXTENDS FanOut

CONSTANTS
  Envs,        \* the environments of /deploy
  Staging,     \* the one a push to main deploys to
  Names,       \* bound: the strings that callers give as services
  Strip,       \* str.strip: the name without the blanks around it
  Requests,    \* bound: the bodies that callers of /deploy send
  Threads,     \* bound: the deployments that wait or run at a time
  Free         \* the deployment lock when nobody holds it

ASSUME RunnerAssumption ==
  /\ Staging \in Envs
  /\ Services \cup {All} \subseteq Names
  /\ Strip \in [Names -> Names]
  /\ \A n \in Services \cup {All} : Strip[n] = n
  /\ Requests \subseteq
       [env : Envs, ref : Commits, asked : SUBSET Names, wait : BOOLEAN]
  /\ Free \notin Threads

(* _normalize_services and _deployment_key: an omitted service set has the *)
(* identity of an explicit ["__all__"], a padded name that of the name.    *)
(* The operation itself is given the names as the caller spelled them.     *)
KeyOf(r) == [env |-> r.env, ref |-> r.ref,
             services |-> IF r.asked = {} THEN {All}
                          ELSE {Strip[n] : n \in r.asked}]

Keys == {KeyOf(r) : r \in Requests}

Outcomes == {"unselected", "pending", "ok", "skipped", "failed"}

NoResults == [n \in Names |-> "unselected"]

(* A stored response: its "status", the names the run was given            *)
(* ("result.requested_services") and the outcome of each ("result.results").*)
Replies == [status : {"none", "completed", "failed"}, asked : SUBSET Names,
            results : [Names -> Outcomes]]

NoReply == [status |-> "none", asked |-> {}, results |-> NoResults]

(* A deployment thread runs a request of /deploy that waits for the result *)
(* or not, or the services of a push.                                      *)
Jobs == [env : Envs, ref : Commits \cup {NoCommit},
         asked : SUBSET Names,
         via : {"async", "wait", "push"}]

NoJob == [env |-> Staging, ref |-> NoCommit, asked |-> {}, via |-> "push"]

VARIABLES
  inFlight,   \* _in_flight_deploys
  stranded,   \* history: the registered operations that got no thread
  recent,     \* _recent_deploys, NoReply where there is no unexpired entry
  pc,         \* where each deployment thread is
  job,        \* what it was started for
  commit,     \* resolved_head of its sync
  results,    \* the outcome of each service in its sync
  verdict,    \* "status" of the response it is about to store
  lock,       \* the thread that holds DEPLOYMENT_LOCK_FILE
  head,       \* HEAD of the checkout in /workspace
  tip,        \* the tip of main on GitHub
  hooks,      \* pushes whose webhook has not been delivered
  live        \* the version each environment's Dokploy holds of each service

registry == <<inFlight, stranded, recent>>
thread   == <<pc, job, commit, results, verdict>>
world    == <<tip, hooks>>
vars     == <<registry, thread, lock, head, world, live>>

-----------------------------------------------------------------------------
Init ==
  /\ inFlight = {}
  /\ stranded = {}
  /\ recent = [k \in Keys |-> NoReply]
  /\ pc = [t \in Threads |-> "idle"]
  /\ job = [t \in Threads |-> NoJob]
  /\ commit = [t \in Threads |-> NoCommit]
  /\ results = [t \in Threads |-> NoResults]
  /\ verdict = [t \in Threads |-> "none"]
  /\ lock = Free
  /\ head = NoCommit
  /\ tip = 1
  /\ hooks = {}
  /\ live = [e \in Envs |-> [s \in Services |-> Absent]]

(* threading.Thread(target=...).start().                                   *)
Start(t, j) ==
  /\ pc[t] = "idle"
  /\ pc' = [pc EXCEPT ![t] = "waiting"]
  /\ job' = [job EXCEPT ![t] = j]
  /\ UNCHANGED <<commit, results, verdict>>

(* The thread ends.                                                        *)
End(t) ==
  /\ pc' = [pc EXCEPT ![t] = "idle"]
  /\ job' = [job EXCEPT ![t] = NoJob]
  /\ commit' = [commit EXCEPT ![t] = NoCommit]
  /\ results' = [results EXCEPT ![t] = NoResults]
  /\ verdict' = [verdict EXCEPT ![t] = "none"]

-----------------------------------------------------------------------------
AdmissionOfRepeats(k) == IF recent[k] # NoReply THEN "cached" ELSE "new"

(* POST /deploy.  The registry decides under _deploy_state_lock: a recent  *)
(* response answers, a running operation answers, or a new one starts.     *)
Admission(k) ==
  IF recent[k] # NoReply THEN "cached"
  ELSE IF k \in inFlight THEN "duplicate"
  ELSE "new"

(* What the operation of a body is started for.                            *)
JobOf(r) == [env |-> r.env, ref |-> r.ref, asked |-> r.asked,
             via |-> IF r.wait THEN "wait" ELSE "async"]

DeployUnnormalized(t, r) ==
  /\ Admission(KeyOf(r)) = "new"
  /\ inFlight' = inFlight \cup {[env |-> r.env, ref |-> r.ref, services |-> r.asked]}
  /\ Start(t, JobOf(r))
  /\ UNCHANGED <<stranded, recent, lock, head, world, live>>

Deploy(t, r) ==
  /\ Admission(KeyOf(r)) = "new"
  /\ inFlight' = inFlight \cup {KeyOf(r)}
  /\ Start(t, JobOf(r))
  /\ UNCHANGED <<stranded, recent, lock, head, world, live>>

(* The operation is registered, but Thread.start raises, or the import     *)
(* that _run_deployment makes outside its try: nobody will settle it.      *)
Strand(r) ==
  /\ Admission(KeyOf(r)) = "new"
  /\ inFlight' = inFlight \cup {KeyOf(r)}
  /\ stranded' = stranded \cup {KeyOf(r)}
  /\ UNCHANGED <<recent, thread, lock, head, world, live>>

(* main moves on GitHub, which queues a webhook delivery.                  *)
Push ==
  /\ tip < MaxCommit
  /\ tip' = tip + 1
  /\ hooks' = hooks \cup {tip'}
  /\ UNCHANGED <<registry, thread, lock, head, live>>

(* POST /webhook for the push of c; a push that concerns no service starts *)
(* no thread.  The thread syncs the tip of main, not c.                    *)
Webhook(t, c) ==
  /\ c \in hooks
  /\ hooks' = hooks \ {c}
  /\ LET services == Changed(c - 1, c)
     IN  IF services = {} THEN UNCHANGED thread
         ELSE Start(t, [env |-> Staging, ref |-> NoCommit,
                        asked |-> services, via |-> "push"])
  /\ UNCHANGED <<registry, lock, head, tip, live>>

(* _recent_result drops an entry older than RECENT_DEPLOY_TTL_SECONDS.     *)
Expire(k) ==
  /\ recent[k] # NoReply
  /\ recent' = [recent EXCEPT ![k] = NoReply]
  /\ UNCHANGED <<inFlight, stranded, thread, lock, head, world, live>>

-----------------------------------------------------------------------------
AcquireUnlocked(t) ==
  /\ pc[t] = "waiting"
  /\ lock' = t
  /\ pc' = [pc EXCEPT ![t] = "checkout"]
  /\ UNCHANGED <<registry, job, commit, results, verdict, head, world, live>>

(* file_lock(DEPLOYMENT_LOCK_FILE).                                        *)
Acquire(t) ==
  /\ pc[t] = "waiting"
  /\ lock = Free
  /\ lock' = t
  /\ pc' = [pc EXCEPT ![t] = "checkout"]
  /\ UNCHANGED <<registry, job, commit, results, verdict, head, world, live>>

(* Leaving sync_services, by a return or by an exception: the flock is     *)
(* released before the response is stored.                                 *)
Leave(t, v) ==
  /\ lock' = Free
  /\ pc' = [pc EXCEPT ![t] = "publish"]
  /\ verdict' = [verdict EXCEPT ![t] = v]
  /\ UNCHANGED <<registry, job, commit, world, live>>

Target(t) == IF job[t].ref = NoCommit THEN tip ELSE job[t].ref

(* update_repo(ref) and the choice of the services to sync.                *)
CheckOut(t, diffOk) ==
  /\ pc[t] = "checkout"
  /\ Target(t) <= tip
  /\ head' = Target(t)
  /\ commit' = [commit EXCEPT ![t] = Target(t)]
  /\ LET chosen == Selected(job[t].asked, head, Target(t), diffOk)
     IN  results' = [results EXCEPT ![t] =
                       [n \in Names |-> IF n \in chosen THEN "pending"
                                        ELSE "unselected"]]
  /\ pc' = [pc EXCEPT ![t] = "syncing"]
  /\ UNCHANGED <<registry, job, verdict, lock, world, live>>

(* A git step fails, times out, or leaves another HEAD than the requested  *)
(* one: before the checkout, after it, or right after the first clone.     *)
CheckOutFails(t) ==
  /\ pc[t] = "checkout"
  /\ head' \in {head} \cup {c \in {Target(t)} : c <= tip}
                      \cup (IF head = NoCommit THEN {tip} ELSE {})
  /\ UNCHANGED results
  /\ Leave(t, "failed")

(* One turn of the loop over the selected names: run_invoke_task, which    *)
(* counts a failure and goes on, or the skip of a name that the task map   *)
(* does not have: a service without a task, or a name with blanks around.  *)
SyncService(t, n) ==
  /\ pc[t] = "syncing"
  /\ results[t][n] = "pending"
  /\ \E outcome \in IF n \in Tasks(commit[t]) THEN {"ok", "failed"}
                    ELSE {"skipped"} :
       /\ results' = [results EXCEPT ![t][n] = outcome]
       /\ LET applied == [live EXCEPT ![job[t].env][n] = Tree[commit[t]][n]]
          IN  \/ outcome # "ok" /\ live' = live
              \/ outcome # "skipped" /\ live' = applied
  /\ UNCHANGED <<registry, pc, job, commit, verdict, lock, head, world>>

VerdictOfAny(rs) == IF \E n \in Names : rs[n] = "ok"
                    THEN "completed" ELSE "failed"

(* SyncResult.success.                                                     *)
Verdict(rs) == IF \E n \in Names : rs[n] = "failed"
               THEN "failed" ELSE "completed"

(* The SyncResult of a loop that ran to its end.                           *)
Finish(t) ==
  /\ pc[t] = "syncing"
  /\ \A n \in Names : results[t][n] # "pending"
  /\ Leave(t, Verdict(results[t]))
  /\ UNCHANGED <<results, head>>

(* An exception ends the loop: _run_deployment answers without a result.   *)
Raise(t) ==
  /\ pc[t] = "syncing"
  /\ results' = [results EXCEPT ![t] = NoResults]
  /\ Leave(t, "failed")
  /\ UNCHANGED head

StoreOnly(k, reply) == /\ recent' = [recent EXCEPT ![k] = reply]
                       /\ UNCHANGED <<inFlight, stranded>>

Store(k, reply) == /\ recent' = [recent EXCEPT ![k] = reply]
                   /\ inFlight' = inFlight \ {k}
                   /\ UNCHANGED stranded

(* The end of _run_deployment: the response is stored and the operation    *)
(* leaves _in_flight_deploys in one critical section.  A thread of a push  *)
(* has nobody to answer.                                                   *)
Publish(t) ==
  /\ pc[t] = "publish"
  /\ job[t].via # "push"
  /\ Store(KeyOf(job[t]), [status |-> verdict[t], asked |-> job[t].asked,
                           results |-> results[t]])
  /\ IF job[t].via = "wait"
     THEN /\ pc' = [pc EXCEPT ![t] = "reply"]
          /\ UNCHANGED <<job, commit, results, verdict>>
     ELSE End(t)
  /\ UNCHANGED <<lock, head, world, live>>

EndPush(t) ==
  /\ pc[t] = "publish"
  /\ job[t].via = "push"
  /\ End(t)
  /\ UNCHANGED <<registry, lock, head, world, live>>

(* A handler that waited reads the stored response, outside the lock.      *)
Reply(t) ==
  /\ pc[t] = "reply"
  /\ End(t)
  /\ UNCHANGED <<registry, lock, head, world, live>>

(* The container restarts: the registry and the threads are gone, the      *)
(* kernel drops the flock, the checkout stays.                             *)
Restart ==
  /\ inFlight' = {}
  /\ stranded' = {}
  /\ recent' = [k \in Keys |-> NoReply]
  /\ pc' = [t \in Threads |-> "idle"]
  /\ job' = [t \in Threads |-> NoJob]
  /\ commit' = [t \in Threads |-> NoCommit]
  /\ results' = [t \in Threads |-> NoResults]
  /\ verdict' = [t \in Threads |-> "none"]
  /\ lock' = Free
  /\ UNCHANGED <<head, world, live>>

Sync(t) ==
  \/ Acquire(t)
  \/ \E diffOk \in BOOLEAN : CheckOut(t, diffOk)
  \/ CheckOutFails(t)
  \/ \E n \in Names : SyncService(t, n)
  \/ Finish(t)
  \/ Raise(t)
  \/ Publish(t)
  \/ EndPush(t)
  \/ Reply(t)

Next ==
  \/ \E t \in Threads, r \in Requests : Deploy(t, r)
  \/ \E r \in Requests : Strand(r)
  \/ Push
  \/ \E t \in Threads, c \in hooks : Webhook(t, c)
  \/ \E k \in Keys : Expire(k)
  \/ \E t \in Threads : Sync(t)
  \/ Restart

Spec == Init /\ [][Next]_vars

(* Every step of a deployment has a time limit (git, invoke, the tasks),   *)
(* so a thread that can go on does; the kernel serves the waiters of a     *)
(* flock, so a thread that waits while the lock is freed again and again   *)
(* gets it.  Callers, GitHub, the clock and restarts owe nothing.          *)
FairSpec ==
  /\ Spec
  /\ \A t \in Threads : WF_vars(pc[t] # "waiting" /\ Sync(t)) /\ SF_vars(Acquire(t))

-----------------------------------------------------------------------------
(* POST /deploy/status with env, ref and services.                         *)
Status(k) ==
  IF recent[k] # NoReply THEN recent[k].status
  ELSE IF k \in inFlight THEN "in_progress"
  ELSE "not_found"

(* The values the state of the runner takes.                               *)
TypeOK ==
  /\ inFlight \subseteq Keys
  /\ stranded \subseteq Keys
  /\ recent \in [Keys -> Replies]
  /\ pc \in [Threads -> {"idle", "waiting", "checkout", "syncing",
                         "publish", "reply"}]
  /\ job \in [Threads -> Jobs]
  /\ commit \in [Threads -> Commits \cup {NoCommit}]
  /\ results \in [Threads -> [Names -> Outcomes]]
  /\ verdict \in [Threads -> {"none", "completed", "failed"}]
  /\ lock \in Threads \cup {Free}
  /\ head \in Commits \cup {NoCommit}
  /\ tip \in Commits
  /\ hooks \subseteq Commits
  /\ live \in [Envs -> [Services -> Versions \cup {Absent}]]

(* A thread that works on a registered operation (its response is not      *)
(* stored yet).                                                            *)
Works(t) == pc[t] \notin {"idle", "reply"} /\ job[t].via # "push"

(* No operation runs twice at a time, and the registry shows exactly the   *)
(* operations that run: a key left behind would answer "in progress" for   *)
(* ever, a key dropped early would let a second run start.  The one way to *)
(* leave a key behind is a thread that never started, and then none comes. *)
RegistryMatchesThreads ==
  /\ stranded \subseteq inFlight
  /\ \A t \in Threads : Works(t) => KeyOf(job[t]) \in inFlight \ stranded
  /\ \A k \in inFlight \ stranded : \E t \in Threads : Works(t) /\ KeyOf(job[t]) = k
  /\ \A t, u \in Threads : Works(t) /\ Works(u) /\ KeyOf(job[t]) = KeyOf(job[u])
                           => t = u

(* A settled operation is not running, so /deploy/status never has to      *)
(* choose between a stored response and a run in progress.                 *)
SettledIsNotRunning == \A k \in Keys : recent[k] # NoReply => k \notin inFlight

(* While a sync runs its services it alone holds the deployment lock, the  *)
(* checkout is the commit it reports, and what it already applied is still *)
(* what its environment runs.                                              *)
SyncIsIsolated ==
  \A t \in Threads : pc[t] = "syncing" =>
    /\ lock = t
    /\ head = commit[t]
    /\ \A s \in Services : results[t][s] = "ok" =>
         live[job[t].env][s] = Tree[commit[t]][s]

(* The services that a list of names means to a run that is given it, at   *)
(* the commit it checks out; a list that names none means the difference.  *)
Meant(asked, c) == IF All \in asked THEN Tasks(c) ELSE asked \cap Tasks(c)

(* A stored "completed" stands for a run that synced every service which   *)
(* has a task at the requested ref and which the names it was given mean,  *)
(* and in which nothing failed.  It speaks of the names as that run's      *)
(* caller spelled them: one who spells them otherwise under the same key   *)
(* is answered from it too.                                                *)
CompletedMeansSynced ==
  \A k \in Keys : recent[k].status = "completed" =>
    /\ \A s \in Meant(recent[k].asked, k.ref) : recent[k].results[s] = "ok"
    /\ \A n \in Names : recent[k].results[n] \notin {"pending", "failed"}

(* Nothing changes an environment other than staging but an operation that *)
(* the registry shows as running for it, to a version of the ref it names: *)
(* pushes stay out, and so does a run whose operation was declared settled. *)
OnlyRegisteredRunsTouchProduction ==
  [][\A e \in Envs \ {Staging}, s \in Services : live'[e][s] # live[e][s] =>
       \E k \in inFlight : /\ k.env = e
                           /\ s \in k.services \/ All \in k.services
                           /\ live'[e][s] = Tree[k.ref][s]]_vars

(* The registry keeps the promise made to its callers.                     *)
Operations == INSTANCE DeployOperations WITH op <- [k \in Keys |-> Status(k)]

PromiseKept == Operations!Spec

(* An operation that was taken on, and whose thread did start, does not    *)
(* stay in progress for ever.                                              *)
OperationsSettle ==
  \A k \in Keys : k \in inFlight \ stranded ~> k \notin inFlight

(* README.md of the runner: /deploy "checks out that exact SHA and runs    *)
(* each selected invoke {service}.sync".  When nothing is being deployed,  *)
(* a /deploy that would be answered "completed" from _recent_deploys       *)
(* therefore finds its environment at the ref it names.                    *)
CachedAnswerIsCurrent ==
  (\A t \in Threads : pc[t] = "idle") =>
    \A k \in Keys : recent[k].status = "completed" =>
      \A s \in Meant(recent[k].asked, k.ref) : live[k.env][s] = Tree[k.ref][s]
=============================================================================
