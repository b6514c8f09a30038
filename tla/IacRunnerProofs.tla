--------------------------- MODULE IacRunnerProofs ---------------------------
(***************************************************************************)
(* Proofs about the IaC runner, for every set of services, environments,   *)
(* requests and threads and every history of main.                         *)
(***************************************************************************)
EXTENDS IacRunner, TLAPS

(* What the checkout selects are names that a task map can be asked for.   *)
LEMMA SelectedType ==
  ASSUME NEW asked \in SUBSET Names,
         NEW before \in Commits \cup {NoCommit},
         NEW after \in Commits, NEW diffOk \in BOOLEAN
  PROVE  Selected(asked, before, after, diffOk) \subseteq Names
BY RunnerAssumption DEF Selected, Tasks, Changed

-----------------------------------------------------------------------------
(* A thread between its checkout and the end of its loop knows its commit. *)
SyncsACommit == \A t \in Threads : pc[t] = "syncing" => commit[t] \in Commits

TypeInv == TypeOK /\ SyncsACommit

LEMMA CommitsType == Commits \subseteq Nat /\ NoCommit \notin Commits /\ 1 \in Commits
BY FanOutAssumption DEF Commits, NoCommit

LEMMA TypeInit == Init => TypeInv
BY FanOutAssumption, RunnerAssumption, CommitsType
DEF Init, TypeInv, TypeOK, SyncsACommit, Replies, NoReply, NoResults, Outcomes, Jobs, NoJob

LEMMA StartType ==
  ASSUME TypeInv, NEW t \in Threads, NEW j \in Jobs, Start(t, j)
  PROVE  /\ pc' \in [Threads -> {"idle", "waiting", "checkout", "syncing",
                                 "publish", "reply"}]
         /\ job' \in [Threads -> Jobs]
         /\ UNCHANGED <<commit, results, verdict>>
         /\ SyncsACommit'
BY DEF Start, TypeInv, TypeOK, SyncsACommit

LEMMA EndType ==
  ASSUME TypeInv, NEW t \in Threads, End(t)
  PROVE  /\ pc' \in [Threads -> {"idle", "waiting", "checkout", "syncing",
                                 "publish", "reply"}]
         /\ job' \in [Threads -> Jobs]
         /\ commit' \in [Threads -> Commits \cup {NoCommit}]
         /\ results' \in [Threads -> [Names -> Outcomes]]
         /\ verdict' \in [Threads -> {"none", "completed", "failed"}]
         /\ SyncsACommit'
BY RunnerAssumption
DEF End, TypeInv, TypeOK, SyncsACommit, Jobs, NoJob, NoResults, Outcomes

LEMMA TypeStep == TypeInv /\ [Next]_vars => TypeInv'
<1> SUFFICES ASSUME TypeInv, [Next]_vars PROVE TypeInv'
  OBVIOUS
<1> USE DEF TypeInv
<1>1. ASSUME NEW t \in Threads, NEW r \in Requests, Deploy(t, r)
      PROVE  TypeInv'
  <2>1. JobOf(r) \in Jobs
    BY RunnerAssumption DEF Jobs, JobOf
  <2>2. KeyOf(r) \in Keys
    BY DEF Keys
  <2>. QED
    BY <1>1, <2>1, <2>2, StartType DEF Deploy, TypeOK, world
<1>2. CASE Push
  BY <1>2, FanOutAssumption DEF Push, TypeOK, SyncsACommit, registry, thread, Commits
<1>3. ASSUME NEW t \in Threads, NEW c \in hooks, Webhook(t, c)
      PROVE  TypeInv'
  <2> DEFINE services == Changed(c - 1, c)
             j == [env |-> Staging, ref |-> NoCommit, asked |-> services, via |-> "push"]
  <2>1. j \in Jobs
    BY RunnerAssumption DEF Jobs, Changed
  <2>2. hooks' \subseteq Commits /\ UNCHANGED <<registry, lock, head, tip, live>>
    BY <1>3 DEF Webhook, TypeOK
  <2>3. CASE Start(t, j)
    BY <2>1, <2>2, <2>3, StartType DEF TypeOK, registry
  <2>4. CASE UNCHANGED thread
    BY <2>2, <2>4 DEF TypeOK, SyncsACommit, registry, thread
  <2>. QED
    BY <1>3, <2>3, <2>4 DEF Webhook
<1>4. ASSUME NEW k \in Keys, Expire(k) PROVE TypeInv'
  BY <1>4 DEF Expire, TypeOK, SyncsACommit, thread, world, Replies, NoReply, NoResults, Outcomes
<1>5. ASSUME NEW t \in Threads, Acquire(t) PROVE TypeInv'
  BY <1>5 DEF Acquire, TypeOK, SyncsACommit, registry, world
<1>6. ASSUME NEW t \in Threads, NEW diffOk \in BOOLEAN, CheckOut(t, diffOk)
      PROVE  TypeInv'
  <2>1. Target(t) \in Commits
    BY <1>6 DEF Target, TypeOK, Jobs
  <2>2. results' \in [Threads -> [Names -> Outcomes]]
    BY <1>6 DEF CheckOut, TypeOK, Outcomes
  <2>. QED
    BY <1>6, <2>1, <2>2 DEF CheckOut, TypeOK, SyncsACommit, registry, world
<1>7. ASSUME NEW t \in Threads, CheckOutFails(t) PROVE TypeInv'
  <2>1. Target(t) \in Commits
    BY <1>7 DEF Target, TypeOK, Jobs
  <2>. QED
    BY <1>7, <2>1 DEF CheckOutFails, Leave, TypeOK, SyncsACommit, registry, world
<1>8. ASSUME NEW t \in Threads, NEW s \in Names, SyncService(t, s)
      PROVE  TypeInv'
  <2>1. PICK outcome \in {"ok", "failed", "skipped"} :
          /\ results' = [results EXCEPT ![t][s] = outcome]
          /\ \/ live' = live
             \/ /\ s \in Services
                /\ live' = [live EXCEPT ![job[t].env][s] = Tree[commit[t]][s]]
    BY <1>8 DEF SyncService, Tasks
  <2>2. s \in Services => Tree[commit[t]][s] \in Versions \cup {Absent}
    BY <1>8, FanOutAssumption DEF SyncService, SyncsACommit
  <2>3. results' \in [Threads -> [Names -> Outcomes]]
    BY <2>1 DEF TypeOK, Outcomes
  <2>4. live' \in [Envs -> [Services -> Versions \cup {Absent}]]
    <3> DEFINE v == Tree[commit[t]][s]
               e == job[t].env
    <3>1. e \in Envs /\ (s \in Services => v \in Versions \cup {Absent})
      BY <2>2 DEF TypeOK, Jobs
    <3>2. s \in Services => [live EXCEPT ![e][s] = v] \in [Envs -> [Services -> Versions \cup {Absent}]]
      <4> HIDE DEF e, v
      <4>. QED  BY <3>1 DEF TypeOK
    <3>. QED
      BY <2>1, <3>2 DEF TypeOK
  <2>. QED
    BY <1>8, <2>3, <2>4 DEF SyncService, TypeOK, SyncsACommit, registry, world
<1>9. ASSUME NEW t \in Threads, Finish(t) PROVE TypeInv'
  BY <1>9 DEF Finish, Leave, Verdict, TypeOK, SyncsACommit, registry, world
<1>10. ASSUME NEW t \in Threads, Raise(t) PROVE TypeInv'
  BY <1>10 DEF Raise, Leave, TypeOK, SyncsACommit, registry, world, NoResults, Outcomes
<1>11. ASSUME NEW t \in Threads, Publish(t) PROVE TypeInv'
  <2>1. [status |-> verdict[t], asked |-> job[t].asked, results |-> results[t]] \in Replies
    BY DEF TypeOK, Replies, Jobs
  <2>2. /\ recent' \in [Keys -> Replies] /\ inFlight' \subseteq Keys
        /\ stranded' \subseteq Keys
    BY <1>11, <2>1 DEF Publish, Store, TypeOK
  <2>3. CASE End(t)
    BY <1>11, <2>2, <2>3, EndType DEF Publish, TypeOK, world
  <2>4. CASE pc' = [pc EXCEPT ![t] = "reply"] /\ UNCHANGED <<job, commit, results, verdict>>
    BY <1>11, <2>2, <2>4 DEF Publish, TypeOK, SyncsACommit, world
  <2>. QED
    BY <1>11, <2>3, <2>4 DEF Publish
<1>12. ASSUME NEW t \in Threads, EndPush(t) \/ Reply(t) PROVE TypeInv'
  BY <1>12, EndType DEF EndPush, Reply, TypeOK, registry, world
<1>13. CASE Restart
  BY <1>13, RunnerAssumption
  DEF Restart, TypeOK, SyncsACommit, world, Replies, NoReply, NoResults, Outcomes, Jobs, NoJob
<1>14. CASE UNCHANGED vars
  BY <1>14 DEF vars, registry, thread, world, TypeOK, SyncsACommit
<1>15. ASSUME NEW r \in Requests, Strand(r) PROVE TypeInv'
  <2>1. KeyOf(r) \in Keys
    BY DEF Keys
  <2>. QED
    BY <1>15, <2>1 DEF Strand, TypeOK, SyncsACommit, thread, world
<1>. QED
  BY <1>15, <1>1, <1>2, <1>3, <1>4, <1>5, <1>6, <1>7, <1>8, <1>9, <1>10, <1>11, <1>12, <1>13, <1>14
  DEF Next, Sync

(* Every reachable state of the runner is of the declared types.           *)
THEOREM TypeCorrect == Spec => []TypeOK
<1>1. Spec => []TypeInv
  BY TypeInit, TypeStep, PTL DEF Spec
<1>. QED
  BY <1>1, PTL DEF TypeInv

-----------------------------------------------------------------------------
(* The inductive invariant.  The deployment lock is held by the thread     *)
(* that checks out or syncs; a thread about to store a response has one;   *)
(* a stored response is terminal.                                          *)
LockHeld == \A t \in Threads : pc[t] \in {"checkout", "syncing"} => lock = t

ResponsesTerminal ==
  /\ \A t \in Threads : pc[t] = "publish" => verdict[t] \in {"completed", "failed"}
  /\ \A k \in Keys : recent[k] # NoReply => recent[k].status \in {"completed", "failed"}

RunInv ==
  /\ LockHeld
  /\ ResponsesTerminal
  /\ RegistryMatchesThreads
  /\ SettledIsNotRunning

(* The steps of the registry's threads that neither start nor end the work *)
(* on an operation.                                                        *)
SameWork == /\ UNCHANGED <<job, inFlight, stranded>>
            /\ \A t \in Threads : Works(t)' <=> Works(t)

LEMMA SameWorkKeepsRegistry ==
  ASSUME RegistryMatchesThreads, SameWork
  PROVE  RegistryMatchesThreads'
<1>1. \A t \in Threads : job'[t] = job[t] /\ KeyOf(job[t])' = KeyOf(job[t])
  BY DEF SameWork, KeyOf
<1>. QED
  BY <1>1 DEF SameWork, RegistryMatchesThreads

LEMMA RunInit == Init => RunInv
BY DEF Init, RunInv, LockHeld, ResponsesTerminal, RegistryMatchesThreads, Works,
       SettledIsNotRunning, NoReply, NoResults

LEMMA RunStep == TypeInv /\ RunInv /\ [Next]_vars => RunInv'
<1> SUFFICES ASSUME TypeInv, RunInv, [Next]_vars PROVE RunInv'
  OBVIOUS
<1> USE DEF TypeInv, RunInv
<1>1. ASSUME NEW t \in Threads, NEW r \in Requests, Deploy(t, r)
      PROVE  RunInv'
  <2>1. /\ KeyOf(r) \notin inFlight /\ recent[KeyOf(r)] = NoReply
        /\ inFlight' = inFlight \cup {KeyOf(r)}
        /\ KeyOf(r) \notin stranded /\ UNCHANGED <<stranded, recent, lock, verdict>>
        /\ pc[t] = "idle" /\ pc' = [pc EXCEPT ![t] = "waiting"]
        /\ job' = [job EXCEPT ![t] = JobOf(r)]
    BY <1>1 DEF Deploy, Admission, Start, world, RegistryMatchesThreads
  <2>2. Works(t)' /\ ~Works(t) /\ KeyOf(job'[t]) = KeyOf(r)
    BY <2>1 DEF Works, KeyOf, JobOf, TypeOK
  <2>3. \A u \in Threads \ {t} : (Works(u)' <=> Works(u)) /\ job'[u] = job[u]
    BY <2>1 DEF Works, TypeOK
  <2>4. RegistryMatchesThreads'
    <3>1. \A u \in Threads : Works(u) => KeyOf(job[u]) # KeyOf(r)
      BY <2>1, Zenon DEF RegistryMatchesThreads
    <3>2. \A u \in Threads : Works(u)' => KeyOf(job'[u]) \in inFlight' \ stranded'
      BY <2>1, <2>2, <2>3 DEF RegistryMatchesThreads
    <3>3. \A k \in inFlight' \ stranded' : \E u \in Threads : Works(u)' /\ KeyOf(job'[u]) = k
      <4>1. ASSUME NEW k \in inFlight \ stranded
            PROVE  \E u \in Threads : Works(u)' /\ KeyOf(job'[u]) = k
        <5>1. PICK u \in Threads : Works(u) /\ KeyOf(job[u]) = k
          BY DEF RegistryMatchesThreads
        <5>. QED
          BY <2>2, <2>3, <5>1
      <4>. QED
        BY <2>1, <2>2, <4>1
    <3>4. \A u, w \in Threads :
            Works(u)' /\ Works(w)' /\ KeyOf(job'[u]) = KeyOf(job'[w]) => u = w
      <4>1. \A u, w \in Threads \ {t} :
              Works(u) /\ Works(w) /\ KeyOf(job[u]) = KeyOf(job[w]) => u = w
        BY DEF RegistryMatchesThreads
      <4>. QED
        BY <2>2, <2>3, <3>1, <4>1
    <3>. QED
      BY <2>1, <3>2, <3>3, <3>4 DEF RegistryMatchesThreads
  <2>5. LockHeld' /\ ResponsesTerminal'
    BY <2>1 DEF LockHeld, ResponsesTerminal, TypeOK
  <2>6. SettledIsNotRunning'
    BY <2>1 DEF SettledIsNotRunning
  <2>. QED
    BY <2>4, <2>5, <2>6
<1>2. CASE Push
  <2>1. SameWork /\ UNCHANGED <<pc, recent, verdict, lock>>
    BY <1>2 DEF Push, registry, thread, SameWork, Works
  <2>. QED
    BY <2>1, SameWorkKeepsRegistry
    DEF LockHeld, ResponsesTerminal, SettledIsNotRunning, SameWork
<1>3. ASSUME NEW t \in Threads, NEW c \in hooks, Webhook(t, c)
      PROVE  RunInv'
  <2>1. UNCHANGED <<inFlight, stranded, recent, lock, verdict>>
    BY <1>3 DEF Webhook, registry, thread, Start
  <2>2. CASE UNCHANGED thread
    <3>1. SameWork /\ UNCHANGED pc
      BY <2>1, <2>2 DEF thread, SameWork, Works
    <3>. QED
      BY <2>1, <3>1, SameWorkKeepsRegistry
      DEF LockHeld, ResponsesTerminal, SettledIsNotRunning
  <2>3. CASE Start(t, [env |-> Staging, ref |-> NoCommit,
                       asked |-> Changed(c - 1, c), via |-> "push"])
    <3>1. /\ pc[t] = "idle" /\ pc' = [pc EXCEPT ![t] = "waiting"]
          /\ job'[t].via = "push" /\ \A u \in Threads \ {t} : job'[u] = job[u]
      BY <2>3 DEF Start, TypeOK
    <3>2. \A u \in Threads : (Works(u)' <=> Works(u)) /\ (Works(u) => job'[u] = job[u])
      BY <3>1 DEF Works, TypeOK
    <3>3. RegistryMatchesThreads'
      BY <2>1, <3>2, Zenon DEF RegistryMatchesThreads
    <3>. QED
      BY <2>1, <3>1, <3>3 DEF LockHeld, ResponsesTerminal, SettledIsNotRunning, TypeOK
  <2>. QED
    BY <1>3, <2>2, <2>3 DEF Webhook
<1>4. ASSUME NEW k \in Keys, Expire(k) PROVE RunInv'
  <2>1. SameWork /\ UNCHANGED <<pc, verdict, lock>>
    BY <1>4 DEF Expire, thread, SameWork, Works
  <2>2. \A j \in Keys : recent'[j] # NoReply => recent[j] # NoReply /\ recent'[j] = recent[j]
    BY <1>4 DEF Expire, TypeOK
  <2>. QED
    BY <2>1, <2>2, SameWorkKeepsRegistry
    DEF LockHeld, ResponsesTerminal, SettledIsNotRunning, SameWork
<1>5. ASSUME NEW t \in Threads, Acquire(t) PROVE RunInv'
  <2>1. SameWork
    BY <1>5 DEF Acquire, registry, SameWork, Works, TypeOK
  <2>2. LockHeld'
    BY <1>5, RunnerAssumption DEF Acquire, LockHeld, TypeOK
  <2>3. ResponsesTerminal' /\ SettledIsNotRunning'
    BY <1>5 DEF Acquire, registry, ResponsesTerminal, SettledIsNotRunning, TypeOK
  <2>. QED
    BY <2>1, <2>2, <2>3, SameWorkKeepsRegistry
<1>6. ASSUME NEW t \in Threads, NEW diffOk \in BOOLEAN, CheckOut(t, diffOk)
      PROVE  RunInv'
  <2>1. SameWork
    BY <1>6 DEF CheckOut, registry, SameWork, Works, TypeOK
  <2>2. LockHeld'
    BY <1>6 DEF CheckOut, LockHeld, TypeOK
  <2>3. ResponsesTerminal' /\ SettledIsNotRunning'
    BY <1>6 DEF CheckOut, registry, ResponsesTerminal, SettledIsNotRunning, TypeOK
  <2>. QED
    BY <2>1, <2>2, <2>3, SameWorkKeepsRegistry
<1>7. ASSUME NEW t \in Threads, NEW v \in {"completed", "failed"},
             pc[t] \in {"checkout", "syncing"}, Leave(t, v)
      PROVE  RunInv'
  <2>1. SameWork
    BY <1>7 DEF Leave, registry, SameWork, Works, TypeOK
  <2>2. LockHeld'
    BY <1>7 DEF Leave, LockHeld, TypeOK
  <2>3. ResponsesTerminal' /\ SettledIsNotRunning'
    BY <1>7 DEF Leave, registry, ResponsesTerminal, SettledIsNotRunning, TypeOK
  <2>. QED
    BY <2>1, <2>2, <2>3, SameWorkKeepsRegistry
<1>8. ASSUME NEW t \in Threads, NEW s \in Names, SyncService(t, s)
      PROVE  RunInv'
  <2>1. SameWork /\ UNCHANGED <<pc, recent, verdict, lock>>
    BY <1>8 DEF SyncService, registry, SameWork, Works
  <2>. QED
    BY <2>1, SameWorkKeepsRegistry
    DEF LockHeld, ResponsesTerminal, SettledIsNotRunning, SameWork
<1>9. ASSUME NEW t \in Threads, CheckOutFails(t) \/ Finish(t) \/ Raise(t)
      PROVE  RunInv'
  BY <1>7, <1>9 DEF CheckOutFails, Finish, Raise, Verdict
<1>10. ASSUME NEW t \in Threads, Publish(t) PROVE RunInv'
  <2> DEFINE k == KeyOf(job[t])
  <2>1. Works(t) /\ k \in inFlight /\ k \notin stranded
    BY <1>10 DEF Publish, Works, RegistryMatchesThreads
  <2>2. \A u \in Threads : u # t /\ Works(u) => KeyOf(job[u]) # k
    BY <2>1 DEF RegistryMatchesThreads
  <2>3. inFlight' = inFlight \ {k} /\ UNCHANGED <<stranded, lock>>
    BY <1>10 DEF Publish, Store
  <2>4. /\ pc'[t] \in {"idle", "reply"}
        /\ \A u \in Threads \ {t} :
             pc'[u] = pc[u] /\ job'[u] = job[u] /\ verdict'[u] = verdict[u]
    BY <1>10 DEF Publish, End, TypeOK
  <2>5. ~Works(t)' /\ \A u \in Threads \ {t} : Works(u)' <=> Works(u)
    BY <2>4 DEF Works
  <2>6. RegistryMatchesThreads'
    BY <2>1, <2>2, <2>3, <2>4, <2>5, Zenon DEF RegistryMatchesThreads
  <2>7. recent' = [recent EXCEPT ![k] = [status |-> verdict[t], asked |-> job[t].asked, results |-> results[t]]]
    BY <1>10 DEF Publish, Store
  <2>8. SettledIsNotRunning'
    BY <2>3, <2>7 DEF SettledIsNotRunning, TypeOK
  <2>9. ResponsesTerminal'
    BY <1>10, <2>4, <2>7 DEF ResponsesTerminal, TypeOK, Publish
  <2>10. LockHeld'
    BY <2>3, <2>4 DEF LockHeld
  <2>. QED
    BY <2>6, <2>8, <2>9, <2>10
<1>11. ASSUME NEW t \in Threads, EndPush(t) \/ Reply(t) PROVE RunInv'
  <2>1. /\ pc'[t] = "idle" /\ ~Works(t) /\ UNCHANGED <<inFlight, stranded, recent, lock>>
        /\ \A u \in Threads \ {t} :
             pc'[u] = pc[u] /\ job'[u] = job[u] /\ verdict'[u] = verdict[u]
    BY <1>11 DEF EndPush, Reply, End, registry, Works, TypeOK
  <2>2. \A u \in Threads : (Works(u)' <=> Works(u)) /\ (Works(u) => job'[u] = job[u])
    BY <2>1 DEF Works
  <2>3. RegistryMatchesThreads'
    BY <2>1, <2>2, Zenon DEF RegistryMatchesThreads
  <2>. QED
    BY <2>1, <2>3 DEF LockHeld, ResponsesTerminal, SettledIsNotRunning
<1>12. CASE Restart
  BY <1>12 DEF Restart, LockHeld, ResponsesTerminal, RegistryMatchesThreads, Works,
               SettledIsNotRunning
<1>13. CASE UNCHANGED vars
  <2>1. SameWork /\ UNCHANGED <<pc, recent, verdict, lock>>
    BY <1>13 DEF vars, registry, thread, SameWork, Works
  <2>. QED
    BY <2>1, SameWorkKeepsRegistry
    DEF LockHeld, ResponsesTerminal, SettledIsNotRunning, SameWork
<1>14. ASSUME NEW r \in Requests, Strand(r) PROVE RunInv'
  <2>1. /\ KeyOf(r) \notin inFlight /\ recent[KeyOf(r)] = NoReply
        /\ inFlight' \ stranded' = inFlight \ stranded
        /\ inFlight' = inFlight \cup {KeyOf(r)}
        /\ stranded' \subseteq inFlight'
        /\ UNCHANGED <<pc, job, recent, lock, verdict>>
    BY <1>14 DEF Strand, Admission, thread, RegistryMatchesThreads
  <2>2. \A u \in Threads : (Works(u)' <=> Works(u)) /\ job'[u] = job[u]
    BY <2>1 DEF Works
  <2>3. RegistryMatchesThreads'
    BY <2>1, <2>2, Zenon DEF RegistryMatchesThreads
  <2>4. SettledIsNotRunning'
    BY <2>1 DEF SettledIsNotRunning
  <2>. QED
    BY <2>1, <2>3, <2>4 DEF LockHeld, ResponsesTerminal
<1>. QED
  BY <1>14, <1>1, <1>2, <1>3, <1>4, <1>5, <1>6, <1>8, <1>9, <1>10, <1>11, <1>12, <1>13
  DEF Next, Sync

LEMMA Invariants == Spec => [](TypeInv /\ RunInv)
BY TypeInit, TypeStep, RunInit, RunStep, PTL DEF Spec

(* No operation ever runs twice at a time, and the registry shows exactly  *)
(* the operations that run.                                                *)
THEOREM RegistryCorrect == Spec => []RegistryMatchesThreads
BY Invariants, PTL DEF RunInv

(* No operation is both settled and running.                               *)
THEOREM SettledCorrect == Spec => []SettledIsNotRunning
BY Invariants, PTL DEF RunInv

-----------------------------------------------------------------------------
(* A sync has the checkout and what it applied to itself.                  *)
LEMMA IsolatedStep ==
  TypeInv /\ RunInv /\ SyncIsIsolated /\ [Next]_vars => SyncIsIsolated'
<1> SUFFICES ASSUME TypeInv, RunInv, SyncIsIsolated, [Next]_vars PROVE SyncIsIsolated'
  OBVIOUS
<1> USE DEF TypeInv, RunInv
<1>1. ASSUME \A u \in Threads : pc'[u] = "syncing" =>
                pc[u] = "syncing" /\ results'[u] = results[u],
             UNCHANGED <<head, live, commit, job>>, lock' = lock
      PROVE  SyncIsIsolated'
  BY <1>1 DEF SyncIsIsolated
<1>2. ASSUME NEW t \in Threads, NEW j, Start(t, j), UNCHANGED <<lock, head, live>>
      PROVE  SyncIsIsolated'
  <2>1. \A u \in Threads : pc'[u] = "syncing" => pc[u] = "syncing" /\ u # t
    BY <1>2 DEF Start, TypeOK
  <2>2. /\ UNCHANGED <<commit, results>>
        /\ \A u \in Threads \ {t} : job'[u] = job[u]
    BY <1>2 DEF Start, TypeOK
  <2>. QED
    BY <1>2, <2>1, <2>2 DEF SyncIsIsolated
<1>3. ASSUME NEW t \in Threads, End(t), pc[t] # "syncing", UNCHANGED <<lock, head, live>>
      PROVE  SyncIsIsolated'
  <2>1. \A u \in Threads : pc'[u] = "syncing" => pc[u] = "syncing" /\ u # t
    BY <1>3 DEF End, TypeOK
  <2>2. \A u \in Threads \ {t} :
          job'[u] = job[u] /\ commit'[u] = commit[u] /\ results'[u] = results[u]
    BY <1>3 DEF End, TypeOK
  <2>. QED
    BY <1>3, <2>1, <2>2 DEF SyncIsIsolated
<1>4. ASSUME NEW t \in Threads, NEW v, pc[t] \in {"checkout", "syncing"}, Leave(t, v)
      PROVE  SyncIsIsolated'
  <2>1. \A u \in Threads : pc'[u] # "syncing"
    BY <1>4 DEF Leave, LockHeld, TypeOK
  <2>. QED
    BY <2>1 DEF SyncIsIsolated
<1>5. ASSUME NEW t \in Threads, NEW r \in Requests, Deploy(t, r)
      PROVE  SyncIsIsolated'
  BY <1>2, <1>5 DEF Deploy
<1>6. CASE Push
  BY <1>1, <1>6 DEF Push, thread
<1>7. ASSUME NEW t \in Threads, NEW c \in hooks, Webhook(t, c)
      PROVE  SyncIsIsolated'
  BY <1>1, <1>2, <1>7 DEF Webhook, thread
<1>8. ASSUME NEW k \in Keys, Expire(k) PROVE SyncIsIsolated'
  BY <1>1, <1>8 DEF Expire, thread
<1>9. ASSUME NEW t \in Threads, Acquire(t) PROVE SyncIsIsolated'
  <2>1. \A u \in Threads : pc'[u] # "syncing"
    BY <1>9, RunnerAssumption DEF Acquire, LockHeld, TypeOK
  <2>. QED
    BY <2>1 DEF SyncIsIsolated
<1>10. ASSUME NEW t \in Threads, NEW diffOk \in BOOLEAN, CheckOut(t, diffOk)
       PROVE  SyncIsIsolated'
  <2>1. \A u \in Threads : pc'[u] = "syncing" => u = t
    BY <1>10 DEF CheckOut, LockHeld, TypeOK
  <2>2. lock' = t /\ head' = commit'[t] /\ \A s \in Services : results'[t][s] # "ok"
    BY <1>10, RunnerAssumption DEF CheckOut, LockHeld, TypeOK
  <2>. QED
    BY <2>1, <2>2 DEF SyncIsIsolated
<1>11. ASSUME NEW t \in Threads, NEW s \in Names, SyncService(t, s)
       PROVE  SyncIsIsolated'
  <2>1. \A u \in Threads : pc[u] = "syncing" => u = t
    BY <1>11 DEF SyncService, LockHeld, TypeOK
  <2>2. PICK outcome \in {"ok", "failed", "skipped"} :
          /\ results' = [results EXCEPT ![t][s] = outcome]
          /\ \/ outcome # "ok" /\ live' = live
             \/ live' = [live EXCEPT ![job[t].env][s] = Tree[commit[t]][s]]
    BY <1>11 DEF SyncService
  <2>3. UNCHANGED <<pc, job, commit, lock, head>> /\ pc[t] = "syncing"
    BY <1>11 DEF SyncService
  <2>4. job[t].env \in Envs
    BY DEF TypeOK, Jobs
  <2>5. ASSUME NEW x \in Services, results'[t][x] = "ok"
        PROVE  live'[job[t].env][x] = Tree[commit[t]][x]
    <3>1. CASE x = s
      BY <2>2, <2>4, <2>5, <3>1 DEF TypeOK
    <3>2. CASE x # s
      <4>1. results[t][x] = "ok"
        BY <2>2, <2>5, <3>2, RunnerAssumption DEF TypeOK
      <4>2. live[job[t].env][x] = Tree[commit[t]][x]
        BY <2>3, <4>1 DEF SyncIsIsolated
      <4>. QED
        BY <2>2, <2>4, <3>2, <4>2 DEF TypeOK
    <3>. QED  BY <3>1, <3>2
  <2>. QED
    BY <2>1, <2>3, <2>5 DEF SyncIsIsolated
<1>12. ASSUME NEW t \in Threads, CheckOutFails(t) \/ Finish(t) \/ Raise(t)
       PROVE  SyncIsIsolated'
  BY <1>4, <1>12 DEF CheckOutFails, Finish, Raise
<1>13. ASSUME NEW t \in Threads, Publish(t) PROVE SyncIsIsolated'
  <2>1. CASE End(t)
    BY <1>3, <1>13, <2>1 DEF Publish
  <2>2. CASE pc' = [pc EXCEPT ![t] = "reply"] /\ UNCHANGED <<job, commit, results, verdict>>
    BY <1>1, <1>13, <2>2 DEF Publish, TypeOK
  <2>. QED
    BY <1>13, <2>1, <2>2 DEF Publish
<1>14. ASSUME NEW t \in Threads, EndPush(t) \/ Reply(t) PROVE SyncIsIsolated'
  BY <1>3, <1>14 DEF EndPush, Reply
<1>15. CASE Restart
  BY <1>15 DEF Restart, SyncIsIsolated
<1>16. CASE UNCHANGED vars
  BY <1>1, <1>16 DEF vars, thread
<1>17. ASSUME NEW r \in Requests, Strand(r) PROVE SyncIsIsolated'
  BY <1>1, <1>17 DEF Strand, thread
<1>. QED
  BY <1>17, <1>5, <1>6, <1>7, <1>8, <1>9, <1>10, <1>11, <1>12, <1>13, <1>14, <1>15, <1>16
  DEF Next, Sync

(* Whatever the interleaving of deployments, pushes, failures and restarts, *)
(* the sync that runs holds the lock, has the checkout it reports and finds *)
(* what it applied still in place.                                          *)
THEOREM IsolationCorrect == Spec => []SyncIsIsolated
<1>1. Init => SyncIsIsolated
  BY DEF Init, SyncIsIsolated
<1>. QED
  BY <1>1, IsolatedStep, Invariants, PTL DEF Spec

-----------------------------------------------------------------------------
(* The registry implements DeployOperations: of the steps of the runner,   *)
(* Deploy and Strand accept an operation, Publish settles it, Expire       *)
(* forgets it, Restart loses all of them, and no other step changes what   *)
(* is answered.                                                            *)
LEMMA StatusQuiet ==
  ASSUME UNCHANGED <<inFlight, recent>>
  PROVE  [k \in Keys |-> Status(k)]' = [k \in Keys |-> Status(k)]
BY DEF Status

LEMMA StatusOfOthers ==
  ASSUME TypeInv, NEW k \in Keys,
         \A j \in Keys \ {k} : recent'[j] = recent[j],
         \A j \in Keys \ {k} : j \in inFlight' <=> j \in inFlight
  PROVE  [j \in Keys |-> Status(j)]' =
           [[j \in Keys |-> Status(j)] EXCEPT ![k] = Status(k)']
BY DEF Status

LEMMA PromiseStep ==
  TypeInv /\ RunInv /\ [Next]_vars
    => [Operations!Next]_([k \in Keys |-> Status(k)])
<1> SUFFICES ASSUME TypeInv, RunInv, [Next]_vars
             PROVE  [Operations!Next]_([k \in Keys |-> Status(k)])
  OBVIOUS
<1> DEFINE op == [k \in Keys |-> Status(k)]
<1> USE DEF TypeInv, RunInv
<1>1. ASSUME UNCHANGED <<inFlight, recent>> PROVE op' = op
  BY <1>1, StatusQuiet
<1>2. ASSUME NEW r \in Requests, Strand(r) \/ \E t \in Threads : Deploy(t, r)
      PROVE  Operations!Accept(KeyOf(r))
  <2>1. KeyOf(r) \in Keys
    BY DEF Keys
  <2>2. /\ KeyOf(r) \notin inFlight /\ recent[KeyOf(r)] = NoReply
        /\ inFlight' = inFlight \cup {KeyOf(r)} /\ recent' = recent
    BY <1>2 DEF Deploy, Strand, Admission
  <2>3. Status(KeyOf(r)) = "not_found" /\ Status(KeyOf(r))' = "in_progress"
    BY <2>2 DEF Status
  <2>4. op' = [op EXCEPT ![KeyOf(r)] = "in_progress"]
    BY <2>1, <2>2, <2>3, StatusOfOthers
  <2>. QED
    BY <2>1, <2>3, <2>4 DEF Operations!Accept
<1>3. ASSUME NEW t \in Threads, Publish(t)
      PROVE  KeyOf(job[t]) \in Keys /\ Operations!Settle(KeyOf(job[t]))
  <2>0. PICK k \in Keys : k = KeyOf(job[t]) /\ k \in inFlight
    BY <1>3 DEF Publish, Works, RegistryMatchesThreads, TypeOK
  <2>1. k \in inFlight /\ k \in Keys /\ recent[k] = NoReply
    BY <2>0 DEF SettledIsNotRunning
  <2>2. verdict[t] \in {"completed", "failed"}
    BY <1>3 DEF Publish, ResponsesTerminal
  <2>3. /\ inFlight' = inFlight \ {k}
        /\ recent' = [recent EXCEPT ![k] = [status |-> verdict[t], asked |-> job[t].asked, results |-> results[t]]]
    BY <1>3, <2>0 DEF Publish, Store
  <2>4. recent'[k] # NoReply /\ recent'[k].status = verdict[t]
    BY <2>1, <2>2, <2>3 DEF TypeOK, NoReply
  <2>5. Status(k) = "in_progress" /\ Status(k)' = verdict[t]
    BY <2>1, <2>4 DEF Status
  <2>6. op' = [op EXCEPT ![k] = verdict[t]]
    <3>1. \A j \in Keys \ {k} : recent'[j] = recent[j]
      BY <2>3 DEF TypeOK
    <3>2. \A j \in Keys \ {k} : j \in inFlight' <=> j \in inFlight
      BY <2>3
    <3>. QED
      BY <2>1, <2>5, <3>1, <3>2, StatusOfOthers
  <2>. QED
    BY <2>0, <2>1, <2>2, <2>5, <2>6 DEF Operations!Settle, Operations!Terminal
<1>4. ASSUME NEW k \in Keys, Expire(k) PROVE Operations!Forget(k)
  <2>1. /\ recent[k] # NoReply /\ recent' = [recent EXCEPT ![k] = NoReply]
        /\ inFlight' = inFlight /\ k \notin inFlight
    BY <1>4 DEF Expire, SettledIsNotRunning
  <2>2. Status(k) \in {"completed", "failed"} /\ Status(k)' = "not_found"
    BY <2>1 DEF Status, ResponsesTerminal, TypeOK
  <2>3. op' = [op EXCEPT ![k] = "not_found"]
    <3>1. \A j \in Keys \ {k} : recent'[j] = recent[j]
      BY <2>1 DEF TypeOK
    <3>. QED
      BY <2>1, <2>2, <3>1, StatusOfOthers
  <2>. QED
    BY <2>2, <2>3 DEF Operations!Forget, Operations!Terminal
<1>5. CASE Restart
  <2>1. inFlight' = {} /\ recent' = [k \in Keys |-> NoReply]
    BY <1>5 DEF Restart
  <2>2. op' = [k \in Keys |-> "not_found"]
    BY <2>1 DEF Status
  <2>. QED
    BY <2>2 DEF Operations!Next, Operations!Lose
<1>6. ASSUME NEW t \in Threads, Sync(t), ~Publish(t) PROVE op' = op
  BY <1>1, <1>6 DEF Sync, Acquire, CheckOut, CheckOutFails, SyncService, Finish, Raise, Leave,
                    EndPush, Reply, registry
<1>7. CASE Push \/ (\E t \in Threads, c \in hooks : Webhook(t, c)) \/ UNCHANGED vars
  BY <1>1, <1>7 DEF Push, Webhook, vars, registry
<1>. QED
  BY <1>2, <1>3, <1>4, <1>5, <1>6, <1>7 DEF Next, Operations!Next, Keys

(* Every behaviour of the runner keeps the promise of DeployOperations.    *)
THEOREM RunnerKeepsPromise == Spec => PromiseKept
<1>1. Init => Operations!Init
  BY DEF Init, Operations!Init, Status
<1>. QED
  BY <1>1, PromiseStep, Invariants, PTL DEF Spec, PromiseKept, Operations!Spec
-----------------------------------------------------------------------------
(* What a stored response, or one that is about to be, says of a run that  *)
(* was given the names asked at ref, and has the results rs.               *)
Says(asked, ref, rs) ==
  /\ \A s \in Meant(asked, ref) : rs[s] = "ok"
  /\ \A n \in Names : rs[n] \notin {"pending", "failed"}

(* A push deploys to staging only, and a request names a commit.           *)
JobsNamed ==
  \A t \in Threads : IF job[t].via = "push" THEN job[t].env = Staging ELSE job[t].ref \in Commits

(* A sync of a request has its commit, has selected no service that the    *)
(* request does not mean, and every one of those that have a task.         *)
SelectionKept ==
  \A t \in Threads : pc[t] = "syncing" /\ job[t].via # "push" =>
    LET k == KeyOf(job[t])
    IN  /\ commit[t] = k.ref
        /\ \A s \in Meant(job[t].asked, k.ref) : results[t][s] \in {"pending", "ok", "failed"}
        /\ \A s \in Services : results[t][s] = "pending" => s \in k.services \/ All \in k.services

AnswersEarned ==
  \A t \in Threads : pc[t] = "publish" /\ job[t].via # "push" /\ verdict[t] = "completed" =>
    Says(job[t].asked, job[t].ref, results[t])

SyncInv == JobsNamed /\ SelectionKept /\ AnswersEarned /\ CompletedMeansSynced

LEMMA SyncInit == Init => SyncInv
BY DEF Init, SyncInv, JobsNamed, SelectionKept, AnswersEarned, CompletedMeansSynced, NoJob, NoReply

(* A step in which no thread comes to sync or to publish.                  *)
LEMMA SyncQuiet ==
  ASSUME SyncInv, recent' = recent,
         \A t \in Threads : \/ job'[t] = job[t]
                            \/ job'[t].via = "push" /\ job'[t].env = Staging
                            \/ job'[t].ref \in Commits /\ job'[t].via # "push",
         \A t \in Threads : pc'[t] \in {"syncing", "publish"} =>
           /\ pc'[t] = pc[t] /\ job'[t] = job[t]
           /\ commit'[t] = commit[t] /\ results'[t] = results[t] /\ verdict'[t] = verdict[t]
  PROVE  SyncInv'
<1>1. JobsNamed'
  BY DEF SyncInv, JobsNamed
<1>2. \A t \in Threads : job'[t] = job[t] => KeyOf(job'[t]) = KeyOf(job[t])
  OBVIOUS
<1>3. SelectionKept'
  BY <1>2 DEF SyncInv, SelectionKept
<1>4. AnswersEarned'
  BY <1>2 DEF SyncInv, AnswersEarned, Says
<1>5. CompletedMeansSynced'
  BY DEF SyncInv, CompletedMeansSynced
<1>. QED  BY <1>1, <1>3, <1>4, <1>5 DEF SyncInv

LEMMA SyncStep == TypeInv /\ RunInv /\ SyncInv /\ [Next]_vars => SyncInv'
<1> SUFFICES ASSUME TypeInv, RunInv, SyncInv, [Next]_vars PROVE SyncInv'
  OBVIOUS
<1> USE DEF TypeInv
<1>1. ASSUME NEW t \in Threads, NEW r \in Requests, Deploy(t, r)
      PROVE  SyncInv'
  BY <1>1, SyncQuiet, RunnerAssumption DEF Deploy, Start, JobOf, TypeOK
<1>2. CASE Push
  BY <1>2, SyncQuiet DEF Push, registry, thread
<1>3. ASSUME NEW t \in Threads, NEW c \in hooks, Webhook(t, c) PROVE SyncInv'
  <2>1. CASE UNCHANGED thread
    BY <1>3, <2>1, SyncQuiet DEF Webhook, registry, thread
  <2>2. CASE Start(t, [env |-> Staging, ref |-> NoCommit, asked |-> Changed(c - 1, c), via |-> "push"])
    BY <1>3, <2>2, SyncQuiet DEF Webhook, Start, registry, TypeOK
  <2>. QED  BY <1>3, <2>1, <2>2 DEF Webhook
<1>4. ASSUME NEW k \in Keys, Expire(k) PROVE SyncInv'
  <2>1. \A j \in Keys : recent'[j] = recent[j] \/ recent'[j].status = "none"
    BY <1>4 DEF Expire, TypeOK, NoReply
  <2>2. JobsNamed' /\ SelectionKept' /\ AnswersEarned'
    BY <1>4 DEF Expire, thread, SyncInv, JobsNamed, SelectionKept, AnswersEarned
  <2>. QED  BY <2>1, <2>2 DEF SyncInv, CompletedMeansSynced
<1>5. ASSUME NEW t \in Threads, Acquire(t) PROVE SyncInv'
  BY <1>5, SyncQuiet DEF Acquire, registry, TypeOK
<1>6. ASSUME NEW t \in Threads, NEW diffOk \in BOOLEAN, CheckOut(t, diffOk) PROVE SyncInv'
  <2> DEFINE k == KeyOf(job[t])
             chosen == Selected(job[t].asked, head, Target(t), diffOk)
  <2>1. UNCHANGED <<job, recent, verdict>> /\ pc' = [pc EXCEPT ![t] = "syncing"]
    BY <1>6 DEF CheckOut, registry
  <2>2. /\ commit'[t] = Target(t)
        /\ \A s \in Names : results'[t][s] = IF s \in chosen THEN "pending" ELSE "unselected"
        /\ \A u \in Threads \ {t} : commit'[u] = commit[u] /\ results'[u] = results[u] /\ pc'[u] = pc[u]
    BY <1>6 DEF CheckOut, TypeOK
  <2>3. ASSUME job[t].via # "push"
        PROVE  /\ commit'[t] = k.ref
               /\ \A s \in Meant(job[t].asked, k.ref) : results'[t][s] \in {"pending", "ok", "failed"}
               /\ \A s \in Services : results'[t][s] = "pending" => s \in k.services \/ All \in k.services
    <3>1. job[t].ref \in Commits /\ Target(t) = job[t].ref /\ k.ref = job[t].ref
      BY <2>3, CommitsType DEF SyncInv, JobsNamed, Target, KeyOf
    <3>2. job[t].asked \subseteq Names
      BY DEF TypeOK, Jobs
    <3>3. Meant(job[t].asked, k.ref) \subseteq chosen
      BY <3>1, <3>2 DEF Meant, Selected
    <3>4. \A s \in chosen \cap Services : s \in k.services \/ All \in k.services
      BY <3>1, <3>2, RunnerAssumption DEF KeyOf, Selected
    <3>5. Meant(job[t].asked, k.ref) \subseteq Names
      BY <3>2, RunnerAssumption DEF Meant, Tasks
    <3>. QED  BY <2>2, <3>1, <3>3, <3>4, <3>5, RunnerAssumption
  <2>4. SelectionKept'
    <3>1. \A u \in Threads : KeyOf(job[u])' = KeyOf(job[u]) /\ job'[u] = job[u]
      BY <2>1
    <3>. QED  BY <2>1, <2>2, <2>3, <3>1 DEF SyncInv, SelectionKept, TypeOK
  <2>5. AnswersEarned'
    BY <2>1, <2>2 DEF SyncInv, AnswersEarned, Says, TypeOK
  <2>6. JobsNamed' /\ CompletedMeansSynced'
    BY <2>1 DEF SyncInv, JobsNamed, CompletedMeansSynced
  <2>. QED  BY <2>4, <2>5, <2>6 DEF SyncInv
<1>7. ASSUME NEW t \in Threads, NEW v \in {"completed", "failed"}, Leave(t, v),
             \A u \in Threads \ {t} : results'[u] = results[u],
             v = "completed" /\ job[t].via # "push" => Says(job[t].asked, job[t].ref, results'[t])
      PROVE  SyncInv'
  <2>1. /\ UNCHANGED <<job, recent, commit>> /\ pc'[t] = "publish" /\ verdict'[t] = v
        /\ \A u \in Threads \ {t} : pc'[u] = pc[u] /\ verdict'[u] = verdict[u]
    BY <1>7 DEF Leave, registry, TypeOK
  <2>2. \A u \in Threads : KeyOf(job[u])' = KeyOf(job[u])
    BY <2>1
  <2>3. SelectionKept'
    BY <1>7, <2>1, <2>2 DEF SyncInv, SelectionKept
  <2>4. AnswersEarned'
    BY <1>7, <2>1, <2>2 DEF SyncInv, AnswersEarned, Says
  <2>5. JobsNamed' /\ CompletedMeansSynced'
    BY <2>1 DEF SyncInv, JobsNamed, CompletedMeansSynced
  <2>. QED  BY <2>3, <2>4, <2>5 DEF SyncInv
<1>8. ASSUME NEW t \in Threads, CheckOutFails(t) \/ Raise(t) PROVE SyncInv'
  <2>1. Leave(t, "failed") /\ \A u \in Threads \ {t} : results'[u] = results[u]
    BY <1>8 DEF CheckOutFails, Raise, TypeOK
  <2>. QED  BY <1>7, <2>1
<1>9. ASSUME NEW t \in Threads, Finish(t) PROVE SyncInv'
  <2>1. Leave(t, Verdict(results[t])) /\ results' = results /\ pc[t] = "syncing"
        /\ \A s \in Names : results[t][s] # "pending"
    BY <1>9 DEF Finish
  <2>2. Verdict(results[t]) \in {"completed", "failed"}
    BY DEF Verdict
  <2>3. ASSUME Verdict(results[t]) = "completed", job[t].via # "push"
        PROVE  Says(job[t].asked, job[t].ref, results[t])
    <3>1. \A s \in Names : results[t][s] # "failed"
      BY <2>3 DEF Verdict
    <3>2. Meant(job[t].asked, job[t].ref) \subseteq Names
      BY RunnerAssumption DEF Meant, Tasks
    <3>3. \A s \in Meant(job[t].asked, job[t].ref) : results[t][s] \in {"pending", "ok", "failed"}
      BY <2>1, <2>3 DEF SyncInv, SelectionKept, KeyOf
    <3>. QED  BY <2>1, <3>1, <3>2, <3>3 DEF Says
  <2>. QED  BY <1>7, <2>1, <2>2, <2>3
<1>10. ASSUME NEW t \in Threads, NEW s \in Names, SyncService(t, s) PROVE SyncInv'
  <2>1. UNCHANGED <<pc, job, commit, verdict, recent>> /\ pc[t] = "syncing"
    BY <1>10 DEF SyncService, registry
  <2>2. PICK outcome : /\ results' = [results EXCEPT ![t][s] = outcome]
                       /\ outcome \in IF s \in Tasks(commit[t]) THEN {"ok", "failed"} ELSE {"skipped"}
    BY <1>10 DEF SyncService
  <2>3. /\ results'[t][s] = outcome
        /\ \A x \in Names \ {s} : results'[t][x] = results[t][x]
        /\ \A u \in Threads \ {t} : results'[u] = results[u]
    BY <2>2 DEF TypeOK
  <2>4. \A u \in Threads : KeyOf(job[u])' = KeyOf(job[u])
    BY <2>1
  <2>5. SelectionKept'
    <3>1. ASSUME NEW u \in Threads, pc[u] = "syncing", job[u].via # "push", u # t
          PROVE  results'[u] = results[u]
      BY <2>3, <3>1
    <3>2. ASSUME job[t].via # "push"
          PROVE  LET k == KeyOf(job[t])
                 IN  /\ \A x \in Meant(job[t].asked, k.ref) : results'[t][x] \in {"pending", "ok", "failed"}
                     /\ \A x \in Services : results'[t][x] = "pending" => x \in k.services \/ All \in k.services
      <4>1. commit[t] = KeyOf(job[t]).ref
        BY <2>1, <3>2 DEF SyncInv, SelectionKept
      <4>2. \A x \in Meant(job[t].asked, KeyOf(job[t]).ref) : x \in Tasks(commit[t]) /\ x \in Names
        BY <4>1, RunnerAssumption DEF Meant, Tasks
      <4>. QED  BY <2>1, <2>2, <2>3, <3>2, <4>1, <4>2, RunnerAssumption DEF SyncInv, SelectionKept
    <3>. QED  BY <2>1, <2>4, <3>1, <3>2 DEF SyncInv, SelectionKept
  <2>6. AnswersEarned'
    BY <2>1, <2>3, <2>4 DEF SyncInv, AnswersEarned, Says
  <2>7. JobsNamed' /\ CompletedMeansSynced'
    BY <2>1 DEF SyncInv, JobsNamed, CompletedMeansSynced
  <2>. QED  BY <2>5, <2>6, <2>7 DEF SyncInv
<1>11. ASSUME NEW t \in Threads, Publish(t) PROVE SyncInv'
  <2> DEFINE k == KeyOf(job[t])
  <2>1. /\ recent' = [recent EXCEPT ![k] = [status |-> verdict[t], asked |-> job[t].asked, results |-> results[t]]]
        /\ pc[t] = "publish" /\ job[t].via # "push"
    BY <1>11 DEF Publish, Store
  <2>2. CompletedMeansSynced'
    <3>1. \A j \in Keys : \/ recent'[j] = recent[j]
                          \/ /\ j = k
                             /\ recent'[j].status = verdict[t]
                             /\ recent'[j].asked = job[t].asked
                             /\ recent'[j].results = results[t]
      BY <2>1 DEF TypeOK
    <3>2. verdict[t] = "completed" => Says(job[t].asked, k.ref, results[t])
      BY <2>1 DEF SyncInv, AnswersEarned, KeyOf
    <3>. QED  BY <3>1, <3>2, Zenon DEF SyncInv, CompletedMeansSynced, Says
  <2>3. /\ \A u \in Threads : pc'[u] \in {"syncing", "publish"} =>
             /\ pc'[u] = pc[u] /\ job'[u] = job[u]
             /\ commit'[u] = commit[u] /\ results'[u] = results[u] /\ verdict'[u] = verdict[u]
        /\ \A u \in Threads : job'[u] = job[u] \/ job'[u] = NoJob
    BY <1>11 DEF Publish, End, TypeOK
  <2>4. \A u \in Threads : job'[u] = job[u] => KeyOf(job'[u]) = KeyOf(job[u])
    OBVIOUS
  <2>5. JobsNamed'
    BY <2>3 DEF SyncInv, JobsNamed, NoJob
  <2>6. SelectionKept'
    BY <2>3, <2>4 DEF SyncInv, SelectionKept
  <2>7. AnswersEarned'
    BY <2>3, <2>4 DEF SyncInv, AnswersEarned, Says
  <2>. QED  BY <2>2, <2>5, <2>6, <2>7 DEF SyncInv
<1>12. ASSUME NEW t \in Threads, EndPush(t) \/ Reply(t) PROVE SyncInv'
  BY <1>12, SyncQuiet DEF EndPush, Reply, End, registry, TypeOK, NoJob
<1>13. CASE Restart
  BY <1>13 DEF Restart, SyncInv, JobsNamed, SelectionKept, AnswersEarned, CompletedMeansSynced, NoJob, NoReply
<1>14. CASE UNCHANGED vars
  BY <1>14, SyncQuiet DEF vars, registry, thread
<1>15. ASSUME NEW r \in Requests, Strand(r) PROVE SyncInv'
  BY <1>15, SyncQuiet DEF Strand, thread
<1>. QED
  BY <1>15, <1>1, <1>2, <1>3, <1>4, <1>5, <1>6, <1>8, <1>9, <1>10, <1>11, <1>12, <1>13, <1>14 DEF Next, Sync

LEMMA SyncInvariant == Spec => []SyncInv
BY SyncInit, SyncStep, Invariants, PTL DEF Spec

(* A stored "completed" stands for a run that synced what was asked for.   *)
THEOREM CompletedCorrect == Spec => []CompletedMeansSynced
BY SyncInvariant, PTL DEF SyncInv

(* Only the sync of a service changes an environment.                      *)
LEMMA ProductionStep ==
  ASSUME TypeInv, RunInv, SyncInv, [Next]_vars,
         NEW e \in Envs \ {Staging}, NEW s \in Services, live'[e][s] # live[e][s]
  PROVE  \E k \in inFlight : /\ k.env = e
                             /\ s \in k.services \/ All \in k.services
                             /\ live'[e][s] = Tree[k.ref][s]
<1> USE DEF TypeInv
<1>1. ASSUME NEW t \in Threads, NEW x \in Names, SyncService(t, x)
      PROVE  \E k \in inFlight : /\ k.env = e
                                 /\ s \in k.services \/ All \in k.services
                                 /\ live'[e][s] = Tree[k.ref][s]
  <2>1. /\ live' = [live EXCEPT ![job[t].env][x] = Tree[commit[t]][x]]
        /\ pc[t] = "syncing" /\ results[t][x] = "pending"
    BY <1>1 DEF SyncService
  <2>2. job[t].env = e /\ x = s /\ live'[e][s] = Tree[commit[t]][s]
    BY <2>1 DEF TypeOK
  <2>3. job[t].via # "push" /\ Works(t)
    BY <2>1, <2>2 DEF SyncInv, JobsNamed, Works
  <2>4. KeyOf(job[t]) \in inFlight /\ KeyOf(job[t]).env = e
    BY <2>2, <2>3 DEF RunInv, RegistryMatchesThreads, KeyOf
  <2>5. commit[t] = KeyOf(job[t]).ref /\ (s \in KeyOf(job[t]).services \/ All \in KeyOf(job[t]).services)
    BY <2>1, <2>2, <2>3 DEF SyncInv, SelectionKept
  <2>. QED  BY <2>2, <2>4, <2>5
<1>2. \E t \in Threads, x \in Names : SyncService(t, x)
  BY DEF Next, Sync, Deploy, Strand, Push, Webhook, Expire, Acquire, CheckOut, CheckOutFails, Finish, Raise, Leave,
         Publish, EndPush, Reply, Restart, world, vars
<1>. QED  BY <1>1, <1>2

(* Nothing but a registered run for it changes production, and only to     *)
(* what its ref says.                                                      *)
THEOREM ProductionCorrect == Spec => OnlyRegisteredRunsTouchProduction
<1>1. TypeInv /\ RunInv /\ SyncInv /\ [Next]_vars =>
        [\A e \in Envs \ {Staging}, s \in Services : live'[e][s] # live[e][s] =>
           \E k \in inFlight : /\ k.env = e
                               /\ s \in k.services \/ All \in k.services
                               /\ live'[e][s] = Tree[k.ref][s]]_vars
  BY ProductionStep
<1>. QED  BY <1>1, Invariants, SyncInvariant, PTL DEF Spec, OnlyRegisteredRunsTouchProduction
=============================================================================
