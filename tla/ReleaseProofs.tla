---------------------------- MODULE ReleaseProofs ----------------------------
(***************************************************************************)
(* Proofs about the release flow, for any services, commits, tags, command *)
(* lines, requests and number of jobs.                                     *)
(***************************************************************************)
EXTENDS Release, FiniteSetTheorems, TLAPS

LEMMA CommitsType == Commits \subseteq Nat \ {0} /\ 1..MaxCommit \subseteq Commits /\ NoCommit \notin Commits
BY RefsAssumption DEF Commits, NoCommit

(* A finite set of numbers has a largest one: select_iac_ref finds a tag.  *)
LEMMA Largest ==
  ASSUME NEW T, T \subseteq Nat, IsFiniteSet(T), T # {}
  PROVE  \E x \in T : \A y \in T : y <= x
<1> DEFINE Above(x) == {y \in T : y > x}
           family   == {Above(x) : x \in T}
<1>1. IsWellFoundedOn(StrictSubsetOrdering(T), SUBSET T)
  BY FS_StrictSubsetOrderingWellFounded, FS_FiniteSubsetsOfFinite
<1>2. family \subseteq SUBSET T /\ family # {}
  OBVIOUS
<1>3. \E F \in family : \A G \in family : ~(<<G, F>> \in StrictSubsetOrdering(T))
  <2> DEFINE R == StrictSubsetOrdering(T)
             S == SUBSET T
  <2> HIDE DEF family, R, S
  <2>1. IsWellFoundedOn(R, S) /\ family \subseteq S /\ family # {}
    BY <1>1, <1>2 DEF R, S
  <2>2. \E F \in family : \A G \in family : ~(<<G, F>> \in R)
    BY <2>1, WFMin
  <2>. QED  BY <2>2 DEF R
<1>4. PICK x \in T : \A G \in family : <<G, Above(x)>> \notin StrictSubsetOrdering(T)
  BY <1>3
<1>5. ASSUME NEW y \in T, y > x PROVE FALSE
  <2>1. Above(y) \in family
    OBVIOUS
  <2>2. (\A z \in T : z > y => z > x) /\ ~(y > y)
    BY <1>5
  <2>3. Above(y) \subseteq Above(x) /\ y \in Above(x) /\ y \notin Above(y)
    BY <1>5, <2>2, Zenon
  <2>4. <<Above(y), Above(x)>> \in StrictSubsetOrdering(T)
    BY <2>3 DEF StrictSubsetOrdering
  <2>. QED  BY <1>4, <2>1, <2>4
<1>. QED  BY <1>5

(* What a ref is resolved to.                                              *)
LEMMA TagShaIs ==
  ASSUME NEW repo \in Repos, NEW v
  PROVE  TagSha(repo, v) = IF v \in Tags THEN repo.tag[v] ELSE NoCommit
<1>1. CASE v \notin Tags \/ repo.tag[v] = NoCommit
  BY <1>1 DEF TagSha, TagRows
<1>2. CASE v \in Tags /\ repo.tag[v] # NoCommit /\ v \in repo.annotated
  <2> DEFINE object == [sha |-> -v, peeled |-> FALSE]
             commit == [sha |-> repo.tag[v], peeled |-> TRUE]
  <2>1. TagRows(repo, v) = {object, commit}
    BY <1>2 DEF TagRows
  <2>2. {r \in {object, commit} : r.peeled} = {commit}
    OBVIOUS
  <2>3. (CHOOSE r \in {commit} : TRUE) = commit
    OBVIOUS
  <2>. QED  BY <1>2, <2>1, <2>2, <2>3 DEF TagSha
<1>3. CASE v \in Tags /\ repo.tag[v] # NoCommit /\ v \notin repo.annotated
  <2> DEFINE commit == [sha |-> repo.tag[v], peeled |-> FALSE]
  <2>1. TagRows(repo, v) = {commit}
    BY <1>3 DEF TagRows
  <2>2. {r \in {commit} : r.peeled} = {}
    OBVIOUS
  <2>3. (CHOOSE r \in {commit} : TRUE) = commit
    OBVIOUS
  <2>. QED  BY <1>3, <2>1, <2>2, <2>3 DEF TagSha
<1>. QED  BY <1>1, <1>2, <1>3

LEMMA ResolveShaType ==
  ASSUME NEW repo \in Repos, NEW ref \in Refs
  PROVE  /\ ResolveSha(repo, ref) \in Nat
         /\ ref.form = "tag" => /\ ResolveSha(repo, ref) \in Commits \cup {NoCommit}
                                /\ ResolveSha(repo, ref) # NoCommit => ref.of \in Tags
                                /\ ref.of \in Tags => ResolveSha(repo, ref) = repo.tag[ref.of]
BY TagShaIs, CommitsType, RefsAssumption DEF ResolveSha, Refs, Repos, NoCommit

(* Where a service belongs is one of the services of the arguments.        *)
LEMMA ServiceOf ==
  ASSUME NEW j, job[j].args.services # {}
  PROVE  Service(j) \in job[j].args.services
BY DEF Service

LEMMA EntryIs ==
  ASSUME NEW a \in Args
  PROVE  /\ a.down => Entry(a) = IF EnvOf(a.type) = "preview" THEN "down" ELSE "red"
         /\ ~a.down /\ Cardinality(a.services) > 1 => Entry(a) = "batch"
         /\ ~a.down /\ ~(Cardinality(a.services) > 1) =>
              Entry(a) = IF IacFormAccepted(a.type, a.iacRef) THEN "onmain" ELSE "red"
BY DEF Entry

-----------------------------------------------------------------------------
(* Which job comes from what.                                              *)
LEMMA FromIs ==
  ASSUME NEW j, job[j].from \in Reconciles \cup Asked \cup {<<>>}
  PROVE  /\ job[j].from \in Reconciles <=> IsReconcile(j)
         /\ job[j].from \in Asked <=> IsRequest(j)
         /\ job[j].from = <<>> <=> ~IsReconcile(j) /\ ~IsRequest(j)
         /\ ~(IsReconcile(j) /\ IsRequest(j))
<1>1. \A r \in Reconciles : r # <<>> /\ "after" \in DOMAIN r /\ "sha" \notin DOMAIN r
  BY ReleaseAssumption
<1>2. \A q \in Asked : q # <<>> /\ "sha" \in DOMAIN q /\ "after" \notin DOMAIN q
  BY ReleaseAssumption DEF Requests
<1>. QED  BY <1>1, <1>2 DEF IsReconcile, IsRequest

(* The release tag of a plan.                                              *)
LEMMA SelectIacRefType ==
  ASSUME infra \in Repos, NEW type, NEW head
  PROVE  SelectIacRef(type, infra, head) \in Refs
<1> DEFINE merged == MergedTags(infra, head)
<1>1. merged \subseteq Nat /\ IsFiniteSet(merged)
  BY RefsAssumption, FS_Subset DEF MergedTags
<1>2. merged # {} => (CHOOSE v \in merged : \A w \in merged : w <= v) \in Nat
  <2> HIDE DEF merged
  <2>. QED  BY <1>1, Largest
<1>. QED  BY <1>2 DEF SelectIacRef, MainBranch, Ref, Refs, NoCommit

LEMMA PlanArgsType ==
  ASSUME NEW q \in Asked, NEW ref \in Refs
  PROVE  PlanArgs(q, ref) \in Args
<1>1. q \in Requests /\ FixedTypes \subseteq DeployTypes
  BY ReleaseAssumption DEF DeployTypes
<1>2. /\ {q.service} \in (SUBSET (AppServices \cup Pinned)) \ {{}}
      /\ q.type \in DeployTypes /\ q.version \in Refs /\ q.remove \in BOOLEAN
      /\ (IF q.remove THEN NoCommit ELSE q.sha) \in Commits \cup {NoCommit}
  BY <1>1 DEF Requests
<1>3. (q.type = "prod") \in BOOLEAN
  OBVIOUS
<1>. QED  BY <1>2, <1>3, Zenon DEF PlanArgs, Args

(* The tag before a release is an earlier commit of main.                  *)
LEMMA BeforeIs ==
  ASSUME infra \in Repos, NEW commit \in 1..MaxCommit
  PROVE  LET earlier == {v \in Tags : infra.tag[v] \in 1..(commit - 1)}
         IN  IF earlier = {} THEN Before(commit) = NoCommit
             ELSE \E v \in earlier : /\ \A w \in earlier : w <= v
                                     /\ Before(commit) = infra.tag[v]
<1> DEFINE earlier == {v \in Tags : infra.tag[v] \in 1..(commit - 1)}
           last == CHOOSE v \in earlier : \A w \in earlier : w <= v
<1>1. earlier \subseteq Nat /\ IsFiniteSet(earlier)
  BY RefsAssumption, FS_Subset
<1>2. earlier # {} => last \in earlier /\ \A w \in earlier : w <= last
  <2> HIDE DEF earlier
  <2>. QED  BY <1>1, Largest
<1>3. Before(commit) = IF earlier = {} THEN NoCommit ELSE infra.tag[last]
  BY DEF Before
<1> HIDE DEF earlier, last
<1>4. IF earlier = {} THEN Before(commit) = NoCommit
      ELSE \E v \in earlier : (\A w \in earlier : w <= v) /\ Before(commit) = infra.tag[v]
  BY <1>2, <1>3
<1>. QED  BY <1>4 DEF earlier

(* The services of a release.                                              *)
LEMMA PlannedType ==
  ASSUME infra \in Repos, NEW commit, OnMain(infra, commit), NEW prod \in BOOLEAN
  PROVE  PlannedServices(Changed(Before(commit), commit), prod) \subseteq Pinned
<1>1. commit \in 1..MaxCommit
  BY RefsAssumption DEF OnMain, Repos
<1>2. Before(commit) = NoCommit \/ Before(commit) \in 1..(commit - 1)
  BY <1>1, BeforeIs
<1>3. Before(commit) # NoCommit => \A c \in Before(commit) + 1 .. commit : c \in 1..MaxCommit
  BY <1>1, <1>2, RefsAssumption
<1>. QED  BY <1>1, <1>3, ReleaseAssumption DEF Changed, PlannedServices

LEMMA ReconcileArgsType ==
  ASSUME NEW services \in (SUBSET Pinned) \ {{}}, NEW from \in Reconciles
  PROVE  ReconcileArgs(services, from) \in Args
<1>1. from.after \in Refs /\ from.prod \in BOOLEAN
  BY ReleaseAssumption
<1>2. (from.prod /\ services \ (ProdOnly \ NotYetInProd) # {}) \in BOOLEAN
  OBVIOUS
<1>3. (IF from.prod THEN "prod" ELSE "staging") \in DeployTypes
  BY DEF DeployTypes, FixedTypes
<1>. QED  BY <1>1, <1>2, <1>3, Zenon DEF ReconcileArgs, Args

-----------------------------------------------------------------------------
(* Every variable has its type.  Phased: what a job has in each phase.     *)
Early == {"idle", "reconcile", "plan", "replan"}

Phased(j) ==
  /\ At(j, "idle") => job[j] = NoJob
  /\ job[j].pc \in Early => job[j].args = <<>> /\ ~job[j].sent
  /\ job[j].pc \notin Early \cup {"green", "red"} => job[j].args \in Args
  /\ job[j].sent => job[j].args \in Args
  /\ At(j, "reconcile") => job[j].from \in Reconciles
  /\ At(j, "plan") \/ At(j, "replan") => job[j].from \in Asked
  /\ IsReconcile(j) /\ job[j].from.after.form = "tag" => job[j].from.after.of \in Tags
  /\ At(j, "down") => job[j].args.down
  /\ At(j, "trigger") \/ At(j, "poll") => KeyOf(j) \in Keys
  /\ At(j, "images") \/ At(j, "backend") => Service(j) \in AppServices
  /\ job[j].pc \in {"target", "images", "backend"} /\ ByTag(j) => job[j].args.version.of \in Tags

TypeInv == TypeOK /\ \A j \in Jobs : Phased(j)

LEMMA TypeInit == Init => TypeInv
<1> SUFFICES ASSUME Init PROVE TypeInv
  OBVIOUS
<1>1. infra \in Repos /\ app \in Repos
  BY RefsAssumption, CommitsType, ReleaseAssumption DEF Init, Repos, Commits, NoCommit
<1>2. job \in [Jobs -> JobStates]
  BY ReleaseAssumption DEF Init, NoJob, JobStates, Phases, NoCommit
<1>3. live \in [FixedTypes -> [Pinned -> Commits]] /\ upTo \in [FixedTypes -> Tags \cup {NoCommit}]
  BY CommitsType, RefsAssumption, ReleaseAssumption DEF Init
<1>4. Runner!OpTypeOK /\ completed \subseteq Keys
      /\ image \in [Tags -> Commits \cup {NoCommit}] /\ recut \subseteq Tags
  BY DEF Init, Runner!Init, Runner!OpTypeOK
<1>5. ASSUME NEW j \in Jobs PROVE Phased(j)
  BY <1>2, FromIs DEF Init, Phased, NoJob, At, Early, JobStates
<1>. QED  BY <1>1, <1>2, <1>3, <1>4, <1>5 DEF TypeInv, TypeOK

(* A step of one job alone, its new state being of the type and as its     *)
(* phase has it.                                                           *)
LEMMA JobStep ==
  ASSUME TypeInv, NEW j \in Jobs, job'[j] \in JobStates, Phased(j)',
         job' = [job EXCEPT ![j] = job'[j]], UNCHANGED world,
         Runner!OpTypeOK', completed' \subseteq Keys,
         live' \in [FixedTypes -> [Pinned -> Commits]], upTo' \in [FixedTypes -> Tags \cup {NoCommit}]
  PROVE  TypeInv'
<1>1. \A i \in Jobs \ {j} : job'[i] = job[i]
  BY DEF TypeInv, TypeOK
<1>2. \A i \in Jobs \ {j} : Phased(i)'
  BY <1>1 DEF TypeInv, Phased, At, IsReconcile, KeyOf, Service, ByTag
<1>3. job' \in [Jobs -> JobStates]
  BY DEF TypeInv, TypeOK
<1>. QED  BY <1>2, <1>3 DEF TypeInv, TypeOK, world

(* A step that leaves the backends alone, too.                             *)
LEMMA QuietJobStep ==
  ASSUME TypeInv, NEW j \in Jobs, job'[j] \in JobStates, Phased(j)',
         job' = [job EXCEPT ![j] = job'[j]], UNCHANGED <<world, backends>>
  PROVE  TypeInv'
BY JobStep DEF TypeInv, TypeOK, backends, Runner!OpTypeOK

LEMMA RedStep == ASSUME TypeInv, NEW j \in Jobs, Red(j), UNCHANGED world PROVE TypeInv'
<1>1. job'[j] = [NoJob EXCEPT !.pc = "red"] /\ job' = [job EXCEPT ![j] = job'[j]]
  BY DEF Red, TypeInv, TypeOK
<1>2. job'[j] \in JobStates
  <2>1. job'[j] = [pc |-> "red", from |-> <<>>, args |-> <<>>, code |-> 0, iac |-> 0,
                   tries |-> 0, sent |-> FALSE, pulled |-> 0]
    BY <1>1 DEF NoJob, NoCommit
  <2>2. 0 \in 0..Attempts /\ "red" \in Phases
    BY ReleaseAssumption DEF Phases
  <2>. QED  BY <2>1, <2>2 DEF JobStates, NoCommit
<1>3. IsReconcile(j)' = FALSE
  BY <1>1 DEF IsReconcile, NoJob
<1>4. Phased(j)'
  BY <1>1, <1>3 DEF Phased, At, NoJob, Early
<1>. QED  BY <1>1, <1>2, <1>4, QuietJobStep DEF Red

(* The call of deploy_v2.                                                  *)
LEMMA CallStep ==
  ASSUME TypeInv, NEW j \in Jobs, NEW a \in Args, Call(j, a), UNCHANGED <<world, backends>>,
         ~job[j].sent
  PROVE  TypeInv'
<1>1. /\ job'[j].args = a /\ job'[j].from = job[j].from /\ job'[j].sent = job[j].sent
      /\ job'[j].pc = Entry(a) /\ job' = [job EXCEPT ![j] = job'[j]]
  BY DEF Call, TypeInv, TypeOK, JobStates
<1>2. Entry(a) \in {"down", "red", "batch", "onmain"} /\ (Entry(a) = "down" => a.down)
  BY EntryIs DEF Args
<1>3. job'[j] \in JobStates
  <2>1. Entry(a) \in Phases
    BY <1>2 DEF Phases
  <2>2. job'[j] = [job[j] EXCEPT !.pc = Entry(a), !.args = a] /\ job[j] \in JobStates
    BY DEF Call, TypeInv, TypeOK
  <2>. QED  BY <2>1, <2>2 DEF JobStates
<1>4. Phased(j)'
  BY <1>1, <1>2 DEF Phased, At, Early, TypeInv, IsReconcile
<1>. QED  BY <1>1, <1>3, <1>4, QuietJobStep

(* A job goes on to the phase pc, with everything else as it was.          *)
LEMMA PhaseStep ==
  ASSUME TypeInv, NEW j \in Jobs, NEW pc \in Phases, Step(j, pc)
  PROVE  /\ job'[j] \in JobStates /\ job' = [job EXCEPT ![j] = job'[j]]
         /\ job'[j].pc = pc /\ job'[j].from = job[j].from /\ job'[j].args = job[j].args
         /\ job'[j].code = job[j].code /\ job'[j].iac = job[j].iac /\ job'[j].sent = job[j].sent
<1>1. job'[j] = [job[j] EXCEPT !.pc = pc, !.tries = 0] /\ job[j] \in JobStates
  BY DEF Step, TypeInv, TypeOK
<1>2. job' = [job EXCEPT ![j] = job'[j]]
  BY DEF Step, TypeInv, TypeOK
<1>3. 0 \in 0..Attempts
  BY ReleaseAssumption
<1>4. job'[j] \in JobStates
  BY <1>1, <1>3 DEF JobStates
<1>5. /\ job'[j].pc = pc /\ job'[j].from = job[j].from /\ job'[j].args = job[j].args
      /\ job'[j].code = job[j].code /\ job'[j].iac = job[j].iac /\ job'[j].sent = job[j].sent
  BY <1>1 DEF JobStates
<1>. QED  BY <1>2, <1>4, <1>5

LEMMA ReconcileStep == ASSUME TypeInv, NEW j \in Jobs, Reconcile(j) PROVE TypeInv'
<1> DEFINE from     == job[j].from
           commit   == ResolveSha(infra, from.after)
           env      == IF from.prod THEN "prod" ELSE "staging"
           services == PlannedServices(Changed(Before(commit), commit), from.prod)
<1>1. from \in Reconciles /\ ~job[j].sent /\ job[j].args = <<>>
  BY DEF Reconcile, AfterOnMain, TypeInv, Phased, At, Early
<1>2. CASE Red(j)
  BY <1>2, RedStep DEF Reconcile, AfterOnMain
<1>3. CASE OnMain(infra, commit) /\ services = {} /\ Step(j, "green") /\ upTo' = Reached(j, env)
           /\ UNCHANGED <<op, completed, live>>
  <2>1. upTo' \in [FixedTypes -> Tags \cup {NoCommit}]
    <3>1. from.after.form = "tag" => from.after.of \in Tags
      BY <1>1, FromIs DEF TypeInv, Phased
    <3>. QED  BY <1>3, <3>1 DEF Reached, Broken, InOrder, TypeInv, TypeOK
  <2>2. Phased(j)'
    BY <1>1, <1>3, PhaseStep DEF Phased, At, Early, Phases, TypeInv, IsReconcile
  <2>. QED  BY <1>3, <2>1, <2>2, PhaseStep, JobStep DEF Phases, Reconcile, AfterOnMain, TypeInv, TypeOK, Runner!OpTypeOK
<1>4. CASE OnMain(infra, commit) /\ services # {} /\ Call(j, ReconcileArgs(services, from))
           /\ UNCHANGED backends
  <2>1. services \in (SUBSET Pinned) \ {{}}
    BY <1>1, <1>4, PlannedType, ReleaseAssumption DEF TypeInv, TypeOK
  <2>. QED  BY <1>1, <1>4, <2>1, ReconcileArgsType, CallStep DEF Reconcile, AfterOnMain
<1>. QED  BY <1>2, <1>3, <1>4 DEF Reconcile, AfterOnMain

LEMMA PlanStep == ASSUME TypeInv, NEW j \in Jobs, Plan(j) PROVE TypeInv'
<1>1. job[j].from \in Asked /\ ~job[j].sent /\ job[j].args = <<>>
  BY DEF Plan, TypeInv, Phased, At, Early
<1>2. CASE Red(j)
  BY <1>2, RedStep DEF Plan
<1>3. CASE Step(j, "replan") /\ UNCHANGED backends
  <2>1. Phased(j)'
    BY <1>1, <1>3, PhaseStep, FromIs DEF Phased, At, Early, Phases, TypeInv, IsReconcile
  <2>. QED  BY <1>3, <2>1, PhaseStep, QuietJobStep DEF Phases, Plan
<1>4. ASSUME NEW ref \in Refs, Call(j, PlanArgs(job[j].from, ref)), UNCHANGED backends PROVE TypeInv'
  BY <1>1, <1>4, PlanArgsType, CallStep DEF Plan
<1>. QED  BY <1>2, <1>3, <1>4, SelectIacRefType DEF Plan, TypeInv, TypeOK

LEMMA OnMainStep == ASSUME TypeInv, NEW j \in Jobs, AssertIacRefOnMain(j) \/ Down(j) PROVE TypeInv'
<1>1. job[j].args \in Args
  BY DEF AssertIacRefOnMain, Down, TypeInv, Phased, At, Early
<1>2. CASE Red(j)
  BY <1>2, RedStep DEF AssertIacRefOnMain, Down
<1>3. ASSUME NEW pc \in {"platform", "resolve", "green"}, Step(j, pc), UNCHANGED backends
      PROVE  TypeInv'
  <2>1. Phased(j)'
    BY <1>1, <1>3, PhaseStep DEF Phased, At, Early, Phases, TypeInv, IsReconcile
  <2>. QED  BY <1>3, <2>1, PhaseStep, QuietJobStep DEF Phases, AssertIacRefOnMain, Down
<1>. QED  BY <1>2, <1>3 DEF AssertIacRefOnMain, Down

(* The coordinate of a platform deployment is one the runner knows.        *)
LEMMA AcceptedIs ==
  ASSUME NEW a \in Args, NEW iac, PlatformAccepted(a, iac)
  PROVE  [env |-> a.type, ref |-> iac, services |-> a.services] \in Keys
BY DEF PlatformAccepted, TargetValid, Args, Keys

LEMMA ResolveIacStep == ASSUME TypeInv, NEW j \in Jobs, ResolveIac(j) PROVE TypeInv'
<1>1. job[j].args \in Args /\ job[j] \in JobStates
  BY DEF ResolveIac, TypeInv, TypeOK, Phased, At, Early
<1>2. CASE Red(j)
  BY <1>2, RedStep DEF ResolveIac
<1>3. ASSUME NEW iac, PlatformAccepted(job[j].args, iac),
             job' = [job EXCEPT ![j].pc = "trigger", ![j].iac = iac], UNCHANGED backends
      PROVE  TypeInv'
  <2>1. job'[j] = [job[j] EXCEPT !.pc = "trigger", !.iac = iac] /\ job' = [job EXCEPT ![j] = job'[j]]
    BY <1>3 DEF TypeInv, TypeOK
  <2>2. [env |-> job[j].args.type, ref |-> iac, services |-> job[j].args.services] \in Keys
    BY <1>1, <1>3, AcceptedIs
  <2>3. iac \in Commits
    BY <2>2 DEF Keys
  <2>4. job'[j] \in JobStates
    BY <1>1, <2>1, <2>3 DEF JobStates, Phases
  <2>5. Phased(j)'
    BY <1>1, <2>1, <2>2 DEF Phased, At, Early, TypeInv, IsReconcile, KeyOf, JobStates
  <2>. QED  BY <1>3, <2>1, <2>4, <2>5, QuietJobStep DEF ResolveIac
<1>. QED  BY <1>2, <1>3 DEF ResolveIac

(* The record of releases stays well typed.                                *)
LEMMA UpToType ==
  ASSUME TypeInv, NEW j \in Jobs, NEW env \in FixedTypes
  PROVE  /\ Broken(env) \in [FixedTypes -> Tags \cup {NoCommit}]
         /\ Reached(j, env) \in [FixedTypes -> Tags \cup {NoCommit}]
BY FromIs DEF Broken, Reached, InOrder, TypeInv, TypeOK, Phased, IsReconcile

LEMMA TriggerStep == ASSUME TypeInv, NEW j \in Jobs, Trigger(j) PROVE TypeInv'
<1> DEFINE k == KeyOf(j)
<1>1. k \in Keys /\ k.env \in FixedTypes /\ job[j].args \in Args /\ job[j] \in JobStates
  BY DEF Trigger, TypeInv, TypeOK, Phased, At, Early, Keys
<1>2. CASE Red(j)
  BY <1>2, RedStep DEF Trigger
<1>3. CASE ~Red(j)
  <2>1. PICK pc \in {"poll", "green", "red"} :
          /\ job' = [job EXCEPT ![j].pc = pc, ![j].sent = TRUE]
          /\ upTo' = IF pc = "poll" /\ InOrder(j, k.env) THEN upTo ELSE Broken(k.env)
    BY <1>3 DEF Trigger
  <2>2. job'[j] = [job[j] EXCEPT !.pc = pc, !.sent = TRUE] /\ job' = [job EXCEPT ![j] = job'[j]]
    BY <2>1 DEF TypeInv, TypeOK
  <2>3. job'[j] \in JobStates
    BY <1>1, <2>2 DEF JobStates, Phases
  <2>4. Phased(j)'
    BY <1>1, <2>2 DEF Phased, At, Early, TypeInv, IsReconcile, KeyOf, JobStates
  <2>5. Runner!OpTypeOK'
    BY <1>1, <1>3 DEF Trigger, Runner!Accept, Runner!OpTypeOK, TypeInv, TypeOK
  <2>6. upTo' \in [FixedTypes -> Tags \cup {NoCommit}]
    BY <1>1, <2>1, UpToType DEF TypeInv, TypeOK
  <2>. QED  BY <1>3, <2>2, <2>3, <2>4, <2>5, <2>6, JobStep DEF Trigger, TypeInv, TypeOK
<1>. QED  BY <1>2, <1>3

LEMMA PollStep == ASSUME TypeInv, NEW j \in Jobs, Poll(j) PROVE TypeInv'
<1> DEFINE k == KeyOf(j)
<1>1. k \in Keys /\ k.env \in FixedTypes /\ job[j].args \in Args /\ job[j] \in JobStates
  BY DEF Poll, TypeInv, TypeOK, Phased, At, Early, Keys
<1>2. CASE AnotherTry(job[j].tries) /\ job' = [job EXCEPT ![j].tries = @ + 1] /\ UNCHANGED backends
  <2>1. job'[j] = [job[j] EXCEPT !.tries = @ + 1] /\ job' = [job EXCEPT ![j] = job'[j]]
    BY <1>2 DEF TypeInv, TypeOK
  <2>2. job[j].tries + 1 \in 0..Attempts
    BY <1>1, <1>2, ReleaseAssumption DEF AnotherTry, JobStates
  <2>3. job'[j] \in JobStates
    BY <1>1, <2>1, <2>2 DEF JobStates
  <2>4. Phased(j)'
    BY <1>1, <2>1 DEF Phased, At, Early, TypeInv, IsReconcile, KeyOf, JobStates, Poll
  <2>. QED  BY <1>2, <2>1, <2>3, <2>4, QuietJobStep DEF Poll
<1>3. ASSUME NEW pc \in {"green", "red"}, Step(j, pc), UNCHANGED <<op, completed, live>>,
             upTo' = Reached(j, k.env) \/ upTo' = Broken(k.env)
      PROVE  TypeInv'
  <2>1. Phased(j)'
    BY <1>1, <1>3, PhaseStep DEF Phased, At, Early, Phases, TypeInv, IsReconcile
  <2>2. upTo' \in [FixedTypes -> Tags \cup {NoCommit}]
    BY <1>1, <1>3, UpToType
  <2>. QED  BY <1>3, <2>1, <2>2, PhaseStep, JobStep DEF Phases, Poll, TypeInv, TypeOK, Runner!OpTypeOK
<1>. QED  BY <1>2, <1>3 DEF Poll

(* The application path.                                                   *)
LEMMA AppStep ==
  ASSUME TypeInv, NEW j \in Jobs, ResolveVersion(j) \/ MakeTarget(j) \/ WaitForImages(j) \/ Backend(j)
  PROVE  TypeInv'
<1>1. job[j].args \in Args /\ job[j] \in JobStates
  BY DEF ResolveVersion, MakeTarget, WaitForImages, Backend, TypeInv, TypeOK, Phased, At, Early
<1>2. CASE Red(j)
  BY <1>2, RedStep DEF ResolveVersion, MakeTarget, WaitForImages, Backend
<1>3. ASSUME NEW code \in Nat, job' = [job EXCEPT ![j].pc = "target", ![j].code = code],
             ByTag(j) => job[j].args.version.of \in Tags, UNCHANGED <<world, backends>>
      PROVE  TypeInv'
  <2>1. job'[j] = [job[j] EXCEPT !.pc = "target", !.code = code] /\ job' = [job EXCEPT ![j] = job'[j]]
    BY <1>3 DEF TypeInv, TypeOK
  <2>2. job'[j] \in JobStates
    BY <1>1, <2>1 DEF JobStates, Phases
  <2>3. Phased(j)'
    <3>1. /\ job'[j].pc = "target" /\ job'[j].args = job[j].args /\ job'[j].from = job[j].from
          /\ job'[j].sent = job[j].sent
      BY <1>1, <2>1 DEF JobStates
    <3>2. ByTag(j)' = ByTag(j)
      BY <3>1 DEF ByTag
    <3>. QED  BY <1>1, <1>3, <3>1, <3>2 DEF Phased, At, Early, TypeInv, IsReconcile
  <2>. QED  BY <1>3, <2>1, <2>2, <2>3, QuietJobStep
<1>4. ASSUME NEW iac \in Commits, job' = [job EXCEPT ![j].pc = "images", ![j].iac = iac],
             Service(j) \in AppServices, At(j, "target"), UNCHANGED <<world, backends>>
      PROVE  TypeInv'
  <2>1. job'[j] = [job[j] EXCEPT !.pc = "images", !.iac = iac] /\ job' = [job EXCEPT ![j] = job'[j]]
    BY <1>4 DEF TypeInv, TypeOK
  <2>2. job'[j] \in JobStates
    BY <1>1, <2>1 DEF JobStates, Phases
  <2>3. Phased(j)'
    <3>1. job'[j].pc = "images" /\ job'[j].args = job[j].args /\ job'[j].from = job[j].from
      BY <1>1, <2>1 DEF JobStates
    <3>2. Service(j)' = Service(j)
      BY <3>1 DEF Service
    <3>. QED  BY <1>1, <1>4, <3>1, <3>2 DEF Phased, At, Early, TypeInv, IsReconcile, ByTag
  <2>. QED  BY <1>4, <2>1, <2>2, <2>3, QuietJobStep
<1>5. ASSUME NEW pc \in {"backend", "red"}, Step(j, pc), UNCHANGED <<world, backends>>,
             pc = "backend" => At(j, "images")
      PROVE  TypeInv'
  <2>1. Phased(j)'
    BY <1>1, <1>5, PhaseStep DEF Phased, At, Early, Phases, TypeInv, IsReconcile, Service, ByTag
  <2>. QED  BY <1>5, <2>1, PhaseStep, QuietJobStep DEF Phases
<1>6. CASE AnotherTry(job[j].tries) /\ job' = [job EXCEPT ![j].tries = @ + 1] /\ UNCHANGED <<world, backends>>
           /\ At(j, "images")
  <2>1. job'[j] = [job[j] EXCEPT !.tries = @ + 1] /\ job' = [job EXCEPT ![j] = job'[j]]
    BY <1>6 DEF TypeInv, TypeOK
  <2>2. job[j].tries + 1 \in 0..Attempts
    BY <1>1, <1>6, ReleaseAssumption DEF AnotherTry, JobStates
  <2>3. job'[j] \in JobStates
    BY <1>1, <2>1, <2>2 DEF JobStates
  <2>4. Phased(j)'
    BY <1>1, <1>6, <2>1 DEF Phased, At, Early, TypeInv, IsReconcile, Service, JobStates, ByTag
  <2>. QED  BY <1>6, <2>1, <2>3, <2>4, QuietJobStep
<1>7. ASSUME NEW pc \in {"green", "red"}, NEW c \in Nat, UNCHANGED <<world, backends>>,
             job' = [job EXCEPT ![j].pc = pc, ![j].sent = TRUE, ![j].pulled = c]
      PROVE  TypeInv'
  <2>1. job'[j] = [job[j] EXCEPT !.pc = pc, !.sent = TRUE, !.pulled = c] /\ job' = [job EXCEPT ![j] = job'[j]]
    BY <1>7 DEF TypeInv, TypeOK
  <2>2. job'[j] \in JobStates
    BY <1>1, <2>1 DEF JobStates, Phases
  <2>3. Phased(j)'
    BY <1>1, <2>1 DEF Phased, At, Early, TypeInv, IsReconcile, JobStates
  <2>. QED  BY <1>7, <2>1, <2>2, <2>3, QuietJobStep
<1>8. CASE ResolveVersion(j)
  <2>1. ResolveSha(app, job[j].args.version) \in Nat
    BY <1>1, ResolveShaType DEF Args, TypeInv, TypeOK
  <2>2. ByTag(j) /\ ResolveSha(app, job[j].args.version) # NoCommit => job[j].args.version.of \in Tags
    BY <1>1, ResolveShaType DEF Args, ByTag, TypeInv, TypeOK
  <2>. QED  BY <1>2, <1>3, <1>8, <2>1, <2>2 DEF ResolveVersion
<1>9. CASE MakeTarget(j)
  BY <1>2, <1>4, <1>9 DEF MakeTarget, TargetValid
<1>10. CASE WaitForImages(j)
  BY <1>5, <1>6, <1>10 DEF WaitForImages
<1>11. CASE Backend(j)
  <2>1. ASSUME ByTag(j) PROVE image[job[j].args.version.of] \in Nat
    <3>1. job[j].args.version.of \in Tags
      BY <1>11, <2>1 DEF Backend, At, TypeInv, Phased
    <3>2. Commits \cup {NoCommit} \subseteq Nat
      BY CommitsType DEF NoCommit
    <3>3. image[job[j].args.version.of] \in Commits \cup {NoCommit}
      BY <3>1 DEF TypeInv, TypeOK
    <3>. QED  BY <3>2, <3>3
  <2>2. ImageNow(j) \in Nat
    BY <1>1, <2>1 DEF ImageNow, JobStates
  <2>. QED  BY <1>5, <1>7, <1>11, <2>2 DEF Backend
<1>. QED  BY <1>8, <1>9, <1>10, <1>11

LEMMA StartStep == ASSUME TypeInv, NEW j \in Jobs, Start(j) PROVE TypeInv'
<1>1. job[j] = NoJob
  BY DEF Start, TypeInv, Phased
<1>2. ASSUME NEW a \in Commands, Call(j, a) PROVE TypeInv'
  BY <1>1, <1>2, CallStep, ReleaseAssumption DEF Start, NoJob
<1>3. ASSUME NEW pc \in {"reconcile", "plan"}, NEW of \in Reconciles \cup Asked, Begin(j, pc, of),
             pc = "reconcile" => of \in Reconciles /\ ResolveSha(infra, of.after) # NoCommit,
             pc = "plan" => of \in Asked
      PROVE  TypeInv'
  <2>1. job'[j] = [NoJob EXCEPT !.pc = pc, !.from = of] /\ job' = [job EXCEPT ![j] = job'[j]]
    BY <1>1, <1>3 DEF Begin, TypeInv, TypeOK
  <2>2. NoJob \in JobStates
    BY <1>1 DEF TypeInv, TypeOK
  <2>3. job'[j] \in JobStates /\ job'[j].pc = pc /\ job'[j].from = of /\ job'[j].args = <<>> /\ ~job'[j].sent
    <3>1. job'[j] = [pc |-> pc, from |-> of, args |-> <<>>, code |-> NoCommit, iac |-> NoCommit,
                     tries |-> 0, sent |-> FALSE, pulled |-> NoCommit]
      BY <2>1 DEF NoJob
    <3>2. 0 \in 0..Attempts /\ pc \in Phases /\ NoCommit \in Nat
      BY ReleaseAssumption DEF Phases, NoCommit
    <3>. QED  BY <3>1, <3>2 DEF JobStates
  <2>4. pc = "reconcile" /\ of.after.form = "tag" => of.after.of \in Tags
    BY <1>3, ResolveShaType, ReleaseAssumption DEF TypeInv, TypeOK
  <2>5. IsReconcile(j)' => of \in Reconciles
    BY <2>3, ReleaseAssumption DEF IsReconcile, Requests
  <2>6. IsReconcile(j)' => pc = "reconcile"
    <3>1. \A q \in Asked : "after" \notin DOMAIN q
      BY ReleaseAssumption DEF Requests
    <3>. QED  BY <1>3, <2>3, <3>1 DEF IsReconcile
  <2>7. Phased(j)'
    BY <1>3, <2>3, <2>4, <2>6 DEF Phased, At, Early
  <2>. QED  BY <2>1, <2>3, <2>7, QuietJobStep DEF Start
<1>. QED  BY <1>2, <1>3 DEF Start

LEMMA RunnerTypes == ASSUME TypeInv, RunnerStep PROVE TypeInv'
<1>1. PICK k \in Keys :
        \/ UNCHANGED <<op, completed>> /\ \E s \in k.services : live' = Deployed(k, {s})
        \/ /\ Runner!Settle(k)
           /\ IF op'[k] = "completed"
              THEN completed' = completed \cup {k} /\ live' = Deployed(k, k.services)
              ELSE UNCHANGED <<completed, live>>
        \/ Runner!Forget(k) /\ UNCHANGED <<completed, live>>
        \/ op[k] = "in_progress" /\ Runner!Lose /\ UNCHANGED <<completed, live>>
  BY DEF RunnerStep
<1>2. Runner!OpTypeOK'
  BY <1>1 DEF Runner!OpTypeOK, Runner!Settle, Runner!Forget, Runner!Lose, Runner!Terminal, TypeInv, TypeOK
<1>3. completed' \subseteq Keys
  BY <1>1 DEF TypeInv, TypeOK
<1>4. ASSUME NEW some PROVE Deployed(k, some) \in [FixedTypes -> [Pinned -> Commits]]
  <2>1. k.env \in FixedTypes /\ k.ref \in Commits /\ live \in [FixedTypes -> [Pinned -> Commits]]
    BY DEF Keys, TypeInv, TypeOK
  <2>. QED  BY <2>1 DEF Deployed
<1>5. live' \in [FixedTypes -> [Pinned -> Commits]]
  <2>1. live' = live \/ \E some : live' = Deployed(k, some)
    BY <1>1
  <2>. QED  BY <1>4, <2>1 DEF TypeInv, TypeOK
<1>6. \A j \in Jobs : Phased(j)'
  BY DEF RunnerStep, TypeInv, Phased, At, IsReconcile, KeyOf, Service, ByTag
<1>. QED  BY <1>2, <1>3, <1>5, <1>6 DEF RunnerStep, world, TypeInv, TypeOK

LEMMA WorldTypes == ASSUME TypeInv, World PROVE TypeInv'
<1>1. \A j \in Jobs : Phased(j)'
  BY DEF World, TypeInv, Phased, At, IsReconcile, KeyOf, Service, ByTag
<1>2. CASE Advance
  <2>1. infra' = [infra EXCEPT !.tip = infra.tip + 1] /\ infra.tip + 1 \in 1..MaxCommit
    BY <1>2, RefsAssumption DEF Advance, Repos, TypeInv, TypeOK
  <2>2. infra' \in Repos
    BY <2>1 DEF Repos, TypeInv, TypeOK
  <2>. QED  BY <1>1, <1>2, <2>2 DEF Advance, World, backends, TypeInv, TypeOK, Runner!OpTypeOK
<1>3. CASE CutTag
  <2>1. \A c \in {infra.tip} \cup Side : c \in Commits
    BY RefsAssumption DEF TypeInv, TypeOK, Repos, Commits
  <2>2. infra' \in Repos
    <3>1. PICK v \in Tags, c \in Commits : infra' = [infra EXCEPT !.tag[v] = c]
      BY <1>3, <2>1 DEF CutTag
    <3>2. infra'.tag = [infra.tag EXCEPT ![v] = c] /\ infra' = [infra EXCEPT !.tag = infra'.tag]
      BY <3>1 DEF Repos, TypeInv, TypeOK
    <3>3. infra'.tag \in [Tags -> Commits \cup {NoCommit}]
      BY <3>2 DEF Repos, TypeInv, TypeOK
    <3>. QED  BY <3>2, <3>3 DEF Repos, TypeInv, TypeOK
  <2>. QED  BY <1>1, <1>3, <2>2 DEF CutTag, World, backends, TypeInv, TypeOK, Runner!OpTypeOK
<1>4. CASE MoveApp
  <2>1. app.tip < MaxCommit => app.tip + 1 \in 1..MaxCommit /\ app.tip + 1 \in Commits
    BY RefsAssumption DEF TypeInv, TypeOK, Repos, Commits
  <2>2. PICK v \in Tags : /\ app' = [app EXCEPT !.tip = @ + 1, !.tag[v] = app.tip + 1]
                         /\ recut' = recut \cup {v}
    BY <1>4 DEF MoveApp
  <2>3. app' \in Repos
    <3>1. app'.tip = app.tip + 1 /\ app'.tag = [app.tag EXCEPT ![v] = app.tip + 1]
          /\ app' = [app EXCEPT !.tip = app'.tip, !.tag = app'.tag]
      BY <2>2 DEF Repos, TypeInv, TypeOK
    <3>2. app'.tip \in 1..MaxCommit /\ app'.tag \in [Tags -> Commits \cup {NoCommit}]
      BY <1>4, <2>1, <3>1 DEF MoveApp, Repos, TypeInv, TypeOK
    <3>. QED  BY <3>1, <3>2 DEF Repos, TypeInv, TypeOK
  <2>. QED  BY <1>1, <1>4, <2>2, <2>3 DEF MoveApp, World, backends, TypeInv, TypeOK, Runner!OpTypeOK
<1>5. CASE Publish
  <2>1. image' \in [Tags -> Commits \cup {NoCommit}]
    BY <1>5 DEF Publish, Repos, TypeInv, TypeOK
  <2>. QED  BY <1>1, <1>5, <2>1 DEF Publish, World, backends, TypeInv, TypeOK, Runner!OpTypeOK
<1>. QED  BY <1>2, <1>3, <1>4, <1>5 DEF World

LEMMA TypeStep == TypeInv /\ [Next]_vars => TypeInv'
<1> SUFFICES ASSUME TypeInv, [Next]_vars PROVE TypeInv'
  OBVIOUS
<1>1. ASSUME NEW j \in Jobs, Start(j) \/ Work(j) PROVE TypeInv'
  BY <1>1, StartStep, ReconcileStep, PlanStep, OnMainStep, ResolveIacStep, TriggerStep, PollStep, AppStep,
     RedStep DEF Work, CanaryFails
<1>2. CASE UNCHANGED vars
  BY <1>2 DEF vars, TypeInv, TypeOK, Phased, At, IsReconcile, KeyOf, Service, ByTag, Runner!OpTypeOK
<1>. QED  BY <1>1, <1>2, RunnerTypes, WorldTypes DEF Next, AllDone

LEMMA TypeInvariant == Spec => []TypeInv
BY TypeInit, TypeStep, PTL DEF Spec

(* The repositories, the runner's answers, what is live and every job are  *)
(* well typed, for any constants.                                          *)
THEOREM TypeCorrect == Spec => []TypeOK
BY TypeInvariant, PTL DEF TypeInv

LEMMA FromType ==
  ASSUME TypeInv, NEW j \in Jobs
  PROVE  /\ job[j].from \in Reconciles <=> IsReconcile(j)
         /\ job[j].from \in Asked <=> IsRequest(j)
         /\ job[j].from = <<>> <=> ~IsReconcile(j) /\ ~IsRequest(j)
         /\ ~(IsReconcile(j) /\ IsRequest(j))
<1>1. job[j].from \in Reconciles \cup Asked \cup {<<>>}
  BY DEF TypeInv, TypeOK, JobStates
<1>. QED  BY <1>1, FromIs

-----------------------------------------------------------------------------
(* A production request that has passed make_plan keeps its evidence, and  *)
(* from --expected-sha on the commit it was given for.                     *)
Reviewed(j) ==
  IsRequest(j) /\ job[j].from.type = "prod" =>
    /\ job[j].pc \notin {"reconcile", "platform", "batch", "trigger", "poll"}
    /\ job[j].pc \in {"replan", "onmain", "resolve", "target", "images", "backend"} \/ job[j].sent =>
         EvidenceVerified(job[j].from)
    /\ job[j].pc \in {"onmain", "resolve", "target", "images", "backend"} =>
         /\ job[j].args.expected = job[j].from.sha
         /\ job[j].args.services = {job[j].from.service}
    /\ job[j].pc \in {"target", "images", "backend"} \/ job[j].sent => job[j].code = job[j].from.sha

(* What was compared with main stays on it, as main only grows and a tag   *)
(* of infra2 is cut once.                                                  *)
RunsMain(j) ==
  /\ job[j].args \in Args /\ job[j].args.type \in FixedTypes
  /\ Cardinality(job[j].args.services) = 1 \/ job[j].from # <<>>
  => /\ job[j].pc \in {"platform", "batch", "resolve", "target"} =>
          OnMain(infra, ResolveSha(infra, job[j].args.iacRef))
     /\ job[j].pc \in {"trigger", "poll", "images", "backend"} \/ job[j].sent => OnMain(infra, job[j].iac)

Earned(j) ==
  /\ At(j, "green") /\ job[j].args # <<>>
  /\ job[j].args.services \subseteq Pinned /\ ~job[j].args.down /\ job[j].args.wait
  => KeyOf(j) \in completed

CompletedIsKnown == \A k \in Keys : op[k] = "completed" => k \in completed

FlowInv == CompletedIsKnown /\ \A j \in Jobs : Reviewed(j) /\ RunsMain(j) /\ Earned(j)

LEMMA FlowInit == Init => FlowInv
<1> SUFFICES ASSUME Init PROVE FlowInv
  OBVIOUS
<1>1. \A j \in Jobs : job[j] = NoJob
  BY DEF Init
<1>2. \A j \in Jobs : Reviewed(j) /\ RunsMain(j) /\ Earned(j)
  <2>1. <<>> \notin Args
    BY DEF Args
  <2>. QED  BY <1>1, <2>1 DEF Reviewed, RunsMain, Earned, At, NoJob, IsRequest
<1>. QED  BY <1>2 DEF FlowInv, CompletedIsKnown, Init, Runner!Init

(* A step of job j alone.                                                  *)
LEMMA FlowStep ==
  ASSUME TypeInv, FlowInv, NEW j \in Jobs, job' = [job EXCEPT ![j] = job'[j]], UNCHANGED world,
         completed' = completed, \A k \in Keys : op'[k] = "completed" => op[k] = "completed",
         Reviewed(j)', RunsMain(j)', Earned(j)'
  PROVE  FlowInv'
<1>1. \A i \in Jobs \ {j} : job'[i] = job[i]
  BY DEF TypeInv, TypeOK
<1>2. \A i \in Jobs \ {j} : Reviewed(i)' /\ RunsMain(i)' /\ Earned(i)'
  BY <1>1 DEF FlowInv, Reviewed, RunsMain, Earned, At, IsRequest, KeyOf, world
<1>3. CompletedIsKnown'
  BY DEF FlowInv, CompletedIsKnown
<1>. QED  BY <1>2, <1>3 DEF FlowInv

LEMMA FlowRed == ASSUME TypeInv, FlowInv, NEW j \in Jobs, Red(j), UNCHANGED world PROVE FlowInv'
<1>1. job'[j] = [NoJob EXCEPT !.pc = "red"] /\ job' = [job EXCEPT ![j] = job'[j]]
  BY DEF Red, TypeInv, TypeOK
<1>2. job'[j].pc = "red" /\ job'[j].from = <<>> /\ job'[j].args = <<>> /\ ~job'[j].sent
  BY <1>1 DEF NoJob
<1>3. Reviewed(j)' /\ RunsMain(j)' /\ Earned(j)'
  <2>1. <<>> \notin Args
    BY DEF Args
  <2>. QED  BY <1>2, <2>1 DEF Reviewed, RunsMain, Earned, At, IsRequest
<1>. QED  BY <1>1, <1>3, FlowStep DEF Red, backends

(* The call of deploy_v2 by a command line, a reconcile or a request.      *)
LEMMA FlowCall ==
  ASSUME TypeInv, FlowInv, NEW j \in Jobs, NEW a \in Args, Call(j, a), UNCHANGED <<world, backends>>,
         ~job[j].sent,
         \/ job[j].from = <<>>
         \/ /\ job[j].from \in Reconciles
            /\ OnMain(infra, ResolveSha(infra, job[j].from.after)) /\ a.iacRef = job[j].from.after
         \/ /\ job[j].from \in Asked /\ Authorised(job[j].from, app)
            /\ \E ref : a = PlanArgs(job[j].from, ref)
  PROVE  FlowInv'
<1>1. /\ job'[j].args = a /\ job'[j].from = job[j].from /\ ~job'[j].sent
      /\ job'[j].pc = Entry(a) /\ job' = [job EXCEPT ![j] = job'[j]]
  BY DEF Call, TypeInv, TypeOK, JobStates
<1>2. Entry(a) \in {"down", "red", "batch", "onmain"}
  BY EntryIs DEF Args
<1>3. Earned(j)'
  BY <1>1, <1>2 DEF Earned, At
<1>4. IsRequest(j) => /\ job[j].from \in Asked /\ Authorised(job[j].from, app)
                      /\ \E ref : a = PlanArgs(job[j].from, ref)
  BY FromType
<1>5. IsRequest(j) => Entry(a) # "batch"
  <2>1. IsRequest(j) => a.services = {job[j].from.service}
    BY <1>4 DEF PlanArgs
  <2>2. \A x : Cardinality({x}) = 1
    BY FS_Singleton, Zenon
  <2>3. IsRequest(j) => Cardinality(a.services) = 1
    BY <2>1, <2>2
  <2>. QED  BY <2>3, EntryIs DEF Args
<1>6. RunsMain(j)'
  <2>1. Cardinality(a.services) = 1 => Entry(a) # "batch"
    BY EntryIs DEF Args
  <2>2. Entry(a) = "batch" /\ job[j].from # <<>> => OnMain(infra, ResolveSha(infra, a.iacRef))
    BY <1>4, <1>5, FromType
  <2>. QED  BY <1>1, <1>2, <2>1, <2>2 DEF RunsMain, world
<1>7. Reviewed(j)'
  <2>1. CASE ~(IsRequest(j) /\ job[j].from.type = "prod")
    BY <1>1, <2>1 DEF Reviewed, IsRequest
  <2>2. CASE IsRequest(j) /\ job[j].from.type = "prod"
    <3>1. EvidenceVerified(job[j].from)
      BY <1>4, <2>2 DEF Authorised
    <3>2. Entry(a) = "onmain" => ~a.down
      BY EntryIs DEF Args
    <3>3. ~a.down => a.expected = job[j].from.sha /\ a.services = {job[j].from.service}
      BY <1>4, <2>2 DEF PlanArgs
    <3>. QED  BY <1>1, <1>2, <1>5, <2>2, <3>1, <3>2, <3>3 DEF Reviewed
  <2>. QED  BY <2>1, <2>2
<1>. QED  BY <1>1, <1>3, <1>6, <1>7, FlowStep DEF backends

(* A job whose coordinate stays goes on to pc.                             *)
LEMMA FlowReconcile == ASSUME TypeInv, FlowInv, NEW j \in Jobs, Reconcile(j) PROVE FlowInv'
<1> DEFINE from     == job[j].from
           commit   == ResolveSha(infra, from.after)
           services == PlannedServices(Changed(Before(commit), commit), from.prod)
<1>1. from \in Reconciles /\ ~job[j].sent /\ job[j].args = <<>>
  BY DEF Reconcile, AfterOnMain, TypeInv, Phased, At, Early
<1>2. CASE Red(j)
  BY <1>2, FlowRed DEF Reconcile, AfterOnMain
<1>3. CASE Step(j, "green") /\ UNCHANGED <<op, completed, live>>
  <2>1. <<>> \notin Args
    BY DEF Args
  <2>2. /\ job'[j].pc = "green" /\ job'[j].args = <<>> /\ ~job'[j].sent
        /\ job' = [job EXCEPT ![j] = job'[j]]
    BY <1>1, <1>3, PhaseStep DEF Phases
  <2>3. Reviewed(j)' /\ RunsMain(j)' /\ Earned(j)'
    BY <2>1, <2>2 DEF Reviewed, RunsMain, Earned
  <2>. QED  BY <1>3, <2>2, <2>3, FlowStep DEF Reconcile, AfterOnMain
<1>4. CASE OnMain(infra, commit) /\ services # {} /\ Call(j, ReconcileArgs(services, from))
           /\ UNCHANGED backends
  <2>1. services \in (SUBSET Pinned) \ {{}}
    BY <1>1, <1>4, PlannedType, ReleaseAssumption DEF TypeInv, TypeOK
  <2>2. ReconcileArgs(services, from).iacRef = from.after
    BY DEF ReconcileArgs
  <2>. QED  BY <1>1, <1>4, <2>1, <2>2, ReconcileArgsType, FlowCall DEF Reconcile, AfterOnMain
<1>. QED  BY <1>2, <1>3, <1>4 DEF Reconcile, AfterOnMain

LEMMA FlowPlan == ASSUME TypeInv, FlowInv, NEW j \in Jobs, Plan(j) PROVE FlowInv'
<1>1. job[j].from \in Asked /\ ~job[j].sent /\ job[j].args = <<>>
  BY DEF Plan, TypeInv, Phased, At, Early
<1>2. CASE Red(j)
  BY <1>2, FlowRed DEF Plan
<1>3. CASE Authorised(job[j].from, app) /\ Step(j, "replan") /\ UNCHANGED backends
  <2>1. <<>> \notin Args
    BY DEF Args
  <2>2. /\ job'[j].pc = "replan" /\ job'[j].args = <<>> /\ ~job'[j].sent /\ job'[j].from = job[j].from
        /\ job' = [job EXCEPT ![j] = job'[j]]
    BY <1>1, <1>3, PhaseStep DEF Phases
  <2>3. RunsMain(j)' /\ Earned(j)'
    BY <2>1, <2>2 DEF RunsMain, Earned, At
  <2>4. Reviewed(j)'
    BY <1>3, <2>2 DEF Reviewed, Authorised
  <2>. QED  BY <1>3, <2>2, <2>3, <2>4, FlowStep DEF Plan, backends
<1>4. ASSUME NEW ref \in Refs, Authorised(job[j].from, app),
             Call(j, PlanArgs(job[j].from, ref)), UNCHANGED backends
      PROVE  FlowInv'
  BY <1>1, <1>4, PlanArgsType, FlowCall DEF Plan
<1>. QED  BY <1>2, <1>3, <1>4, SelectIacRefType DEF Plan, TypeInv, TypeOK

LEMMA FlowOnMain == ASSUME TypeInv, FlowInv, NEW j \in Jobs, AssertIacRefOnMain(j) \/ Down(j) PROVE FlowInv'
<1>1. job[j].args \in Args
  BY DEF AssertIacRefOnMain, Down, TypeInv, Phased, At, Early
<1>2. CASE Red(j)
  BY <1>2, FlowRed DEF AssertIacRefOnMain, Down
<1>3. CASE Down(j) /\ Step(j, "green") /\ UNCHANGED backends
  <2>1. /\ job'[j].pc = "green" /\ job'[j].args = job[j].args /\ job'[j].sent = job[j].sent
        /\ job'[j].from = job[j].from /\ job'[j].code = job[j].code /\ job'[j].iac = job[j].iac
        /\ job' = [job EXCEPT ![j] = job'[j]]
    BY <1>3, PhaseStep DEF Phases
  <2>2. job[j].args.down
    BY <1>3 DEF Down, TypeInv, Phased
  <2>3. RunsMain(j)' /\ Earned(j)'
    BY <1>3, <2>1, <2>2 DEF RunsMain, Earned, At, FlowInv, Down, world
  <2>4. Reviewed(j)'
    BY <1>3, <2>1 DEF Reviewed, IsRequest, FlowInv
  <2>. QED  BY <1>3, <2>1, <2>3, <2>4, FlowStep DEF Down, backends
<1>4. ASSUME NEW pc \in {"platform", "resolve"}, AssertIacRefOnMain(j), Step(j, pc), UNCHANGED backends,
             ComparedOnMain(job[j].args.type, job[j].args.iacRef),
             pc = (IF Service(j) \in Pinned THEN "platform" ELSE "resolve")
      PROVE  FlowInv'
  <2>1. /\ job'[j].pc = pc /\ job'[j].args = job[j].args /\ job'[j].sent = job[j].sent
        /\ job'[j].from = job[j].from /\ job'[j].code = job[j].code /\ job'[j].iac = job[j].iac
        /\ job' = [job EXCEPT ![j] = job'[j]]
    BY <1>4, PhaseStep DEF Phases
  <2>2. RunsMain(j)' /\ Earned(j)'
    BY <1>4, <2>1 DEF RunsMain, Earned, At, FlowInv, AssertIacRefOnMain, ComparedOnMain, world
  <2>3. ASSUME IsRequest(j), job[j].from.type = "prod"
        PROVE  pc = "resolve"
    <3>1. job[j].args.services = {job[j].from.service} /\ job[j].from.service \in AppServices
      BY <1>4, <2>3, FromType, ReleaseAssumption DEF FlowInv, Reviewed, AssertIacRefOnMain, At, Requests
    <3>2. Service(j) = job[j].from.service
      BY <3>1 DEF Service
    <3>. QED  BY <1>4, <3>1, <3>2, ContractAssumption
  <2>4. Reviewed(j)'
    BY <1>4, <2>1, <2>3 DEF Reviewed, IsRequest, FlowInv, AssertIacRefOnMain, At
  <2>. QED  BY <1>4, <2>1, <2>2, <2>4, FlowStep DEF AssertIacRefOnMain, backends
<1>. QED  BY <1>2, <1>3, <1>4 DEF AssertIacRefOnMain, Down

LEMMA FlowResolveIac == ASSUME TypeInv, FlowInv, NEW j \in Jobs, ResolveIac(j) PROVE FlowInv'
<1>1. job[j].args \in Args /\ job[j] \in JobStates
  BY DEF ResolveIac, TypeInv, TypeOK, Phased, At, Early
<1>2. CASE Red(j)
  BY <1>2, FlowRed DEF ResolveIac
<1>3. CASE /\ job' = [job EXCEPT ![j].pc = "trigger", ![j].iac = ResolveSha(infra, job[j].args.iacRef)]
           /\ UNCHANGED backends
  <2>1. job'[j] = [job[j] EXCEPT !.pc = "trigger", !.iac = ResolveSha(infra, job[j].args.iacRef)]
        /\ job' = [job EXCEPT ![j] = job'[j]]
    BY <1>3 DEF TypeInv, TypeOK
  <2>2. /\ job'[j].pc = "trigger" /\ job'[j].args = job[j].args /\ job'[j].from = job[j].from
        /\ job'[j].iac = ResolveSha(infra, job[j].args.iacRef) /\ job'[j].sent = job[j].sent
    BY <1>1, <2>1 DEF JobStates
  <2>3. RunsMain(j)' /\ Earned(j)'
    BY <2>2 DEF RunsMain, Earned, At, FlowInv, ResolveIac, world
  <2>4. ~(IsRequest(j) /\ job[j].from.type = "prod")
    BY DEF ResolveIac, FlowInv, Reviewed, At
  <2>5. Reviewed(j)'
    BY <2>2, <2>4 DEF Reviewed, IsRequest
  <2>. QED  BY <1>3, <2>1, <2>3, <2>5, FlowStep DEF ResolveIac, backends
<1>. QED  BY <1>2, <1>3 DEF ResolveIac

LEMMA FlowTrigger == ASSUME TypeInv, FlowInv, NEW j \in Jobs, Trigger(j) PROVE FlowInv'
<1> DEFINE k == KeyOf(j)
<1>1. k \in Keys /\ job[j].args \in Args /\ job[j] \in JobStates
  BY DEF Trigger, TypeInv, TypeOK, Phased, At, Early
<1>2. CASE Red(j)
  BY <1>2, FlowRed DEF Trigger
<1>3. CASE ~Red(j)
  <2>1. PICK pc \in {IF job[j].args.wait THEN "poll" ELSE "green", "red"} :
          job' = [job EXCEPT ![j].pc = pc, ![j].sent = TRUE]
    BY <1>3 DEF Trigger
  <2>2. job'[j] = [job[j] EXCEPT !.pc = pc, !.sent = TRUE] /\ job' = [job EXCEPT ![j] = job'[j]]
    BY <2>1 DEF TypeInv, TypeOK
  <2>3. /\ job'[j].pc = pc /\ job'[j].args = job[j].args /\ job'[j].from = job[j].from
        /\ job'[j].iac = job[j].iac
    BY <1>1, <2>2 DEF JobStates
  <2>4. \A x \in Keys : op'[x] = "completed" => op[x] = "completed"
    BY <1>1, <1>3 DEF Trigger, Runner!Accept, TypeInv, TypeOK, Runner!OpTypeOK
  <2>5. RunsMain(j)' /\ Earned(j)'
    BY <2>3 DEF RunsMain, Earned, At, FlowInv, Trigger, world
  <2>6. ~(IsRequest(j) /\ job[j].from.type = "prod")
    BY DEF Trigger, FlowInv, Reviewed, At
  <2>7. Reviewed(j)'
    BY <2>3, <2>6 DEF Reviewed, IsRequest
  <2>. QED  BY <1>3, <2>2, <2>4, <2>5, <2>7, FlowStep DEF Trigger
<1>. QED  BY <1>2, <1>3

LEMMA FlowPoll == ASSUME TypeInv, FlowInv, NEW j \in Jobs, Poll(j) PROVE FlowInv'
<1> DEFINE k == KeyOf(j)
<1>1. k \in Keys /\ job[j].args \in Args /\ job[j] \in JobStates
  BY DEF Poll, TypeInv, TypeOK, Phased, At, Early
<1>2. ~(IsRequest(j) /\ job[j].from.type = "prod")
  BY DEF Poll, FlowInv, Reviewed, At
<1>3. CASE job' = [job EXCEPT ![j].tries = @ + 1] /\ UNCHANGED backends
  <2>1. job'[j] = [job[j] EXCEPT !.tries = @ + 1] /\ job' = [job EXCEPT ![j] = job'[j]]
    BY <1>3 DEF TypeInv, TypeOK
  <2>2. /\ job'[j].pc = job[j].pc /\ job'[j].args = job[j].args /\ job'[j].from = job[j].from
        /\ job'[j].iac = job[j].iac /\ job'[j].sent = job[j].sent
    BY <1>1, <2>1 DEF JobStates
  <2>3. RunsMain(j)' /\ Earned(j)' /\ Reviewed(j)'
    BY <1>2, <2>2 DEF RunsMain, Earned, At, FlowInv, Poll, world, Reviewed, IsRequest
  <2>. QED  BY <1>3, <2>1, <2>3, FlowStep DEF Poll, backends
<1>4. ASSUME NEW pc \in {"green", "red"}, Step(j, pc), UNCHANGED <<op, completed, live>>,
             pc = "green" => Succeeded(op[k])
      PROVE  FlowInv'
  <2>1. /\ job'[j].pc = pc /\ job'[j].args = job[j].args /\ job'[j].sent = job[j].sent
        /\ job'[j].from = job[j].from /\ job'[j].iac = job[j].iac
        /\ job' = [job EXCEPT ![j] = job'[j]]
    BY <1>4, PhaseStep DEF Phases
  <2>2. pc = "green" => k \in completed
    BY <1>1, <1>4 DEF FlowInv, CompletedIsKnown, Succeeded
  <2>3. RunsMain(j)' /\ Reviewed(j)'
    BY <1>2, <2>1 DEF RunsMain, At, FlowInv, Poll, world, Reviewed, IsRequest
  <2>4. Earned(j)'
    BY <1>4, <2>1, <2>2 DEF Earned, At, KeyOf
  <2>. QED  BY <1>4, <2>1, <2>3, <2>4, FlowStep DEF Poll
<1>. QED  BY <1>3, <1>4 DEF Poll

(* The application path.                                                   *)
LEMMA FlowApp ==
  ASSUME TypeInv, FlowInv, NEW j \in Jobs,
         ResolveVersion(j) \/ MakeTarget(j) \/ WaitForImages(j) \/ Backend(j)
  PROVE  FlowInv'
<1>1. job[j].args \in Args /\ job[j] \in JobStates
  BY DEF ResolveVersion, MakeTarget, WaitForImages, Backend, TypeInv, TypeOK, Phased, At, Early
<1>2. CASE Red(j)
  BY <1>2, FlowRed DEF ResolveVersion, MakeTarget, WaitForImages, Backend
<1>3. CASE ResolveVersion(j) /\ ~Red(j)
  <2> DEFINE code == ResolveSha(app, job[j].args.version)
  <2>1. job'[j] = [job[j] EXCEPT !.pc = "target", !.code = code] /\ job' = [job EXCEPT ![j] = job'[j]]
    BY <1>3 DEF ResolveVersion, TypeInv, TypeOK
  <2>2. /\ job'[j].pc = "target" /\ job'[j].args = job[j].args /\ job'[j].sent = job[j].sent
        /\ job'[j].from = job[j].from /\ job'[j].code = code /\ job'[j].iac = job[j].iac
    BY <1>1, <2>1 DEF JobStates
  <2>3. RunsMain(j)' /\ Earned(j)'
    BY <1>3, <2>2 DEF RunsMain, Earned, At, FlowInv, ResolveVersion, world
  <2>4. ASSUME IsRequest(j), job[j].from.type = "prod"
        PROVE  code = job[j].from.sha
    <3>1. job[j].args.expected = job[j].from.sha
      BY <1>3, <2>4 DEF FlowInv, Reviewed, ResolveVersion, At
    <3>2. job[j].from.sha # NoCommit
      BY <2>4, FromType, ReleaseAssumption, CommitsType DEF Requests
    <3>. QED  BY <1>3, <3>1, <3>2 DEF ResolveVersion, ExpectedSha
  <2>5. Reviewed(j)'
    BY <1>3, <2>2, <2>4 DEF Reviewed, IsRequest, FlowInv, ResolveVersion, At
  <2>. QED  BY <1>3, <2>1, <2>3, <2>5, FlowStep DEF ResolveVersion, backends
<1>4. CASE MakeTarget(j) /\ ~Red(j)
  <2> DEFINE iac == ResolveSha(infra, job[j].args.iacRef)
  <2>1. job'[j] = [job[j] EXCEPT !.pc = "images", !.iac = iac] /\ job' = [job EXCEPT ![j] = job'[j]]
    BY <1>4 DEF MakeTarget, TypeInv, TypeOK
  <2>2. /\ job'[j].pc = "images" /\ job'[j].args = job[j].args /\ job'[j].sent = job[j].sent
        /\ job'[j].from = job[j].from /\ job'[j].code = job[j].code /\ job'[j].iac = iac
    BY <1>1, <2>1 DEF JobStates
  <2>3. RunsMain(j)' /\ Earned(j)'
    BY <1>4, <2>2 DEF RunsMain, Earned, At, FlowInv, MakeTarget, world
  <2>4. Reviewed(j)'
    BY <1>4, <2>2 DEF Reviewed, IsRequest, FlowInv, MakeTarget, At
  <2>. QED  BY <1>4, <2>1, <2>3, <2>4, FlowStep DEF MakeTarget, backends
<1>5. ASSUME NEW pc \in {"backend", "red"}, Step(j, pc), UNCHANGED <<world, backends>>, At(j, "images") \/ At(j, "backend")
      PROVE  FlowInv'
  <2>1. /\ job'[j].pc = pc /\ job'[j].args = job[j].args /\ job'[j].sent = job[j].sent
        /\ job'[j].from = job[j].from /\ job'[j].code = job[j].code /\ job'[j].iac = job[j].iac
        /\ job' = [job EXCEPT ![j] = job'[j]]
    BY <1>5, PhaseStep DEF Phases
  <2>2. RunsMain(j)' /\ Earned(j)'
    BY <1>5, <2>1 DEF RunsMain, Earned, At, FlowInv, world
  <2>3. Reviewed(j)'
    BY <1>5, <2>1 DEF Reviewed, IsRequest, FlowInv, At
  <2>. QED  BY <1>5, <2>1, <2>2, <2>3, FlowStep DEF backends
<1>6. CASE WaitForImages(j) /\ job' = [job EXCEPT ![j].tries = @ + 1]
  <2>1. job'[j] = [job[j] EXCEPT !.tries = @ + 1] /\ job' = [job EXCEPT ![j] = job'[j]]
    BY <1>6 DEF TypeInv, TypeOK
  <2>2. /\ job'[j].pc = job[j].pc /\ job'[j].args = job[j].args /\ job'[j].from = job[j].from
        /\ job'[j].iac = job[j].iac /\ job'[j].sent = job[j].sent /\ job'[j].code = job[j].code
    BY <1>1, <2>1 DEF JobStates
  <2>3. RunsMain(j)' /\ Earned(j)' /\ Reviewed(j)'
    BY <1>6, <2>2 DEF RunsMain, Earned, At, FlowInv, WaitForImages, world, Reviewed, IsRequest
  <2>. QED  BY <1>6, <2>1, <2>3, FlowStep DEF WaitForImages, backends
<1>7. CASE Backend(j) /\ ~Step(j, "red")
  <2>1. PICK pc \in {"green", "red"} :
          job' = [job EXCEPT ![j].pc = pc, ![j].sent = TRUE, ![j].pulled = ImageNow(j)]
    BY <1>7 DEF Backend
  <2>2. /\ job'[j] = [job[j] EXCEPT !.pc = pc, !.sent = TRUE, !.pulled = ImageNow(j)]
        /\ job' = [job EXCEPT ![j] = job'[j]]
    BY <2>1 DEF TypeInv, TypeOK
  <2>3. /\ job'[j].pc = pc /\ job'[j].args = job[j].args /\ job'[j].from = job[j].from
        /\ job'[j].iac = job[j].iac /\ job'[j].code = job[j].code
    BY <1>1, <2>2 DEF JobStates
  <2>4. ~(job[j].args.services \subseteq Pinned)
    <3>1. Service(j) \in AppServices /\ job[j].args.services # {}
      BY <1>1, <1>7 DEF Backend, TypeInv, Phased, Args
    <3>. QED  BY <3>1, ServiceOf, ContractAssumption
  <2>5. RunsMain(j)' /\ Earned(j)'
    BY <1>7, <2>3, <2>4 DEF RunsMain, Earned, At, FlowInv, Backend, world
  <2>6. Reviewed(j)'
    BY <1>7, <2>3 DEF Reviewed, IsRequest, FlowInv, Backend, At
  <2>. QED  BY <1>7, <2>2, <2>5, <2>6, FlowStep DEF Backend, backends
<1>8. CASE Backend(j) /\ Step(j, "red")
  BY <1>5, <1>8 DEF Backend
<1>9. CASE WaitForImages(j) /\ job' # [job EXCEPT ![j].tries = @ + 1]
  BY <1>5, <1>9 DEF WaitForImages
<1>. QED  BY <1>2, <1>3, <1>4, <1>6, <1>7, <1>8, <1>9

LEMMA FlowStart == ASSUME TypeInv, FlowInv, NEW j \in Jobs, Start(j) PROVE FlowInv'
<1>1. job[j] = NoJob
  BY DEF Start, TypeInv, Phased
<1>2. ASSUME NEW a \in Commands, Call(j, a) PROVE FlowInv'
  <2>1. job[j].from = <<>> /\ ~job[j].sent
    BY <1>1 DEF NoJob
  <2>. QED  BY <1>2, <2>1, FlowCall, ReleaseAssumption DEF Start
<1>3. ASSUME NEW pc \in {"reconcile", "plan"}, NEW of \in Reconciles \cup Asked, Begin(j, pc, of),
             pc = "plan" => of \in Asked, pc = "reconcile" => of \in Reconciles
      PROVE  FlowInv'
  <2>1. job'[j] = [NoJob EXCEPT !.pc = pc, !.from = of] /\ job' = [job EXCEPT ![j] = job'[j]]
    BY <1>1, <1>3 DEF Begin, TypeInv, TypeOK
  <2>2. job'[j].pc = pc /\ job'[j].from = of /\ job'[j].args = <<>> /\ ~job'[j].sent
    BY <2>1 DEF NoJob
  <2>3. <<>> \notin Args
    BY DEF Args
  <2>4. pc = "reconcile" => ~IsRequest(j)'
    <3>1. \A r \in Reconciles : "sha" \notin DOMAIN r
      BY ReleaseAssumption
    <3>. QED  BY <1>3, <2>2, <3>1 DEF IsRequest
  <2>5. RunsMain(j)' /\ Earned(j)' /\ Reviewed(j)'
    BY <1>3, <2>2, <2>3, <2>4 DEF RunsMain, Earned, At, Reviewed
  <2>. QED  BY <2>1, <2>5, FlowStep DEF Start, backends
<1>. QED  BY <1>2, <1>3 DEF Start

LEMMA FlowRunner == ASSUME TypeInv, FlowInv, RunnerStep PROVE FlowInv'
<1>1. PICK k \in Keys :
        \/ UNCHANGED <<op, completed>>
        \/ /\ Runner!Settle(k)
           /\ op'[k] = "completed" => completed' = completed \cup {k}
           /\ op'[k] # "completed" => completed' = completed
        \/ Runner!Forget(k) /\ UNCHANGED completed
        \/ Runner!Lose /\ UNCHANGED completed
  BY DEF RunnerStep
<1>2. CompletedIsKnown'
  BY <1>1 DEF CompletedIsKnown, FlowInv, Runner!Settle, Runner!Forget, Runner!Lose, TypeInv, TypeOK, Runner!OpTypeOK
<1>3. \A j \in Jobs : Reviewed(j)' /\ RunsMain(j)' /\ Earned(j)'
  BY <1>1 DEF RunnerStep, world, FlowInv, Reviewed, RunsMain, Earned, At, IsRequest, KeyOf
<1>. QED  BY <1>2, <1>3 DEF FlowInv

(* Main grows, and a tag of infra2 is cut once.                            *)
LEMMA MainGrows ==
  ASSUME TypeInv, World
  PROVE  /\ \A c : OnMain(infra, c) => OnMain(infra, c)'
         /\ \A v \in Tags : infra.tag[v] # NoCommit => infra'.tag[v] = infra.tag[v]
         /\ \A ref \in Refs : OnMain(infra, ResolveSha(infra, ref)) => OnMain(infra, ResolveSha(infra, ref))'
<1>1. infra \in Repos /\ infra' \in Repos
  BY WorldTypes DEF TypeInv, TypeOK
<1>2. infra'.tip >= infra.tip /\ infra'.pull = infra.pull
  <2>1. infra.tip \in Nat
    BY <1>1, RefsAssumption DEF Repos
  <2>2. \/ infra' = [infra EXCEPT !.tip = @ + 1]
        \/ \E v, c : infra' = [infra EXCEPT !.tag[v] = c]
        \/ infra' = infra
    BY DEF World, Advance, CutTag, MoveApp, Publish
  <2>3. infra'.pull = infra.pull /\ (infra'.tip = infra.tip + 1 \/ infra'.tip = infra.tip)
    BY <1>1, <2>2 DEF Repos
  <2>. QED  BY <2>1, <2>3
<1>3. \A v \in Tags : infra.tag[v] # NoCommit => infra'.tag[v] = infra.tag[v]
  BY <1>1 DEF World, Advance, CutTag, MoveApp, Publish, Repos
<1>4. \A c : OnMain(infra, c) => OnMain(infra', c)
  BY <1>1, <1>2, RefsAssumption DEF OnMain, Repos
<1>5. ASSUME NEW ref \in Refs, OnMain(infra, ResolveSha(infra, ref))
      PROVE  OnMain(infra', ResolveSha(infra', ref))
  <2>1. CASE ref.form = "tag"
    <3>1. ResolveSha(infra, ref) # NoCommit
      BY <1>1, <1>5 DEF OnMain, NoCommit, Repos
    <3>. QED  BY <1>1, <1>3, <1>4, <1>5, <2>1, <3>1, ResolveShaType
  <2>2. CASE ref.form = "branch"
    BY <1>1, <2>2, RefsAssumption DEF ResolveSha, OnMain, Repos
  <2>3. CASE ref.form = "sha"
    BY <1>4, <1>5, <2>3 DEF ResolveSha
  <2>4. CASE ref.form = "pr"
    BY <1>2, <1>4, <1>5, <2>4 DEF ResolveSha
  <2>. QED  BY <2>1, <2>2, <2>3, <2>4 DEF Refs
<1>. QED  BY <1>3, <1>4, <1>5

LEMMA FlowWorld == ASSUME TypeInv, FlowInv, World PROVE FlowInv'
<1>1. job' = job /\ op' = op /\ completed' = completed
  BY DEF World, backends
<1>2. \A j \in Jobs : job[j].args \in Args => job[j].args.iacRef \in Refs
  BY DEF Args
<1>3. \A j \in Jobs : Reviewed(j)' /\ RunsMain(j)' /\ Earned(j)'
  BY <1>1, <1>2, MainGrows DEF FlowInv, Reviewed, RunsMain, Earned, At, IsRequest, KeyOf
<1>. QED  BY <1>1, <1>3 DEF FlowInv, CompletedIsKnown

LEMMA FlowInvariantStep == TypeInv /\ FlowInv /\ [Next]_vars => FlowInv'
<1> SUFFICES ASSUME TypeInv, FlowInv, [Next]_vars PROVE FlowInv'
  OBVIOUS
<1>1. ASSUME NEW j \in Jobs, Start(j) \/ Work(j) PROVE FlowInv'
  BY <1>1, FlowStart, FlowReconcile, FlowPlan, FlowOnMain, FlowResolveIac, FlowTrigger, FlowPoll, FlowApp,
     FlowRed DEF Work, CanaryFails
<1>2. CASE UNCHANGED vars
  BY <1>2 DEF vars, FlowInv, CompletedIsKnown, Reviewed, RunsMain, Earned, At, IsRequest, KeyOf
<1>. QED  BY <1>1, <1>2, FlowRunner, FlowWorld DEF Next, AllDone

LEMMA FlowInvariant == Spec => []FlowInv
BY FlowInit, FlowInvariantStep, TypeInvariant, PTL DEF Spec

(* The image of a tag that was never cut anew is that of its commit, and   *)
(* the tag of a production request is such a tag until its image is        *)
(* pulled, or has been cut anew since.                                     *)
Steady == \A v \in Tags \ recut : image[v] \in {NoCommit, app.tag[v]}

Promotes(j) ==
  IsRequest(j) /\ job[j].from.type = "prod" =>
    LET v == job[j].from.version.of
    IN  /\ job[j].pc \in {"onmain", "resolve", "target", "images", "backend"} =>
             job[j].args.version = job[j].from.version /\ job[j].args.type = "prod"
        /\ job[j].pc \in {"target", "images", "backend"} =>
             job[j].from.version.form = "tag" /\ v \in Tags /\ (v \notin recut => app.tag[v] = job[j].from.sha)
        /\ At(j, "backend") /\ v \notin recut => image[v] # NoCommit
        /\ job[j].sent /\ v \notin recut => job[j].pulled = job[j].from.sha

ImageInv == Steady /\ \A j \in Jobs : Promotes(j)

LEMMA ImageInit == Init => ImageInv
<1> SUFFICES ASSUME Init PROVE ImageInv
  OBVIOUS
<1>1. \A j \in Jobs : ~IsRequest(j)
  BY DEF Init, NoJob, IsRequest
<1>. QED  BY <1>1 DEF ImageInv, Steady, Promotes, Init

(* A step of job j alone; if the job is no request for production, there   *)
(* is nothing more to show.                                                *)
LEMMA ImageJob ==
  ASSUME TypeInv, ImageInv, NEW j \in Jobs, job' = [job EXCEPT ![j] = job'[j]], UNCHANGED world,
         job'[j].from = job[j].from /\ IsRequest(j) /\ job[j].from.type = "prod" => Promotes(j)',
         job'[j].from = job[j].from \/ ~IsRequest(j)' \/ (job'[j].pc \in Early /\ ~job'[j].sent)
  PROVE  ImageInv'
<1>1. \A i \in Jobs \ {j} : job'[i] = job[i]
  BY DEF TypeInv, TypeOK
<1>2. \A i \in Jobs \ {j} : Promotes(i)'
  BY <1>1 DEF ImageInv, Promotes, At, IsRequest, world
<1>3. Promotes(j)'
  BY DEF Promotes, IsRequest, At, Early
<1>. QED  BY <1>2, <1>3 DEF ImageInv, Steady, world

LEMMA ImageRed == ASSUME TypeInv, ImageInv, NEW j \in Jobs, Red(j), UNCHANGED world PROVE ImageInv'
<1>1. job'[j] = [NoJob EXCEPT !.pc = "red"] /\ job' = [job EXCEPT ![j] = job'[j]]
  BY DEF Red, TypeInv, TypeOK
<1>2. job'[j].pc = "red" /\ job'[j].from = <<>> /\ ~job'[j].sent
  BY <1>1 DEF NoJob
<1>3. ~IsRequest(j)'
  BY <1>2 DEF IsRequest
<1>. QED  BY <1>1, <1>2, <1>3, ImageJob DEF Promotes

(* The jobs of infra2's own services: no request for production is there.  *)
LEMMA ImageElsewhere ==
  ASSUME TypeInv, FlowInv, ImageInv, NEW j \in Jobs,
         Reconcile(j) \/ ResolveIac(j) \/ Trigger(j) \/ Poll(j)
  PROVE  ImageInv'
<1>1. UNCHANGED world
  BY DEF Reconcile, AfterOnMain, ResolveIac, Trigger, Poll
<1>2. ~(IsRequest(j) /\ job[j].from.type = "prod")
  BY DEF Reconcile, AfterOnMain, ResolveIac, Trigger, Poll, FlowInv, Reviewed, At
<1>3. CASE Red(j)
  BY <1>1, <1>3, ImageRed
<1>4. CASE ~Red(j)
  <2>1. job[j] \in JobStates /\ job \in [Jobs -> JobStates]
    BY DEF TypeInv, TypeOK
  <2>2. \/ \E pc : Step(j, pc)
        \/ \E a : Call(j, a)
        \/ \E iac : job' = [job EXCEPT ![j].pc = "trigger", ![j].iac = iac]
        \/ \E pc : job' = [job EXCEPT ![j].pc = pc, ![j].sent = TRUE]
        \/ job' = [job EXCEPT ![j].tries = @ + 1]
    BY <1>4 DEF Reconcile, AfterOnMain, ResolveIac, Trigger, Poll
  <2>3. job' = [job EXCEPT ![j] = job'[j]] /\ job'[j].from = job[j].from
    BY <2>1, <2>2 DEF Step, Call, JobStates
  <2>. QED  BY <1>1, <1>2, <2>3, ImageJob
<1>. QED  BY <1>3, <1>4

LEMMA ImagePlan == ASSUME TypeInv, ImageInv, NEW j \in Jobs, Plan(j) PROVE ImageInv'
<1>1. /\ job[j].from \in Asked /\ ~job[j].sent /\ UNCHANGED world
      /\ job[j] \in JobStates /\ job \in [Jobs -> JobStates]
  BY DEF Plan, TypeInv, TypeOK, Phased, At, Early
<1>2. CASE Red(j)
  BY <1>1, <1>2, ImageRed
<1>3. CASE Step(j, "replan")
  <2>1. /\ job' = [job EXCEPT ![j] = job'[j]] /\ job'[j].pc = "replan"
        /\ job'[j].from = job[j].from /\ ~job'[j].sent
    BY <1>1, <1>3, PhaseStep DEF Phases
  <2>2. Promotes(j)'
    BY <2>1 DEF Promotes, At
  <2>. QED  BY <1>1, <2>1, <2>2, ImageJob
<1>4. ASSUME NEW ref, Call(j, PlanArgs(job[j].from, ref)) PROVE ImageInv'
  <2>1. /\ job' = [job EXCEPT ![j] = job'[j]] /\ job'[j].args = PlanArgs(job[j].from, ref)
        /\ job'[j].from = job[j].from /\ ~job'[j].sent /\ job'[j].pc = Entry(PlanArgs(job[j].from, ref))
    BY <1>1, <1>4 DEF Call, JobStates
  <2>2. job'[j].args.version = job[j].from.version /\ job'[j].args.type = job[j].from.type
    BY <2>1 DEF PlanArgs
  <2>3. job'[j].pc \in {"down", "red", "batch", "onmain"}
    BY <2>1 DEF Entry, PlanArgs
  <2>4. job[j].from.type = "prod" => Promotes(j)'
    BY <2>1, <2>2, <2>3 DEF Promotes, At
  <2>. QED  BY <1>1, <2>1, <2>4, ImageJob
<1>. QED  BY <1>2, <1>3, <1>4 DEF Plan

(* The application path of a production request.                           *)
LEMMA ImageApp ==
  ASSUME TypeInv, FlowInv, ImageInv, NEW j \in Jobs,
         AssertIacRefOnMain(j) \/ Down(j) \/ ResolveVersion(j) \/ MakeTarget(j) \/ WaitForImages(j) \/ Backend(j)
  PROVE  ImageInv'
<1>1. /\ UNCHANGED world /\ job[j].args \in Args
      /\ job[j] \in JobStates /\ job \in [Jobs -> JobStates]
  BY DEF AssertIacRefOnMain, Down, ResolveVersion, MakeTarget, WaitForImages, Backend,
         TypeInv, TypeOK, Phased, At, Early
<1>2. CASE Red(j)
  BY <1>1, <1>2, ImageRed
<1>3. ASSUME NEW pc \in {"platform", "resolve", "green", "backend", "red"}, Step(j, pc),
             job[j].pc \in {"onmain", "down", "images", "backend"},
             pc = "resolve" => At(j, "onmain"),
             pc = "backend" => At(j, "images") /\ ImageNow(j) # NoCommit
      PROVE  ImageInv'
  <2>1. /\ job' = [job EXCEPT ![j] = job'[j]] /\ job'[j].pc = pc /\ job'[j].args = job[j].args
        /\ job'[j].from = job[j].from /\ job'[j].sent = job[j].sent /\ job'[j].pulled = job[j].pulled
    BY <1>1, <1>3 DEF Step, JobStates
  <2>2. ASSUME IsRequest(j), job[j].from.type = "prod" PROVE Promotes(j)'
    <3>1. Promotes(j)
      BY DEF ImageInv
    <3>2. pc = "backend" => image[job[j].from.version.of] # NoCommit
      BY <1>3, <2>2, <3>1 DEF Promotes, At, ImageNow, ByTag
    <3>. QED  BY <1>1, <1>3, <2>1, <2>2, <3>1, <3>2 DEF Promotes, At, IsRequest, world
  <2>. QED  BY <1>1, <2>1, <2>2, ImageJob
<1>4. CASE ResolveVersion(j) /\ ~Red(j)
  <2> DEFINE code == ResolveSha(app, job[j].args.version)
  <2>1. /\ job' = [job EXCEPT ![j] = job'[j]] /\ job'[j].pc = "target" /\ job'[j].args = job[j].args
        /\ job'[j].from = job[j].from /\ job'[j].sent = job[j].sent /\ job'[j].pulled = job[j].pulled
    BY <1>1, <1>4 DEF ResolveVersion, JobStates
  <2>2. ASSUME IsRequest(j), job[j].from.type = "prod" PROVE Promotes(j)'
    <3>1. Promotes(j) /\ job[j].args.version = job[j].from.version /\ job[j].args.type = "prod"
      BY <1>4, <2>2 DEF ImageInv, Promotes, ResolveVersion, At
    <3>2. job[j].args.version.form = "tag" /\ code # NoCommit /\ job[j].args.version \in Refs
      BY <1>1, <1>4, <3>1 DEF ResolveVersion, VersionFormAccepted, AcceptedForms, FixedTypes, Args
    <3>3. job[j].args.version.of \in Tags /\ code = app.tag[job[j].args.version.of]
      BY <3>2, ResolveShaType DEF TypeInv, TypeOK
    <3>4. job[j].args.expected = job[j].from.sha /\ job[j].from.sha # NoCommit
      BY <1>4, <2>2, FromType, ReleaseAssumption, CommitsType
         DEF FlowInv, Reviewed, ResolveVersion, At, Requests
    <3>5. code = job[j].from.sha
      BY <1>4, <3>4 DEF ResolveVersion, ExpectedSha
    <3>. QED  BY <1>1, <2>1, <2>2, <3>1, <3>2, <3>3, <3>5 DEF Promotes, At, IsRequest, world
  <2>. QED  BY <1>1, <2>1, <2>2, ImageJob
<1>5. CASE MakeTarget(j) /\ ~Red(j)
  <2>1. /\ job' = [job EXCEPT ![j] = job'[j]] /\ job'[j].pc = "images" /\ job'[j].args = job[j].args
        /\ job'[j].from = job[j].from /\ job'[j].sent = job[j].sent /\ job'[j].pulled = job[j].pulled
    BY <1>1, <1>5 DEF MakeTarget, JobStates
  <2>2. ASSUME IsRequest(j), job[j].from.type = "prod" PROVE Promotes(j)'
    BY <1>1, <1>5, <2>1, <2>2 DEF ImageInv, Promotes, At, IsRequest, world, MakeTarget
  <2>. QED  BY <1>1, <2>1, <2>2, ImageJob
<1>6. CASE WaitForImages(j) /\ job' = [job EXCEPT ![j].tries = @ + 1]
  <2>1. /\ job' = [job EXCEPT ![j] = job'[j]] /\ job'[j].pc = job[j].pc /\ job'[j].args = job[j].args
        /\ job'[j].from = job[j].from /\ job'[j].sent = job[j].sent /\ job'[j].pulled = job[j].pulled
    BY <1>1, <1>6 DEF JobStates
  <2>2. ASSUME IsRequest(j), job[j].from.type = "prod" PROVE Promotes(j)'
    BY <1>1, <2>1, <2>2 DEF ImageInv, Promotes, At, IsRequest, world
  <2>. QED  BY <1>1, <2>1, <2>2, ImageJob
<1>7. CASE Backend(j) /\ ~Step(j, "red")
  <2>1. PICK pc \in {"green", "red"} :
          job' = [job EXCEPT ![j].pc = pc, ![j].sent = TRUE, ![j].pulled = ImageNow(j)]
    BY <1>7 DEF Backend
  <2>2. /\ job' = [job EXCEPT ![j] = job'[j]] /\ job'[j].pc = pc /\ job'[j].pulled = ImageNow(j)
        /\ job'[j].from = job[j].from
    BY <1>1, <2>1 DEF JobStates
  <2>3. ASSUME IsRequest(j), job[j].from.type = "prod" PROVE Promotes(j)'
    <3> DEFINE v == job[j].from.version.of
    <3>1. Promotes(j) /\ At(j, "backend") /\ Steady
      BY <1>7 DEF ImageInv, Backend
    <3>2. ImageNow(j) = image[v] /\ v \in Tags
      BY <2>3, <3>1 DEF Promotes, At, ImageNow, ByTag
    <3>3. v \notin recut => ImageNow(j) = job[j].from.sha
      BY <2>3, <3>1, <3>2 DEF Promotes, At, Steady
    <3>. QED  BY <1>1, <2>2, <3>3 DEF Promotes, At, IsRequest, world
  <2>. QED  BY <1>1, <2>2, <2>3, ImageJob
<1>8. CASE AssertIacRefOnMain(j) /\ ~Red(j)
  BY <1>3, <1>8 DEF AssertIacRefOnMain, At
<1>9. CASE Down(j) /\ ~Red(j)
  BY <1>3, <1>9 DEF Down, At
<1>10. CASE WaitForImages(j) /\ job' # [job EXCEPT ![j].tries = @ + 1]
  BY <1>3, <1>10 DEF WaitForImages, At
<1>11. CASE Backend(j) /\ Step(j, "red")
  BY <1>3, <1>11 DEF Backend, At
<1>. QED  BY <1>2, <1>4, <1>5, <1>6, <1>7, <1>8, <1>9, <1>10, <1>11

LEMMA ImageStart == ASSUME TypeInv, ImageInv, NEW j \in Jobs, Start(j) PROVE ImageInv'
<1>1. job[j] = NoJob /\ UNCHANGED world /\ job \in [Jobs -> JobStates]
  BY DEF Start, TypeInv, TypeOK, Phased
<1>2. ASSUME NEW a, Call(j, a) PROVE ImageInv'
  <2>1. job' = [job EXCEPT ![j] = job'[j]] /\ job'[j] = [NoJob EXCEPT !.pc = Entry(a), !.args = a]
    BY <1>1, <1>2 DEF Call
  <2>2. job'[j].from = <<>>
    BY <2>1 DEF NoJob
  <2>3. ~IsRequest(j)'
    BY <2>2 DEF IsRequest
  <2>. QED  BY <1>1, <2>1, <2>3, ImageJob DEF Promotes
<1>3. ASSUME NEW pc \in {"reconcile", "plan"}, NEW of, Begin(j, pc, of) PROVE ImageInv'
  <2>1. job' = [job EXCEPT ![j] = job'[j]] /\ job'[j] = [NoJob EXCEPT !.pc = pc, !.from = of]
    BY <1>1, <1>3 DEF Begin
  <2>3. job'[j].pc = pc /\ ~job'[j].sent
    BY <2>1 DEF NoJob
  <2>2. Promotes(j)'
    BY <2>3 DEF Promotes, At
  <2>. QED  BY <1>1, <2>1, <2>2, <2>3, ImageJob DEF Early
<1>. QED  BY <1>2, <1>3 DEF Start

LEMMA ImageWorld == ASSUME TypeInv, FlowInv, ImageInv, World PROVE ImageInv'
<1>1. UNCHANGED job /\ app \in Repos /\ image \in [Tags -> Commits \cup {NoCommit}]
  BY DEF World, TypeInv, TypeOK
<1>2. ASSUME NEW v \in Tags, v \notin recut'
      PROVE  v \notin recut /\ app'.tag[v] = app.tag[v] /\ image'[v] \in {image[v], app.tag[v]}
  BY <1>1, <1>2 DEF World, Advance, CutTag, MoveApp, Publish, Repos
<1>3. Steady'
  BY <1>2 DEF ImageInv, Steady
<1>4. \A v : v \notin recut' => v \notin recut
  BY DEF World, Advance, CutTag, MoveApp, Publish
<1>5. ASSUME NEW j \in Jobs, IsRequest(j), job[j].from.type = "prod" PROVE Promotes(j)'
  <2> DEFINE v == job[j].from.version.of
  <2>1. Promotes(j) /\ job[j].from.sha # NoCommit
    BY <1>5, FromType, ReleaseAssumption, CommitsType DEF ImageInv, Requests
  <2>2. job[j].pc \in {"target", "images", "backend"} /\ v \notin recut' => app'.tag[v] = job[j].from.sha
    BY <1>2, <1>4, <1>5, <2>1 DEF Promotes
  <2>3. At(j, "backend") /\ v \notin recut' => image'[v] # NoCommit
    BY <1>2, <1>4, <1>5, <2>1 DEF Promotes, At
  <2>. QED  BY <1>1, <1>4, <1>5, <2>1, <2>2, <2>3 DEF Promotes, At, IsRequest
<1>6. \A j \in Jobs : Promotes(j)'
  BY <1>1, <1>5 DEF Promotes, IsRequest
<1>. QED  BY <1>3, <1>6 DEF ImageInv

LEMMA ImageInvariantStep == TypeInv /\ FlowInv /\ ImageInv /\ [Next]_vars => ImageInv'
<1> SUFFICES ASSUME TypeInv, FlowInv, ImageInv, [Next]_vars PROVE ImageInv'
  OBVIOUS
<1>1. ASSUME NEW j \in Jobs, Start(j) \/ Work(j) PROVE ImageInv'
  BY <1>1, ImageStart, ImageElsewhere, ImagePlan, ImageApp, ImageRed DEF Work, CanaryFails
<1>2. CASE UNCHANGED <<world, job>>
  BY <1>2 DEF ImageInv, Steady, Promotes, At, IsRequest, world
<1>. QED  BY <1>1, <1>2, ImageWorld DEF Next, AllDone, RunnerStep, vars, world

LEMMA ImageInvariant == Spec => []ImageInv
BY ImageInit, ImageInvariantStep, TypeInvariant, FlowInvariant, PTL DEF Spec

(* What a request brings to production is the commit that was reviewed and *)
(* ran in staging under its version, however tags are cut anew before it   *)
(* is resolved; and the images pulled by the tag's name hold that commit,  *)
(* whenever they are published, unless the application cuts that tag anew. *)
THEOREM ProductionCorrect == Spec => []ProductionIsReviewedAndStaged
<1>1. FlowInv /\ ImageInv => ProductionIsReviewedAndStaged
  BY DEF FlowInv, Reviewed, ImageInv, Promotes, ProductionIsReviewedAndStaged, EvidenceVerified, RunVerified,
         PullVerified
<1>. QED  BY <1>1, FlowInvariant, ImageInvariant, PTL

(* What a fixed environment gets is on main.                               *)
THEOREM MainCorrect == Spec => []FixedEnvRunsMain
<1>1. TypeInv /\ FlowInv => FixedEnvRunsMain
  <2> SUFFICES ASSUME TypeInv, FlowInv, NEW j \in Jobs, job[j].sent, job[j].args.type \in FixedTypes,
                      Cardinality(job[j].args.services) = 1 \/ job[j].from # <<>>
               PROVE  OnMain(infra, job[j].iac)
    BY DEF FixedEnvRunsMain
  <2>1. job[j].args \in Args
    BY DEF TypeInv, Phased
  <2>. QED  BY <2>1 DEF FlowInv, RunsMain
<1>. QED  BY <1>1, TypeInvariant, FlowInvariant, PTL

(* A platform job that waits ends green only when its operation completed. *)
THEOREM GreenCorrect == Spec => []GreenMeansCompleted
<1>1. FlowInv => GreenMeansCompleted
  BY DEF FlowInv, Earned, GreenMeansCompleted
<1>. QED  BY <1>1, FlowInvariant, PTL

-----------------------------------------------------------------------------
(* A tag is cut after the one before it.                                   *)
TagsFollow == \A v \in Tags : infra.tag[v] # NoCommit /\ v - 1 \in Tags => infra.tag[v - 1] # NoCommit

OneReconcile ==
  \A i, j \in Jobs : Active(i) /\ IsReconcile(i) /\ Active(j) /\ IsReconcile(j) => i = j

EnvOfRelease(from) == IF from.prod THEN "prod" ELSE "staging"

(* A reconcile that has called deploy_v2 brings what its tag says: all     *)
(* that it changed since the tag before, if the tags go along main.        *)
Releases(j) ==
  IsReconcile(j) /\ job[j].pc \in {"onmain", "platform", "batch", "trigger", "poll"} =>
    LET from == job[j].from
        v    == from.after.of
    IN  /\ job[j].args.type = EnvOfRelease(from)
        /\ job[j].args.iacRef = from.after
        /\ OnMain(infra, ResolveSha(infra, from.after))
        /\ from.after.form = "tag" =>
             /\ job[j].pc \in {"trigger", "poll"} => job[j].iac = infra.tag[v]
             /\ v - 1 \in Tags /\ CutAlongMain =>
                  job[j].args.services = PlannedServices(Changed(infra.tag[v - 1], infra.tag[v]), from.prod)

(* The reconcile of the next release waits for its operation.              *)
Rolling(j, env) ==
  /\ At(j, "poll") /\ IsReconcile(j) /\ job[j].args.type = env
  /\ job[j].from.after.form = "tag" /\ job[j].from.after.of = upTo[env] + 1

(* As long as an environment has had every release, only the next one is   *)
(* ever on its way there, and what has an answer is the next or older.     *)
OnlyTheNext(env) ==
  /\ infra.tag[upTo[env]] # NoCommit
  /\ \A j \in Jobs : At(j, "poll") /\ job[j].args.type = env => Rolling(j, env)
  /\ \A k \in Keys : k.env = env /\ op[k] # "not_found" =>
       \/ op[k] # "in_progress" /\ k.ref <= infra.tag[upTo[env]]
       \/ \E j \in Jobs : Rolling(j, env) /\ KeyOf(j) = k

(* Every service has the content of the last release, or the next one's    *)
(* already.                                                                *)
Current(env) ==
  /\ \A s \in BelongsTo(env) :
       \/ Content(s, live[env][s]) = Content(s, infra.tag[upTo[env]])
       \/ \E j \in Jobs : /\ Rolling(j, env) /\ s \in job[j].args.services
                          /\ live[env][s] = job[j].iac
  /\ \A j \in Jobs : Rolling(j, env) /\ op[KeyOf(j)] = "completed" =>
       \A s \in job[j].args.services : live[env][s] = job[j].iac

HistoryInv ==
  /\ TagsFollow /\ OneReconcile
  /\ \A j \in Jobs : Releases(j)
  /\ \A env \in FixedTypes : upTo[env] # NoCommit => OnlyTheNext(env) /\ Current(env)

LEMMA HistoryInit == Init => HistoryInv
<1> SUFFICES ASSUME Init PROVE HistoryInv
  OBVIOUS
<1>1. \A j \in Jobs : job[j] = NoJob
  BY DEF Init
<1>2. OneReconcile /\ \A j \in Jobs : Releases(j)
  BY <1>1 DEF OneReconcile, Releases, Active, NoJob
<1>3. TagsFollow
  BY RefsAssumption DEF Init, TagsFollow, NoCommit
<1>4. ASSUME NEW env \in FixedTypes PROVE OnlyTheNext(env) /\ Current(env)
  <2>1. infra.tag[upTo[env]] = 1
    BY <1>4, ReleaseAssumption DEF Init
  <2>2. \A j \in Jobs : ~At(j, "poll")
    BY <1>1 DEF At, NoJob
  <2>3. \A s \in Pinned : live[env][s] = 1
    BY <1>4 DEF Init
  <2>4. BelongsTo(env) \subseteq Pinned
    BY DEF BelongsTo
  <2>5. \A k \in Keys : op[k] = "not_found"
    BY DEF Init, Runner!Init
  <2>. QED  BY <2>1, <2>2, <2>3, <2>4, <2>5 DEF OnlyTheNext, Current, Rolling, NoCommit
<1>. QED  BY <1>2, <1>3, <1>4 DEF HistoryInv

(* The tag before a release in order.                                      *)
LEMMA BeforeInOrder ==
  ASSUME infra \in Repos, TagsFollow, CutAlongMain,
         NEW v \in Tags, v - 1 \in Tags, OnMain(infra, infra.tag[v])
  PROVE  Before(infra.tag[v]) = infra.tag[v - 1] /\ infra.tag[v - 1] \in 1..(infra.tag[v] - 1)
<1> DEFINE commit  == infra.tag[v]
           earlier == {w \in Tags : infra.tag[w] \in 1..(commit - 1)}
<1>1. commit \in 1..MaxCommit /\ Tags \subseteq Nat /\ \A w \in Tags : infra.tag[w] \in Nat
  <2>1. commit \in 1..MaxCommit
    BY RefsAssumption DEF OnMain, Repos
  <2>2. \A w \in Tags : infra.tag[w] \in Nat
    <3>1. infra.tag \in [Tags -> Commits \cup {NoCommit}]
      BY DEF Repos
    <3>2. Commits \cup {NoCommit} \subseteq Nat
      BY CommitsType DEF NoCommit
    <3>. QED  BY <3>1, <3>2
  <2>. QED  BY <2>1, <2>2, RefsAssumption
<1>2. infra.tag[v - 1] # NoCommit /\ infra.tag[v - 1] < commit
  BY <1>1 DEF TagsFollow, CutAlongMain, NoCommit
<1>3. v - 1 \in earlier
  BY <1>1, <1>2 DEF NoCommit
<1>4. PICK u \in earlier : (\A w \in earlier : w <= u) /\ Before(commit) = infra.tag[u]
  BY <1>1, <1>3, BeforeIs
<1>5. ~(v < u) /\ v # u
  <2>1. infra.tag[u] \in 1..(commit - 1)
    BY <1>4
  <2>2. u # v
    BY <1>1, <2>1
  <2>3. v < u => commit < infra.tag[u]
    BY <1>1, <2>1 DEF CutAlongMain, NoCommit
  <2>. QED  BY <1>1, <2>1, <2>2, <2>3
<1>6. u = v - 1
  <2>1. v - 1 <= u
    BY <1>3, <1>4
  <2>. QED  BY <1>1, <1>5, <2>1
<1>. QED  BY <1>1, <1>2, <1>4, <1>6 DEF NoCommit

(* A service that a release leaves out has its content already.            *)
LEMMA ContentStays ==
  ASSUME NEW a \in 1..MaxCommit, NEW b \in 1..MaxCommit, a < b, NEW prod \in BOOLEAN,
         NEW s \in BelongsTo(IF prod THEN "prod" ELSE "staging"),
         s \notin PlannedServices(Changed(a, b), prod)
  PROVE  Content(s, a) = Content(s, b)
<1>1. a # NoCommit
  BY RefsAssumption DEF NoCommit
<1>2. s \notin Changed(a, b)
  BY DEF BelongsTo, PlannedServices
<1>3. \A c \in a + 1 .. b : s \notin Touched[c]
  BY <1>1, <1>2 DEF Changed
<1>4. \A c \in 1..b : s \in Touched[c] => c \in 1..a
  BY <1>3, RefsAssumption
<1>5. \A c \in 1..a : c \in 1..b
  BY RefsAssumption
<1>. QED  BY <1>4, <1>5 DEF Content

(* A step of job j that leaves the backends alone and neither begins nor   *)
(* ends its wait for an operation.                                         *)
LEMMA HistoryQuiet ==
  ASSUME TypeInv, HistoryInv, NEW j \in Jobs, job' = [job EXCEPT ![j] = job'[j]],
         UNCHANGED <<world, backends>>, Releases(j)',
         At(j, "poll") \/ At(j, "poll")' =>
           /\ job'[j].pc = job[j].pc /\ job'[j].from = job[j].from
           /\ job'[j].args = job[j].args /\ job'[j].iac = job[j].iac,
         Active(j)' /\ IsReconcile(j)' =>
           \/ Active(j) /\ IsReconcile(j)
           \/ \A i \in Jobs : Active(i) => ~IsReconcile(i)
  PROVE  HistoryInv'
<1>1. \A i \in Jobs \ {j} : job'[i] = job[i]
  BY DEF TypeInv, TypeOK
<1>2. TagsFollow' /\ CutAlongMain' = CutAlongMain
  BY DEF HistoryInv, TagsFollow, CutAlongMain, world
<1>3. OneReconcile'
  BY <1>1 DEF HistoryInv, OneReconcile, Active, IsReconcile
<1>4. \A i \in Jobs : Releases(i)'
  <2>1. \A i \in Jobs \ {j} : Releases(i)'
    BY <1>1, <1>2 DEF HistoryInv, Releases, IsReconcile, world
  <2>. QED  BY <2>1
<1>5. ASSUME NEW env \in FixedTypes, upTo[env] # NoCommit
      PROVE  OnlyTheNext(env)' /\ Current(env)'
  <2>1. \A i \in Jobs : At(i, "poll")' = At(i, "poll")
    BY <1>1 DEF At
  <2>2. \A i \in Jobs : At(i, "poll") =>
          /\ job'[i].from = job[i].from /\ job'[i].args = job[i].args /\ job'[i].iac = job[i].iac
    BY <1>1
  <2>3. \A i \in Jobs : Rolling(i, env)' = Rolling(i, env)
    BY <2>1, <2>2 DEF Rolling, IsReconcile, backends
  <2>4. \A i \in Jobs : Rolling(i, env) => KeyOf(i)' = KeyOf(i)
    BY <2>2 DEF Rolling, KeyOf
  <2>5. OnlyTheNext(env)'
    BY <1>5, <2>1, <2>2, <2>3, <2>4 DEF HistoryInv, OnlyTheNext, backends, world
  <2>6. Current(env)'
    BY <1>5, <2>2, <2>3, <2>4 DEF HistoryInv, Current, backends, world, Rolling
  <2>. QED  BY <2>5, <2>6
<1>. QED  BY <1>2, <1>3, <1>4, <1>5 DEF HistoryInv, backends

(* A step of job j that ends it, or keeps what it is about.                *)
LEMMA HistoryRed ==
  ASSUME TypeInv, HistoryInv, NEW j \in Jobs, Red(j), UNCHANGED world, ~At(j, "poll") PROVE HistoryInv'
<1>1. job'[j] = [NoJob EXCEPT !.pc = "red"] /\ job' = [job EXCEPT ![j] = job'[j]]
  BY DEF Red, TypeInv, TypeOK
<1>2. job'[j].pc = "red"
  BY <1>1 DEF NoJob
<1>. QED  BY <1>1, <1>2, HistoryQuiet DEF Red, Releases, At, Active

(* A job that waits for nothing goes on, towards its trigger or its end.   *)
LEMMA HistoryOn ==
  ASSUME TypeInv, HistoryInv, NEW j \in Jobs, job' = [job EXCEPT ![j] = job'[j]],
         UNCHANGED <<world, backends>>, Active(j), ~At(j, "poll"),
         job'[j].pc # "poll", job'[j].from = job[j].from,
         \/ job'[j].pc \notin {"onmain", "platform", "batch", "trigger"}
         \/ /\ job[j].pc \in {"onmain", "platform", "batch"} /\ job'[j].args = job[j].args
            /\ job'[j].pc = "trigger" => job'[j].iac = ResolveSha(infra, job[j].args.iacRef)
  PROVE  HistoryInv'
<1>1. IsReconcile(j)' = IsReconcile(j)
  BY DEF IsReconcile
<1>2. Releases(j)'
  <2>1. CASE IsReconcile(j) /\ job'[j].pc \in {"onmain", "platform", "batch", "trigger"}
    <3>1. Releases(j) /\ CutAlongMain' = CutAlongMain
      BY DEF HistoryInv, world, CutAlongMain
    <3>2. /\ job[j].args.iacRef = job[j].from.after
          /\ OnMain(infra, ResolveSha(infra, job[j].from.after))
      BY <2>1, <3>1 DEF Releases
    <3>3. job[j].from.after.form = "tag" =>
            ResolveSha(infra, job[j].from.after) = infra.tag[job[j].from.after.of]
      <4>1. job[j].from.after \in Refs
        BY <2>1, FromType, ReleaseAssumption
      <4>2. ResolveSha(infra, job[j].from.after) # NoCommit
        BY <3>2, RefsAssumption DEF OnMain, NoCommit, TypeInv, TypeOK, Repos
      <4>. QED  BY <4>1, <4>2, ResolveShaType DEF TypeInv, TypeOK
    <3>. QED  BY <1>1, <2>1, <3>1, <3>2, <3>3 DEF Releases, world
  <2>2. CASE ~(IsReconcile(j) /\ job'[j].pc \in {"onmain", "platform", "batch", "trigger"})
    BY <1>1, <2>2 DEF Releases
  <2>. QED  BY <2>1, <2>2
<1>. QED  BY <1>1, <1>2, HistoryQuiet DEF At

(* The next release is done: with success, and nothing else on its way.    *)
LEMMA HistoryReached ==
  ASSUME TypeInv, HistoryInv, NEW j \in Jobs, job' = [job EXCEPT ![j] = job'[j]],
         UNCHANGED <<world, op, completed, live>>, job'[j].pc = "green",
         job[j].from \in Reconciles, Active(j), NEW env \in FixedTypes, env = EnvOfRelease(job[j].from),
         upTo' = Reached(j, env),
         OnMain(infra, ResolveSha(infra, job[j].from.after)),
         InOrder(j, env) =>
           \A s \in BelongsTo(env) : Content(s, live[env][s]) = Content(s, infra.tag[job[j].from.after.of]),
         InOrder(j, env) =>
           \A k \in Keys : k.env = env /\ op[k] # "not_found" =>
             op[k] # "in_progress" /\ k.ref <= infra.tag[job[j].from.after.of]
  PROVE  HistoryInv'
<1> DEFINE v == job[j].from.after.of
<1>1. (\A i \in Jobs \ {j} : job'[i] = job[i]) /\ IsReconcile(j)
  BY FromType DEF TypeInv, TypeOK
<1>2. TagsFollow' /\ CutAlongMain' = CutAlongMain
  BY DEF HistoryInv, TagsFollow, CutAlongMain, world
<1>3. OneReconcile'
  BY <1>1 DEF HistoryInv, OneReconcile, Active, IsReconcile
<1>4. \A i \in Jobs : Releases(i)'
  <2>1. \A i \in Jobs \ {j} : Releases(i)'
    BY <1>1, <1>2 DEF HistoryInv, Releases, IsReconcile, world
  <2>2. Releases(j)'
    BY DEF Releases
  <2>. QED  BY <2>1, <2>2
<1>5. \A i \in Jobs \ {j} : ~(Active(i) /\ IsReconcile(i))
  BY <1>1 DEF HistoryInv, OneReconcile
<1>6. \A e \in FixedTypes \ {env} : upTo'[e] = upTo[e]
  BY DEF Reached, Broken, TypeInv, TypeOK
<1>7. ASSUME NEW e \in FixedTypes \ {env}, upTo'[e] # NoCommit
      PROVE  OnlyTheNext(e)' /\ Current(e)'
  <2>1. \A i \in Jobs : ~Rolling(i, e)'
    BY <1>1, <1>5 DEF Rolling, At, Active, IsReconcile
  <2>2. \A i \in Jobs : ~Rolling(i, e)
    <3>1. ASSUME At(j, "poll") PROVE job[j].args.type # e
      BY <1>1, <3>1 DEF HistoryInv, Releases, At
    <3>. QED  BY <1>1, <1>5, <3>1 DEF Rolling, Active, At
  <2>3. \A i \in Jobs : ~(At(i, "poll") /\ job[i].args.type = e)
    BY <1>6, <1>7, <2>2 DEF HistoryInv, OnlyTheNext
  <2>4. \A i \in Jobs : ~(At(i, "poll") /\ job[i].args.type = e)'
    BY <1>1, <2>3 DEF At
  <2>. QED  BY <1>6, <1>7, <2>1, <2>2, <2>4 DEF HistoryInv, OnlyTheNext, Current, world
<1>8. ASSUME upTo'[env] # NoCommit
      PROVE  OnlyTheNext(env)' /\ Current(env)'
  <2>1. InOrder(j, env) /\ upTo'[env] = v /\ v = upTo[env] + 1 /\ upTo[env] # NoCommit
    BY <1>8 DEF Reached, Broken, InOrder, TypeInv, TypeOK, NoCommit
  <2>2. infra.tag[v] # NoCommit
    <3>1. v \in Tags /\ job[j].from.after \in Refs /\ job[j].from.after.form = "tag"
      BY <1>1, <2>1, ReleaseAssumption DEF InOrder, TypeInv, Phased
    <3>2. ResolveSha(infra, job[j].from.after) = infra.tag[v]
      BY <3>1, ResolveShaType DEF TypeInv, TypeOK
    <3>. QED  BY <3>2, RefsAssumption DEF OnMain, NoCommit, TypeInv, TypeOK, Repos
  <2>3. \A i \in Jobs : ~(At(i, "poll") /\ job[i].args.type = env)'
    <3>1. ASSUME NEW i \in Jobs \ {j}, At(i, "poll"), job[i].args.type = env PROVE FALSE
      <4>1. Rolling(i, env)
        BY <2>1, <3>1 DEF HistoryInv, OnlyTheNext
      <4>. QED  BY <1>5, <3>1, <4>1 DEF Rolling, At, Active
    <3>. QED  BY <1>1, <3>1 DEF At
  <2>4. \A i \in Jobs : ~Rolling(i, env)'
    BY <2>3 DEF Rolling
  <2>. QED  BY <2>1, <2>2, <2>3, <2>4 DEF OnlyTheNext, Current, world, Content, BelongsTo
<1>. QED  BY <1>2, <1>3, <1>4, <1>7, <1>8 DEF HistoryInv

(* What a release of v in order leaves out has its content.                *)
LEMMA NextContent ==
  ASSUME TypeInv, HistoryInv, NEW j \in Jobs, job[j].from \in Reconciles, NEW env \in FixedTypes,
         env = EnvOfRelease(job[j].from), InOrder(j, env), NEW v, v = job[j].from.after.of,
         OnMain(infra, ResolveSha(infra, job[j].from.after))
  PROVE  /\ v \in Tags /\ v - 1 \in Tags /\ v - 1 = upTo[env]
         /\ ResolveSha(infra, job[j].from.after) = infra.tag[v] /\ infra.tag[v] \in 1..MaxCommit
         /\ Before(infra.tag[v]) = infra.tag[v - 1] /\ infra.tag[v - 1] \in 1..(infra.tag[v] - 1)
         /\ \A s \in BelongsTo(env) :
              s \notin PlannedServices(Changed(infra.tag[v - 1], infra.tag[v]), job[j].from.prod) =>
                Content(s, infra.tag[v - 1]) = Content(s, infra.tag[v])
<1>1. job[j].from.after \in Refs /\ job[j].from.prod \in BOOLEAN /\ IsReconcile(j)
  BY FromType, ReleaseAssumption
<1>2. v \in Tags /\ job[j].from.after.form = "tag" /\ infra \in Repos
  BY <1>1 DEF InOrder, TypeInv, TypeOK, Phased
<1>3. v - 1 = upTo[env] /\ v - 1 \in Tags
  <2>1. upTo[env] \in Tags
    BY DEF InOrder, TypeInv, TypeOK
  <2>2. job[j].from.after.of = upTo[env] + 1
    BY DEF InOrder
  <2>3. upTo[env] \in Nat
    BY <2>1, RefsAssumption
  <2>. QED  BY <2>1, <2>2, <2>3
<1>4. ResolveSha(infra, job[j].from.after) = infra.tag[v]
  BY <1>1, <1>2, ResolveShaType
<1>5. infra.tag[v] \in 1..MaxCommit
  BY <1>2, <1>4, RefsAssumption DEF OnMain, Repos
<1>6. Before(infra.tag[v]) = infra.tag[v - 1] /\ infra.tag[v - 1] \in 1..(infra.tag[v] - 1)
  BY <1>2, <1>3, <1>4, BeforeInOrder DEF HistoryInv, InOrder
<1>7. infra.tag[v - 1] \in 1..MaxCommit /\ infra.tag[v - 1] < infra.tag[v]
  BY <1>5, <1>6, RefsAssumption
<1>8. ASSUME NEW s \in BelongsTo(env),
             s \notin PlannedServices(Changed(infra.tag[v - 1], infra.tag[v]), job[j].from.prod)
      PROVE  Content(s, infra.tag[v - 1]) = Content(s, infra.tag[v])
  BY <1>1, <1>5, <1>7, <1>8, ContentStays DEF EnvOfRelease
<1>. QED  BY <1>2, <1>3, <1>4, <1>5, <1>6, <1>8

(* While a reconcile is at work, but not at its poll, nothing rolls.       *)
LEMMA NothingRolls ==
  ASSUME TypeInv, HistoryInv, NEW j \in Jobs, Active(j), IsReconcile(j), ~At(j, "poll"),
         NEW env \in FixedTypes, upTo[env] # NoCommit
  PROVE  /\ \A i \in Jobs : ~Rolling(i, env)
         /\ \A k \in Keys : k.env = env /\ op[k] # "not_found" =>
              op[k] # "in_progress" /\ k.ref <= infra.tag[upTo[env]]
         /\ \A s \in BelongsTo(env) : Content(s, live[env][s]) = Content(s, infra.tag[upTo[env]])
<1>1. \A i \in Jobs : ~Rolling(i, env)
  BY DEF HistoryInv, OneReconcile, Rolling, Active, At
<1>. QED  BY <1>1 DEF HistoryInv, OnlyTheNext, Current

LEMMA HistoryReconcile == ASSUME TypeInv, HistoryInv, NEW j \in Jobs, Reconcile(j) PROVE HistoryInv'
<1> DEFINE from     == job[j].from
           commit   == ResolveSha(infra, from.after)
           env      == EnvOfRelease(from)
           services == PlannedServices(Changed(Before(commit), commit), from.prod)
<1>1. /\ from \in Reconciles /\ ~job[j].sent /\ job[j].args = <<>> /\ IsReconcile(j)
      /\ Active(j) /\ ~At(j, "poll") /\ env \in FixedTypes
  BY FromType DEF Reconcile, AfterOnMain, TypeInv, Phased, At, Early, Active, EnvOfRelease, FixedTypes
<1>2. CASE Red(j)
  BY <1>1, <1>2, HistoryRed DEF Reconcile, AfterOnMain
<1>3. CASE OnMain(infra, commit) /\ services = {} /\ Step(j, "green") /\ upTo' = Reached(j, env)
           /\ UNCHANGED <<op, completed, live>>
  <2>1. job'[j].pc = "green" /\ job' = [job EXCEPT ![j] = job'[j]]
    BY <1>3, PhaseStep DEF Phases
  <2>2. ASSUME InOrder(j, env)
        PROVE  /\ \A s \in BelongsTo(env) : Content(s, live[env][s]) = Content(s, infra.tag[from.after.of])
               /\ \A k \in Keys : k.env = env /\ op[k] # "not_found" =>
                    op[k] # "in_progress" /\ k.ref <= infra.tag[from.after.of]
    <3> DEFINE v == from.after.of
    <3>1. upTo[env] # NoCommit /\ v - 1 = upTo[env]
      BY <1>1, <1>3, <2>2, NextContent DEF InOrder
    <3>2. /\ commit = infra.tag[v] /\ infra.tag[v] \in 1..MaxCommit
          /\ Before(infra.tag[v]) = infra.tag[v - 1] /\ infra.tag[v - 1] \in 1..(infra.tag[v] - 1)
          /\ \A s \in BelongsTo(env) :
               s \notin PlannedServices(Changed(infra.tag[v - 1], infra.tag[v]), from.prod) =>
                 Content(s, infra.tag[v - 1]) = Content(s, infra.tag[v])
      BY <1>1, <1>3, <2>2, NextContent
    <3>3. /\ \A k \in Keys : k.env = env /\ op[k] # "not_found" =>
               op[k] # "in_progress" /\ k.ref <= infra.tag[upTo[env]]
          /\ \A s \in BelongsTo(env) : Content(s, live[env][s]) = Content(s, infra.tag[upTo[env]])
      BY <1>1, <3>1, NothingRolls
    <3>4. \A k \in Keys : k.ref \in Nat
      BY CommitsType DEF Keys
    <3>5. infra.tag[v] \in Nat
      BY <3>2, RefsAssumption
    <3>6. infra.tag[v - 1] \in Nat /\ infra.tag[v - 1] < infra.tag[v]
      BY <3>2, <3>5
    <3>7. \A k \in Keys : k.ref <= infra.tag[v - 1] => k.ref <= infra.tag[v]
      BY <3>4, <3>5, <3>6
    <3>8. ASSUME NEW s \in BelongsTo(env) PROVE Content(s, live[env][s]) = Content(s, infra.tag[v])
      <4>1. s \notin PlannedServices(Changed(infra.tag[v - 1], infra.tag[v]), from.prod)
        BY <1>3, <3>2
      <4>. QED  BY <3>1, <3>2, <3>3, <4>1
    <3>. QED  BY <3>1, <3>3, <3>7, <3>8
  <2>. QED  BY <1>1, <1>3, <2>1, <2>2, HistoryReached DEF Reconcile, AfterOnMain
<1>4. CASE OnMain(infra, commit) /\ services # {} /\ Call(j, ReconcileArgs(services, from))
           /\ UNCHANGED backends
  <2> DEFINE a == ReconcileArgs(services, from)
  <2>1. /\ job'[j].args = a /\ job'[j].from = from /\ job'[j].pc = Entry(a)
        /\ job' = [job EXCEPT ![j] = job'[j]] /\ UNCHANGED world
    BY <1>4 DEF Call, Reconcile, AfterOnMain, TypeInv, TypeOK, JobStates
  <2>2. services \in (SUBSET Pinned) \ {{}}
    BY <1>1, <1>4, PlannedType, ReleaseAssumption DEF TypeInv, TypeOK
  <2>3. Entry(a) \in {"down", "red", "batch", "onmain"}
    BY <1>1, <2>2, ReconcileArgsType, EntryIs DEF Args
  <2>4. a.type = env /\ a.iacRef = from.after /\ a.services = services
    BY DEF ReconcileArgs, EnvOfRelease
  <2>5. Releases(j)'
    <3>1. ASSUME from.after.form = "tag", from.after.of - 1 \in Tags, CutAlongMain
          PROVE  services = PlannedServices(Changed(infra.tag[from.after.of - 1], infra.tag[from.after.of]), from.prod)
      <4>1. from.after \in Refs /\ from.after.of \in Tags /\ infra \in Repos
        BY <1>1, <3>1, ReleaseAssumption DEF TypeInv, TypeOK, Phased
      <4>2. commit = infra.tag[from.after.of]
        BY <3>1, <4>1, ResolveShaType
      <4>3. Before(commit) = infra.tag[from.after.of - 1]
        BY <1>4, <3>1, <4>1, <4>2, BeforeInOrder DEF HistoryInv
      <4>. QED  BY <4>2, <4>3
    <3>2. CutAlongMain' = CutAlongMain /\ infra' = infra
      BY <2>1 DEF world, CutAlongMain
    <3> HIDE DEF services, a
    <3>. QED  BY <1>4, <2>1, <2>3, <2>4, <3>1, <3>2 DEF Releases
  <2>6. job'[j].pc # "poll"
    BY <2>1, <2>3
  <2>. QED  BY <1>1, <1>4, <2>1, <2>5, <2>6, HistoryQuiet DEF At
<1>. QED  BY <1>2, <1>3, <1>4 DEF Reconcile, AfterOnMain, EnvOfRelease

(* A step of job j that breaks an environment's history.                   *)
LEMMA HistoryBroken ==
  ASSUME TypeInv, HistoryInv, NEW j \in Jobs, job' = [job EXCEPT ![j] = job'[j]], UNCHANGED world,
         UNCHANGED live, NEW env \in FixedTypes, upTo' = Broken(env),
         job[j].pc \in {"trigger", "poll"}, job[j].args.type = env, KeyOf(j) \in Keys,
         \A k \in Keys : k.env # env => op'[k] = op[k],
         job'[j].from = job[j].from, job'[j].args = job[j].args, job'[j].pc \in {"poll", "green", "red"},
         job'[j].iac = job[j].iac
  PROVE  HistoryInv'
<1>1. \A i \in Jobs \ {j} : job'[i] = job[i]
  BY DEF TypeInv, TypeOK
<1>2. TagsFollow' /\ CutAlongMain' = CutAlongMain
  BY DEF HistoryInv, TagsFollow, CutAlongMain, world
<1>3. OneReconcile'
  <2>1. Active(j)
    BY DEF Active
  <2>. QED  BY <1>1, <2>1 DEF HistoryInv, OneReconcile, Active, IsReconcile
<1>4. \A i \in Jobs : Releases(i)'
  <2>1. \A i \in Jobs \ {j} : Releases(i)'
    BY <1>1, <1>2 DEF HistoryInv, Releases, IsReconcile, world
  <2>2. Releases(j)'
    BY <1>2 DEF HistoryInv, Releases, IsReconcile, world
  <2>. QED  BY <2>1, <2>2
<1>5. upTo'[env] = NoCommit /\ \A e \in FixedTypes \ {env} : upTo'[e] = upTo[e]
  BY DEF Broken, TypeInv, TypeOK
<1>6. ASSUME NEW e \in FixedTypes \ {env}, upTo[e] # NoCommit
      PROVE  OnlyTheNext(e)' /\ Current(e)'
  <2>1. \A i \in Jobs : (At(i, "poll") /\ job[i].args.type = e)' <=> At(i, "poll") /\ job[i].args.type = e
    BY <1>1 DEF At
  <2>2. \A i \in Jobs : At(i, "poll") /\ job[i].args.type = e => job'[i] = job[i]
    BY <1>1
  <2>3. \A i \in Jobs : Rolling(i, e)' = Rolling(i, e)
    BY <1>1, <1>5 DEF Rolling, At, IsReconcile
  <2>4. \A i \in Jobs : Rolling(i, e) => KeyOf(i)' = KeyOf(i) /\ KeyOf(i).env = e /\ KeyOf(i) \in Keys
    BY <2>2 DEF Rolling, KeyOf, TypeInv, Phased
  <2>5. OnlyTheNext(e)'
    BY <1>5, <1>6, <2>1, <2>2, <2>3, <2>4 DEF HistoryInv, OnlyTheNext, world
  <2>6. Current(e)'
    BY <1>5, <1>6, <2>2, <2>3, <2>4 DEF HistoryInv, Current, world, Rolling
  <2>. QED  BY <2>5, <2>6
<1>. QED  BY <1>2, <1>3, <1>4, <1>5, <1>6 DEF HistoryInv

LEMMA HistoryTrigger == ASSUME TypeInv, HistoryInv, NEW j \in Jobs, Trigger(j) PROVE HistoryInv'
<1>0. PICK k \in Keys, env \in FixedTypes : k = KeyOf(j) /\ env = k.env
  BY DEF Trigger, TypeInv, Phased, Keys
<1>1. /\ job[j].args \in Args /\ job[j] \in JobStates
      /\ Active(j) /\ ~At(j, "poll") /\ env = job[j].args.type /\ k.ref = job[j].iac
  BY <1>0 DEF Trigger, TypeInv, TypeOK, Phased, At, Early, KeyOf, Active
<1>2. CASE Red(j)
  BY <1>1, <1>2, HistoryRed DEF Trigger
<1>3. CASE ~Red(j)
  <2>1. PICK pc \in {"poll", "green", "red"} :
          /\ job' = [job EXCEPT ![j].pc = pc, ![j].sent = TRUE]
          /\ upTo' = IF pc = "poll" /\ InOrder(j, env) THEN upTo ELSE Broken(env)
    BY <1>0, <1>3 DEF Trigger
  <2>2. job'[j] = [job[j] EXCEPT !.pc = pc, !.sent = TRUE] /\ job' = [job EXCEPT ![j] = job'[j]]
    BY <2>1 DEF TypeInv, TypeOK
  <2>3. /\ job'[j].pc = pc /\ job'[j].args = job[j].args /\ job'[j].from = job[j].from
        /\ job'[j].iac = job[j].iac
    BY <1>1, <2>2 DEF JobStates
  <2>4. /\ UNCHANGED <<world, live>>
        /\ Runner!Accept(k) \/ (op[k] # "not_found" /\ UNCHANGED op)
    BY <1>0, <1>3 DEF Trigger
  <2>5. \A x \in Keys \ {k} : op'[x] = op[x]
    BY <1>1, <2>4 DEF Runner!Accept, TypeInv, TypeOK, Runner!OpTypeOK
  <2>6. CASE ~(pc = "poll" /\ InOrder(j, env))
    <3>1. upTo' = Broken(env) /\ job'[j].pc \in {"poll", "green", "red"}
      BY <2>1, <2>3, <2>6
    <3>2. \A x \in Keys : x.env # env => op'[x] = op[x]
      BY <1>0, <2>5
    <3>3. job[j].pc = "trigger" /\ KeyOf(j) \in Keys
      BY <1>0 DEF Trigger, At
    <3>. QED  BY <1>1, <2>2, <2>3, <2>4, <3>1, <3>2, <3>3, HistoryBroken
  <2>7. CASE pc = "poll" /\ InOrder(j, env)
    <3> DEFINE v == job[j].from.after.of
    <3>1. /\ job[j].from \in Reconciles /\ IsReconcile(j) /\ env = EnvOfRelease(job[j].from)
          /\ upTo[env] # NoCommit /\ upTo' = upTo /\ v = upTo[env] + 1 /\ job[j].from.after.form = "tag"
          /\ OnMain(infra, ResolveSha(infra, job[j].from.after)) /\ job[j].iac = infra.tag[v]
      BY <1>1, <2>1, <2>7, FromType DEF InOrder, HistoryInv, Releases, Trigger, At
    <3>2. /\ v \in Tags /\ infra.tag[v] \in Nat /\ infra.tag[v - 1] \in Nat
          /\ infra.tag[v - 1] < infra.tag[v] /\ v - 1 = upTo[env]
      <4>1. /\ v \in Tags /\ infra.tag[v] \in 1..MaxCommit /\ v - 1 = upTo[env]
            /\ infra.tag[v - 1] \in 1..(infra.tag[v] - 1)
        BY <1>1, <2>7, <3>1, NextContent
      <4>. QED  BY <4>1, RefsAssumption
    <3>3. /\ \A i \in Jobs : ~Rolling(i, env)
          /\ \A x \in Keys : x.env = env /\ op[x] # "not_found" =>
               op[x] # "in_progress" /\ x.ref <= infra.tag[upTo[env]]
          /\ \A s \in BelongsTo(env) : Content(s, live[env][s]) = Content(s, infra.tag[upTo[env]])
      BY <1>1, <3>1, NothingRolls
    <3>4. ~(k.ref <= infra.tag[upTo[env]])
      BY <1>1, <3>1, <3>2
    <3>5. op[k] = "not_found" /\ op'[k] = "in_progress"
      BY <1>0, <1>1, <2>4, <3>3, <3>4 DEF Runner!Accept, TypeInv, TypeOK, Runner!OpTypeOK
    <3>6. \A i \in Jobs \ {j} : job'[i] = job[i]
      BY <2>2 DEF TypeInv, TypeOK
    <3>7. TagsFollow' /\ CutAlongMain' = CutAlongMain
      BY <2>4 DEF HistoryInv, TagsFollow, CutAlongMain, world
    <3>8. OneReconcile'
      BY <1>1, <2>3, <3>6 DEF HistoryInv, OneReconcile, Active, IsReconcile
    <3>9. \A i \in Jobs : Releases(i)'
      <4>1. \A i \in Jobs \ {j} : Releases(i)'
        BY <2>4, <3>6, <3>7 DEF HistoryInv, Releases, IsReconcile, world
      <4>2. Releases(j)'
        BY <2>3, <2>4, <2>7, <3>7 DEF HistoryInv, Releases, IsReconcile, world, Trigger, At
      <4>. QED  BY <4>1, <4>2
    <3>10. Rolling(j, env)' /\ KeyOf(j)' = k
      BY <1>0, <1>1, <2>3, <2>7, <3>1 DEF Rolling, At, IsReconcile, KeyOf
    <3>11. \A i \in Jobs \ {j} : \A e \in FixedTypes : Rolling(i, e)' = Rolling(i, e)
      BY <3>1, <3>6 DEF Rolling, At, IsReconcile
    <3>12. OnlyTheNext(env)'
      <4>1. ASSUME NEW i \in Jobs, (At(i, "poll") /\ job[i].args.type = env)' PROVE Rolling(i, env)'
        <5>1. CASE i = j
          BY <3>10, <5>1
        <5>2. CASE i # j
          <6>1. At(i, "poll") /\ job[i].args.type = env
            BY <3>6, <4>1, <5>2 DEF At
          <6>2. Rolling(i, env)
            BY <1>1, <3>1, <6>1 DEF HistoryInv, OnlyTheNext
          <6>. QED  BY <3>3, <6>2
        <5>. QED  BY <5>1, <5>2
      <4>2. ASSUME NEW x \in Keys, x.env = env, op'[x] # "not_found"
            PROVE  \/ op'[x] # "in_progress" /\ x.ref <= infra'.tag[upTo'[env]]
                   \/ \E i \in Jobs : Rolling(i, env)' /\ KeyOf(i)' = x
        <5>1. CASE x = k
          BY <3>10, <5>1
        <5>2. CASE x # k
          BY <2>4, <2>5, <3>1, <3>3, <4>2, <5>2 DEF world
        <5>. QED  BY <5>1, <5>2
      <4>3. infra'.tag[upTo'[env]] # NoCommit
        BY <1>1, <2>4, <3>1 DEF HistoryInv, OnlyTheNext, world
      <4>. QED  BY <4>1, <4>2, <4>3 DEF OnlyTheNext
    <3>13. Current(env)'
      <4>1. \A i \in Jobs : Rolling(i, env)' => i = j
        <5>1. ASSUME NEW i \in Jobs \ {j}, Rolling(i, env)' PROVE FALSE
          BY <1>1, <3>3, <3>11, <5>1
        <5>. QED  BY <5>1
      <4>2. op'[k] # "completed" /\ KeyOf(j)' = k
        BY <3>5, <3>10
      <4>3. live' = live /\ upTo' = upTo /\ infra' = infra
        BY <2>4, <3>1 DEF world
      <4>. QED  BY <3>3, <4>1, <4>2, <4>3 DEF Current, Content
    <3>14. ASSUME NEW e \in FixedTypes \ {env}, upTo'[e] # NoCommit
           PROVE  OnlyTheNext(e)' /\ Current(e)'
      <4>1. \A i \in Jobs : (At(i, "poll") /\ job[i].args.type = e)' => i # j /\ At(i, "poll") /\ job[i].args.type = e
        BY <1>1, <2>3, <3>6 DEF At
      <4>2. \A i \in Jobs : Rolling(i, e) => i # j
        BY <1>1 DEF Rolling
      <4>3. \A i \in Jobs : Rolling(i, e)' <=> Rolling(i, e)
        BY <1>1, <2>3, <3>11, <4>2 DEF Rolling
      <4>4. \A i \in Jobs : Rolling(i, e) => job'[i] = job[i] /\ KeyOf(i)' = KeyOf(i) /\ KeyOf(i).env = e
        BY <3>6, <4>2 DEF Rolling, KeyOf
      <4>5. \A x \in Keys : x.env = e => op'[x] = op[x]
        BY <1>0, <2>5
      <4>6. \A i \in Jobs : Rolling(i, e) => KeyOf(i) \in Keys
        BY DEF Rolling, TypeInv, Phased
      <4>7. OnlyTheNext(e)'
        BY <2>4, <3>1, <3>14, <4>1, <4>3, <4>4, <4>5 DEF HistoryInv, OnlyTheNext, world
      <4>8. Current(e)'
        BY <2>4, <3>1, <3>14, <4>3, <4>4, <4>5, <4>6 DEF HistoryInv, Current, world
      <4>. QED  BY <4>7, <4>8
    <3>. QED  BY <3>7, <3>8, <3>9, <3>12, <3>13, <3>14 DEF HistoryInv
  <2>. QED  BY <2>6, <2>7
<1>. QED  BY <1>2, <1>3
LEMMA HistoryPoll == ASSUME TypeInv, HistoryInv, NEW j \in Jobs, Poll(j) PROVE HistoryInv'
<1>0. PICK k \in Keys, env \in FixedTypes : k = KeyOf(j) /\ env = k.env
  BY DEF Poll, TypeInv, Phased, Keys
<1>1. /\ job[j].args \in Args /\ job[j] \in JobStates /\ UNCHANGED <<world, op, completed, live>>
      /\ Active(j) /\ At(j, "poll") /\ env = job[j].args.type /\ k.ref = job[j].iac
  BY <1>0 DEF Poll, TypeInv, TypeOK, Phased, At, Early, KeyOf, Active, backends
<1>2. CASE job' = [job EXCEPT ![j].tries = @ + 1] /\ UNCHANGED backends
  <2>1. job'[j] = [job[j] EXCEPT !.tries = @ + 1] /\ job' = [job EXCEPT ![j] = job'[j]]
    BY <1>2 DEF TypeInv, TypeOK
  <2>2. /\ job'[j].pc = job[j].pc /\ job'[j].from = job[j].from
        /\ job'[j].args = job[j].args /\ job'[j].iac = job[j].iac
    BY <1>1, <2>1 DEF JobStates
  <2>3. Active(j)' = Active(j) /\ IsReconcile(j)' = IsReconcile(j) /\ CutAlongMain' = CutAlongMain
    BY <1>1, <2>2 DEF Active, IsReconcile, CutAlongMain, world
  <2>4. Releases(j)'
    BY <1>1, <2>2, <2>3 DEF HistoryInv, Releases, world
  <2>. QED  BY <1>1, <1>2, <2>1, <2>2, <2>3, <2>4, HistoryQuiet
<1>3. ASSUME NEW pc \in {"green", "red"}, Step(j, pc)
      PROVE  /\ job' = [job EXCEPT ![j] = job'[j]] /\ job'[j].pc = pc /\ job'[j].args = job[j].args
             /\ job'[j].from = job[j].from /\ job'[j].iac = job[j].iac
  <2>1. job'[j] = [job[j] EXCEPT !.pc = pc, !.tries = 0] /\ job' = [job EXCEPT ![j] = job'[j]]
    BY <1>3 DEF Step, TypeInv, TypeOK
  <2>. QED  BY <1>1, <2>1 DEF JobStates
<1>4. ASSUME NEW pc \in {"green", "red"}, Step(j, pc), upTo' = Broken(env) PROVE HistoryInv'
  <2>1. job[j].pc = "poll" /\ KeyOf(j) \in Keys /\ \A x \in Keys : x.env # env => op'[x] = op[x]
    BY <1>0, <1>1 DEF At
  <2>. QED  BY <1>1, <1>3, <1>4, <2>1, HistoryBroken
<1>5. CASE Step(j, "red") /\ upTo' = Broken(env)
  BY <1>4, <1>5
<1>6. CASE op[k] = "completed" /\ Step(j, "green") /\ upTo' = Reached(j, env)
  <2>1. CASE ~InOrder(j, env)
    BY <1>4, <1>6, <2>1 DEF Reached
  <2>2. CASE InOrder(j, env)
    <3>1. PICK v : v = job[j].from.after.of
      OBVIOUS
    <3>2. IsReconcile(j) /\ upTo[env] # NoCommit /\ job[j].from.after.form = "tag" /\ v = upTo[env] + 1
          /\ CutAlongMain /\ Rolling(j, env)
      BY <1>1, <2>2, <3>1 DEF InOrder, Rolling
    <3>3. job[j].from \in Reconciles
      BY <3>2, FromType
    <3>4. /\ env = EnvOfRelease(job[j].from) /\ OnMain(infra, ResolveSha(infra, job[j].from.after))
          /\ job[j].iac = infra.tag[v]
          /\ v - 1 \in Tags => job[j].args.services =
               PlannedServices(Changed(infra.tag[v - 1], infra.tag[v]), job[j].from.prod)
      BY <1>1, <3>1, <3>2 DEF HistoryInv, Releases, At
    <3>5. /\ v - 1 \in Tags /\ v - 1 = upTo[env] /\ infra.tag[v] \in 1..MaxCommit
          /\ infra.tag[v - 1] \in 1..(infra.tag[v] - 1)
          /\ \A s \in BelongsTo(env) :
               s \notin PlannedServices(Changed(infra.tag[v - 1], infra.tag[v]), job[j].from.prod) =>
                 Content(s, infra.tag[v - 1]) = Content(s, infra.tag[v])
      BY <2>2, <3>1, <3>3, <3>4, NextContent
    <3>6. \A i \in Jobs : Rolling(i, env) => i = j
      BY <1>1, <3>2 DEF HistoryInv, OneReconcile, Rolling, At, Active
    <3>7. ASSUME NEW s \in BelongsTo(env) PROVE Content(s, live[env][s]) = Content(s, infra.tag[v])
      <4>1. CASE s \in job[j].args.services
        <5>1. live[env][s] = job[j].iac
          BY <1>0, <1>6, <3>2, <4>1 DEF HistoryInv, Current
        <5>. QED  BY <3>4, <5>1
      <4>2. CASE s \notin job[j].args.services
        <5>1. Content(s, live[env][s]) = Content(s, infra.tag[upTo[env]])
          BY <3>2, <3>6, <4>2 DEF HistoryInv, Current
        <5>. QED  BY <3>4, <3>5, <4>2, <5>1
      <4>. QED  BY <4>1, <4>2
    <3>8. ASSUME NEW x \in Keys, x.env = env, op[x] # "not_found"
          PROVE  op[x] # "in_progress" /\ x.ref <= infra.tag[v]
      <4>1. infra.tag[v - 1] \in Nat /\ infra.tag[v] \in Nat /\ infra.tag[v - 1] < infra.tag[v] /\ x.ref \in Nat
        <5>1. x.ref \in Nat
          BY CommitsType DEF Keys
        <5>2. infra.tag[v] \in Nat
          BY <3>5, RefsAssumption
        <5>. QED  BY <3>5, <5>1, <5>2
      <4>2. CASE x = k
        BY <1>1, <1>6, <3>4, <4>1, <4>2
      <4>3. CASE x # k
        <5>1. op[x] # "in_progress" /\ x.ref <= infra.tag[upTo[env]]
          BY <1>0, <3>2, <3>6, <3>8, <4>3 DEF HistoryInv, OnlyTheNext
        <5>. QED  BY <3>5, <4>1, <5>1
      <4>. QED  BY <4>2, <4>3
    <3>9. job' = [job EXCEPT ![j] = job'[j]] /\ job'[j].pc = "green"
      BY <1>3, <1>6
    <3>. QED  BY <1>1, <1>6, <3>1, <3>3, <3>4, <3>7, <3>8, <3>9, HistoryReached
  <2>. QED  BY <2>1, <2>2
<1>. QED  BY <1>0, <1>2, <1>5, <1>6 DEF Poll, Succeeded

(* A job that is not a reconcile, and is not waiting, moves.               *)
LEMMA HistoryOther ==
  ASSUME TypeInv, HistoryInv, NEW j \in Jobs, job' = [job EXCEPT ![j] = job'[j]],
         UNCHANGED <<world, backends>>, ~At(j, "poll"), ~At(j, "poll")', ~IsReconcile(j)'
  PROVE  HistoryInv'
BY HistoryQuiet DEF Releases
LEMMA HistoryPlan ==
  ASSUME TypeInv, HistoryInv, NEW j \in Jobs, Plan(j) \/ CanaryFails(j) PROVE HistoryInv'
<1>1. job[j].from \in Asked /\ ~At(j, "poll")
  BY DEF Plan, CanaryFails, TypeInv, Phased, At
<1>2. ~IsReconcile(j)
  BY <1>1, FromType
<1>3. CASE Red(j)
  BY <1>1, <1>3, HistoryRed DEF Plan, CanaryFails
<1>4. CASE Step(j, "replan") /\ UNCHANGED <<world, backends>>
  <2>1. job' = [job EXCEPT ![j] = job'[j]] /\ job'[j].pc = "replan" /\ job'[j].from = job[j].from
    BY <1>4, PhaseStep DEF Phases
  <2>. QED  BY <1>1, <1>2, <1>4, <2>1, HistoryOther DEF At, IsReconcile
<1>5. ASSUME NEW ref \in Refs, Call(j, PlanArgs(job[j].from, ref)), UNCHANGED <<world, backends>>
      PROVE  HistoryInv'
  <2> DEFINE a == PlanArgs(job[j].from, ref)
  <2>1. a \in Args
    BY <1>1, PlanArgsType
  <2>2. Entry(a) \in {"down", "red", "batch", "onmain"}
    BY <2>1, EntryIs
  <2>3. job' = [job EXCEPT ![j] = job'[j]] /\ job'[j].pc = Entry(a) /\ job'[j].from = job[j].from
    BY <1>5 DEF Call, TypeInv, TypeOK, JobStates
  <2> HIDE DEF a
  <2>. QED  BY <1>1, <1>2, <1>5, <2>2, <2>3, HistoryOther DEF At, IsReconcile
<1>. QED  BY <1>3, <1>4, <1>5, SelectIacRefType DEF Plan, CanaryFails, TypeInv, TypeOK

LEMMA HistoryOnMain ==
  ASSUME TypeInv, HistoryInv, NEW j \in Jobs, AssertIacRefOnMain(j) \/ Down(j) PROVE HistoryInv'
<1>1. job[j].pc \in {"onmain", "down"} /\ Active(j) /\ ~At(j, "poll") /\ UNCHANGED world
  BY DEF AssertIacRefOnMain, Down, At, Active
<1>2. CASE Red(j)
  BY <1>1, <1>2, HistoryRed
<1>3. ASSUME NEW pc \in {"platform", "resolve", "green"}, Step(j, pc), UNCHANGED backends,
             pc = "platform" => job[j].pc = "onmain"
      PROVE  HistoryInv'
  <2>1. /\ job' = [job EXCEPT ![j] = job'[j]] /\ job'[j].pc = pc /\ job'[j].from = job[j].from
        /\ job'[j].args = job[j].args
    BY <1>3, PhaseStep DEF Phases
  <2>. QED  BY <1>1, <1>3, <2>1, HistoryOn
<1>. QED  BY <1>2, <1>3 DEF AssertIacRefOnMain, Down, At

LEMMA HistoryResolveIac ==
  ASSUME TypeInv, HistoryInv, NEW j \in Jobs, ResolveIac(j) PROVE HistoryInv'
<1>1. /\ job[j].pc \in {"platform", "batch"} /\ Active(j) /\ ~At(j, "poll") /\ UNCHANGED world
      /\ job[j] \in JobStates
  BY DEF ResolveIac, At, Active, TypeInv, TypeOK
<1>2. CASE Red(j)
  BY <1>1, <1>2, HistoryRed
<1>3. ASSUME NEW iac, iac = ResolveSha(infra, job[j].args.iacRef), UNCHANGED backends,
             job' = [job EXCEPT ![j].pc = "trigger", ![j].iac = iac]
      PROVE  HistoryInv'
  <2>1. job'[j] = [job[j] EXCEPT !.pc = "trigger", !.iac = iac] /\ job' = [job EXCEPT ![j] = job'[j]]
    BY <1>3 DEF TypeInv, TypeOK
  <2>2. /\ job'[j].pc = "trigger" /\ job'[j].from = job[j].from
        /\ job'[j].args = job[j].args /\ job'[j].iac = iac
    BY <1>1, <2>1 DEF JobStates
  <2>. QED  BY <1>1, <1>3, <2>1, <2>2, HistoryOn
<1>. QED  BY <1>2, <1>3 DEF ResolveIac

LEMMA HistoryApp ==
  ASSUME TypeInv, HistoryInv, NEW j \in Jobs,
         ResolveVersion(j) \/ MakeTarget(j) \/ WaitForImages(j) \/ Backend(j)
  PROVE  HistoryInv'
<1>1. /\ job[j].pc \in {"resolve", "target", "images", "backend"} /\ Active(j) /\ ~At(j, "poll")
      /\ UNCHANGED world /\ job[j] \in JobStates
  BY DEF ResolveVersion, MakeTarget, WaitForImages, Backend, At, Active, TypeInv, TypeOK
<1>2. CASE Red(j)
  BY <1>1, <1>2, HistoryRed
<1>3. ASSUME UNCHANGED backends, NEW new, job' = [job EXCEPT ![j] = new], new.from = job[j].from,
             new.pc \in {"target", "images", "backend", "green", "red"}
      PROVE  HistoryInv'
  <2>1. job'[j] = new /\ job' = [job EXCEPT ![j] = job'[j]]
    BY <1>3 DEF TypeInv, TypeOK
  <2>. QED  BY <1>1, <1>3, <2>1, HistoryOn
<1>4. CASE ResolveVersion(j) /\ ~Red(j)
  <2> DEFINE new == [job[j] EXCEPT !.pc = "target", !.code = ResolveSha(app, job[j].args.version)]
  <2>1. job' = [job EXCEPT ![j] = new] /\ UNCHANGED backends
    BY <1>4 DEF ResolveVersion, TypeInv, TypeOK
  <2>2. new.from = job[j].from /\ new.pc = "target"
    BY <1>1 DEF JobStates
  <2> HIDE DEF new
  <2>. QED  BY <1>1, <1>3, <2>1, <2>2
<1>5. CASE MakeTarget(j) /\ ~Red(j)
  <2> DEFINE new == [job[j] EXCEPT !.pc = "images", !.iac = ResolveSha(infra, job[j].args.iacRef)]
  <2>1. job' = [job EXCEPT ![j] = new] /\ UNCHANGED backends
    BY <1>5 DEF MakeTarget, TypeInv, TypeOK
  <2>2. new.from = job[j].from /\ new.pc = "images"
    BY <1>1 DEF JobStates
  <2> HIDE DEF new
  <2>. QED  BY <1>1, <1>3, <2>1, <2>2
<1>6. ASSUME NEW pc \in {"backend", "red"}, Step(j, pc), UNCHANGED backends PROVE HistoryInv'
  <2>1. job' = [job EXCEPT ![j] = job'[j]] /\ job'[j].pc = pc /\ job'[j].from = job[j].from
    BY <1>6, PhaseStep DEF Phases
  <2>. QED  BY <1>3, <1>6, <2>1
<1>7. CASE WaitForImages(j) /\ job' = [job EXCEPT ![j].tries = @ + 1] /\ UNCHANGED backends
  <2>1. job' = [job EXCEPT ![j] = [job[j] EXCEPT !.tries = @ + 1]]
    BY <1>7 DEF TypeInv, TypeOK
  <2>2. job[j].pc = "images"
    BY <1>7 DEF WaitForImages, At
  <2>. QED  BY <1>1, <1>3, <1>7, <2>1, <2>2 DEF JobStates
<1>8. ASSUME NEW pc \in {"green", "red"}, job' = [job EXCEPT ![j].pc = pc, ![j].sent = TRUE],
             UNCHANGED backends
      PROVE  HistoryInv'
  <2>1. job' = [job EXCEPT ![j] = [job[j] EXCEPT !.pc = pc, !.sent = TRUE]]
    BY <1>8 DEF TypeInv, TypeOK
  <2>. QED  BY <1>1, <1>3, <1>8, <2>1 DEF JobStates
<1>9. CASE WaitForImages(j)
  BY <1>6, <1>7, <1>9 DEF WaitForImages
<1>10. CASE Backend(j)
  BY <1>6, <1>8, <1>10 DEF Backend
<1>. QED  BY <1>2, <1>4, <1>5, <1>9, <1>10

(* A reconcile starts when no other is at work.                            *)
LEMMA HistoryStart == ASSUME TypeInv, HistoryInv, NEW j \in Jobs, Start(j) PROVE HistoryInv'
<1>1. job[j] = NoJob /\ ~At(j, "poll") /\ UNCHANGED <<world, backends>>
  BY DEF Start, TypeInv, Phased, At
<1>2. ASSUME NEW a \in Commands, Call(j, a) PROVE HistoryInv'
  <2>1. Entry(a) \in {"down", "red", "batch", "onmain"}
    BY EntryIs, ReleaseAssumption
  <2>2. job' = [job EXCEPT ![j] = job'[j]] /\ job'[j].pc = Entry(a) /\ job'[j].from = job[j].from
    BY <1>2 DEF Call, TypeInv, TypeOK, JobStates
  <2>3. job[j].from = <<>>
    BY <1>1 DEF NoJob
  <2>. QED  BY <1>1, <2>1, <2>2, <2>3, HistoryOther DEF At, IsReconcile
<1>3. ASSUME NEW pc \in {"reconcile", "plan"}, NEW of, Begin(j, pc, of)
      PROVE  job' = [job EXCEPT ![j] = job'[j]] /\ job'[j].pc = pc /\ job'[j].from = of
  <2>1. job'[j] = [NoJob EXCEPT !.pc = pc, !.from = of] /\ job' = [job EXCEPT ![j] = job'[j]]
    BY <1>1, <1>3 DEF Begin, TypeInv, TypeOK
  <2>. QED  BY <2>1 DEF NoJob
<1>4. ASSUME NEW r \in Reconciles, \A i \in Jobs : Active(i) => ~IsReconcile(i), Begin(j, "reconcile", r)
      PROVE  HistoryInv'
  <2>1. Releases(j)' /\ ~At(j, "poll")'
    BY <1>3, <1>4 DEF Releases, At
  <2>. QED  BY <1>1, <1>3, <1>4, <2>1, HistoryQuiet
<1>5. ASSUME NEW q \in Asked, Begin(j, "plan", q) PROVE HistoryInv'
  <2>1. "after" \notin DOMAIN q
    BY ReleaseAssumption DEF Requests
  <2>2. ~IsReconcile(j)' /\ ~At(j, "poll")'
    BY <1>3, <1>5, <2>1 DEF IsReconcile, At
  <2>. QED  BY <1>1, <1>3, <1>5, <2>2, HistoryOther
<1>. QED  BY <1>2, <1>4, <1>5 DEF Start

(* The runner settles only what rolls, in an environment with its history. *)
LEMMA HistoryRunner == ASSUME TypeInv, HistoryInv, RunnerStep PROVE HistoryInv'
<1>1. UNCHANGED <<world, job, upTo>>
  BY DEF RunnerStep
<1>2. (TagsFollow /\ OneReconcile)' /\ \A j \in Jobs : Releases(j)'
  BY <1>1 DEF HistoryInv, TagsFollow, OneReconcile, Releases, Active, IsReconcile, CutAlongMain, world
<1>3. /\ infra' = infra
      /\ \A j \in Jobs : /\ KeyOf(j)' = KeyOf(j) /\ At(j, "poll")' = At(j, "poll")
                         /\ \A env : Rolling(j, env)' = Rolling(j, env)
  BY <1>1 DEF Rolling, KeyOf, At, IsReconcile, world
<1>4. ASSUME NEW env \in FixedTypes, upTo[env] # NoCommit,
             \A k \in Keys : k.env = env => op'[k] \in {op[k], "not_found"},
             live'[env] = live[env]
      PROVE  OnlyTheNext(env)' /\ Current(env)'
  <2>1. \A j \in Jobs : Rolling(j, env) => KeyOf(j) \in Keys /\ KeyOf(j).env = env
    BY DEF Rolling, TypeInv, Phased, KeyOf
  <2>2. OnlyTheNext(env) /\ Current(env)
    BY <1>4 DEF HistoryInv
  <2>3. OnlyTheNext(env)'
    BY <1>1, <1>3, <1>4, <2>2 DEF OnlyTheNext
  <2>4. Current(env)'
    BY <1>1, <1>3, <1>4, <2>1, <2>2 DEF Current
  <2>. QED  BY <2>3, <2>4
<1>5. ASSUME NEW k \in Keys, op[k] = "in_progress", NEW some \in SUBSET k.services,
             live' = Deployed(k, some), op' = op \/ Runner!Settle(k),
             op'[k] = "completed" => some = k.services,
             NEW env \in FixedTypes, upTo[env] # NoCommit
      PROVE  OnlyTheNext(env)' /\ Current(env)'
  <2>1. /\ \A x \in Keys \ {k} : op'[x] = op[x]
        /\ op[k] = "in_progress" /\ op'[k] \in {"completed", "failed", "in_progress"}
    BY <1>5 DEF Runner!Settle, Runner!Terminal, TypeInv, TypeOK, Runner!OpTypeOK
  <2>2. k.env \in FixedTypes /\ k.services \subseteq Pinned
    BY DEF Keys
  <2>3. CASE env # k.env
    BY <1>4, <1>5, <2>1, <2>2, <2>3 DEF Deployed, TypeInv, TypeOK
  <2>4. CASE env = k.env
    <3>1. PICK j \in Jobs : Rolling(j, env) /\ KeyOf(j) = k
      BY <1>5, <2>1, <2>4 DEF HistoryInv, OnlyTheNext
    <3>2. \A i \in Jobs : Rolling(i, env) => i = j
      BY <3>1 DEF HistoryInv, OneReconcile, Rolling, At, Active
    <3>3. k.ref = job[j].iac /\ k.services = job[j].args.services
      BY <3>1 DEF KeyOf
    <3>4. \A s \in Pinned : live'[env][s] = IF s \in some THEN k.ref ELSE live[env][s]
      BY <1>5, <2>2, <2>4 DEF Deployed, TypeInv, TypeOK
    <3>5. BelongsTo(env) \subseteq Pinned
      BY DEF BelongsTo
    <3>6. OnlyTheNext(env)'
      <4>1. ASSUME NEW x \in Keys, x.env = env, op'[x] # "not_found"
            PROVE  \/ op'[x] # "in_progress" /\ x.ref <= infra.tag[upTo[env]]
                   \/ \E i \in Jobs : Rolling(i, env) /\ KeyOf(i) = x
        BY <1>5, <2>1, <3>1, <4>1 DEF HistoryInv, OnlyTheNext
      <4>2. /\ infra.tag[upTo[env]] # NoCommit
            /\ \A i \in Jobs : At(i, "poll") /\ job[i].args.type = env => Rolling(i, env)
        BY <1>5 DEF HistoryInv, OnlyTheNext
      <4>. QED  BY <1>1, <1>3, <4>1, <4>2 DEF OnlyTheNext
    <3>7. Current(env)'
      <4>1. ASSUME NEW s \in BelongsTo(env)
            PROVE  \/ Content(s, live'[env][s]) = Content(s, infra.tag[upTo[env]])
                   \/ Rolling(j, env) /\ s \in job[j].args.services /\ live'[env][s] = job[j].iac
        <5>1. CASE s \in some
          BY <3>1, <3>3, <3>4, <3>5, <5>1
        <5>2. CASE s \notin some
          BY <1>5, <3>2, <3>4, <3>5, <5>2 DEF HistoryInv, Current
        <5>. QED  BY <5>1, <5>2
      <4>2. ASSUME NEW i \in Jobs, Rolling(i, env), op'[KeyOf(i)] = "completed", NEW s \in job[i].args.services
            PROVE  live'[env][s] = job[i].iac
        BY <1>5, <2>2, <3>1, <3>2, <3>3, <3>4, <4>2
      <4>. QED  BY <1>1, <1>3, <4>1, <4>2 DEF Current, Content
    <3>. QED  BY <3>6, <3>7
  <2>. QED  BY <2>3, <2>4
<1>6. ASSUME NEW env \in FixedTypes, upTo[env] # NoCommit PROVE OnlyTheNext(env)' /\ Current(env)'
  <2>1. CASE \E k \in Keys : op[k] = "in_progress" /\ op' = op /\ \E s \in k.services : live' = Deployed(k, {s})
    <3>1. PICK k \in Keys : op[k] = "in_progress" /\ op' = op /\ \E s \in k.services : live' = Deployed(k, {s})
      BY <2>1
    <3>2. PICK s \in k.services : live' = Deployed(k, {s})
      BY <3>1
    <3>3. {s} \in SUBSET k.services
      OBVIOUS
    <3>. QED  BY <1>5, <1>6, <3>1, <3>2, <3>3
  <2>4. CASE \E k \in Keys : /\ Runner!Settle(k)
                             /\ IF op'[k] = "completed" THEN live' = Deployed(k, k.services) ELSE UNCHANGED live
    <3>1. PICK k \in Keys : /\ Runner!Settle(k)
                            /\ IF op'[k] = "completed" THEN live' = Deployed(k, k.services) ELSE UNCHANGED live
      BY <2>4
    <3>2. op[k] = "in_progress" /\ k.services \in SUBSET k.services /\ {} \in SUBSET k.services
      BY <3>1 DEF Runner!Settle
    <3>3. live = Deployed(k, {})
      BY DEF Deployed, TypeInv, TypeOK, Keys
    <3>. QED  BY <1>5, <1>6, <3>1, <3>2, <3>3
  <2>2. CASE \E k \in Keys : Runner!Forget(k) /\ UNCHANGED live
    BY <1>4, <1>6, <2>2 DEF Runner!Forget, TypeInv, TypeOK, Runner!OpTypeOK
  <2>3. CASE Runner!Lose /\ UNCHANGED live
    BY <1>4, <1>6, <2>3 DEF Runner!Lose
  <2>. QED  BY <2>1, <2>2, <2>3, <2>4 DEF RunnerStep
<1>. QED  BY <1>1, <1>2, <1>6 DEF HistoryInv

LEMMA HistoryWorld == ASSUME TypeInv, HistoryInv, World PROVE HistoryInv'
<1>1. /\ UNCHANGED <<backends, job>> /\ infra \in Repos /\ infra' \in Repos
      /\ \A v \in Tags : infra.tag[v] \in Nat /\ infra'.tag[v] \in Nat
  <2>1. infra \in Repos /\ infra' \in Repos
    BY WorldTypes DEF TypeInv, TypeOK
  <2>2. Commits \cup {NoCommit} \subseteq Nat
    BY CommitsType DEF NoCommit
  <2>. QED  BY <2>1, <2>2 DEF World, Repos
<1>2. \A v \in Tags : infra.tag[v] # NoCommit => infra'.tag[v] = infra.tag[v]
  BY MainGrows
<1>3. TagsFollow'
  <2>1. CASE infra'.tag = infra.tag
    BY <2>1 DEF HistoryInv, TagsFollow
  <2>2. CASE CutTag
    <3>1. PICK v \in Tags, c \in {infra.tip} \cup Side :
            /\ v - 1 \in Tags => infra.tag[v - 1] # NoCommit
            /\ infra' = [infra EXCEPT !.tag[v] = c]
      BY <2>2 DEF CutTag
    <3>2. infra'.tag = [infra.tag EXCEPT ![v] = c]
      BY <1>1, <3>1 DEF Repos
    <3>. QED  BY <1>1, <1>2, <3>1, <3>2 DEF HistoryInv, TagsFollow, Repos
  <2>. QED  BY <1>1, <2>1, <2>2 DEF World, Advance, MoveApp, Publish, Repos
<1>4. CutAlongMain' => CutAlongMain
  <2>1. ASSUME CutAlongMain', NEW v \in Tags, NEW w \in Tags, v < w, infra.tag[w] # NoCommit
        PROVE  infra.tag[v] < infra.tag[w]
    <3>1. infra'.tag[w] = infra.tag[w] /\ infra'.tag[v] < infra'.tag[w]
      BY <1>2, <2>1 DEF CutAlongMain
    <3>. QED  BY <1>1, <1>2, <2>1, <3>1 DEF NoCommit
  <2>. QED  BY <2>1 DEF CutAlongMain
<1>5. OneReconcile'
  BY <1>1 DEF HistoryInv, OneReconcile, Active, IsReconcile
<1>6. ASSUME NEW j \in Jobs, IsReconcile(j), job[j].pc \in {"onmain", "platform", "batch", "trigger", "poll"}
      PROVE  Releases(j)'
  <2> DEFINE from == job[j].from
             v    == from.after.of
  <2>1. from.after \in Refs /\ (from.after.form = "tag" => v \in Tags)
    BY <1>6, FromType, ReleaseAssumption DEF TypeInv, Phased
  <2>2. Releases(j) /\ OnMain(infra, ResolveSha(infra, from.after))
    BY <1>6 DEF HistoryInv, Releases
  <2>3. OnMain(infra, ResolveSha(infra, from.after))'
    BY <1>1, <2>1, <2>2, MainGrows
  <2>4. ASSUME from.after.form = "tag"
        PROVE  /\ infra'.tag[v] = infra.tag[v]
               /\ v - 1 \in Tags => infra'.tag[v - 1] = infra.tag[v - 1]
    <3>1. infra.tag[v] # NoCommit
      BY <1>1, <2>1, <2>2, <2>4, ResolveShaType DEF OnMain, NoCommit, Repos
    <3>. QED  BY <1>2, <2>1, <2>4, <3>1 DEF HistoryInv, TagsFollow
  <2>. QED  BY <1>1, <1>4, <1>6, <2>2, <2>3, <2>4 DEF Releases, IsReconcile, Changed
<1>7. \A j \in Jobs : Releases(j)'
  <2>1. ASSUME NEW j \in Jobs, ~(IsReconcile(j) /\ job[j].pc \in {"onmain", "platform", "batch", "trigger", "poll"})
        PROVE  Releases(j)'
    BY <1>1, <2>1 DEF Releases, IsReconcile
  <2>. QED  BY <1>6, <2>1
<1>8. ASSUME NEW env \in FixedTypes, upTo[env] # NoCommit PROVE OnlyTheNext(env)' /\ Current(env)'
  <2>1. upTo[env] \in Tags /\ OnlyTheNext(env) /\ Current(env)
    BY <1>8 DEF HistoryInv, TypeInv, TypeOK
  <2>2. infra'.tag[upTo[env]] = infra.tag[upTo[env]]
    BY <1>2, <2>1 DEF OnlyTheNext
  <2>3. \A j \in Jobs : /\ KeyOf(j)' = KeyOf(j) /\ At(j, "poll")' = At(j, "poll")
                        /\ Rolling(j, env)' = Rolling(j, env)
    BY <1>1 DEF Rolling, KeyOf, At, IsReconcile, backends
  <2>4. OnlyTheNext(env)'
    BY <1>1, <2>1, <2>2, <2>3 DEF OnlyTheNext, backends
  <2>5. Current(env)'
    BY <1>1, <2>1, <2>2, <2>3 DEF Current, Content, backends
  <2>. QED  BY <2>4, <2>5
<1>. QED  BY <1>1, <1>3, <1>5, <1>7, <1>8 DEF HistoryInv, backends

LEMMA HistoryStep == TypeInv /\ HistoryInv /\ [Next]_vars => HistoryInv'
<1> SUFFICES ASSUME TypeInv, HistoryInv, [Next]_vars PROVE HistoryInv'
  OBVIOUS
<1>1. ASSUME NEW j \in Jobs, Start(j) \/ Work(j) PROVE HistoryInv'
  BY <1>1, HistoryStart, HistoryReconcile, HistoryPlan, HistoryOnMain, HistoryResolveIac, HistoryTrigger,
     HistoryPoll, HistoryApp DEF Work
<1>2. CASE UNCHANGED vars
  BY <1>2 DEF vars, HistoryInv, TagsFollow, OneReconcile, Releases, CutAlongMain, Active, IsReconcile,
              OnlyTheNext, Current, Rolling, At, KeyOf
<1>. QED  BY <1>1, <1>2, HistoryRunner, HistoryWorld DEF Next, AllDone

(* InOrderReleasesLeaveNothingBehind: each reconcile deploys only what its *)
(* tag changed since the tag before; as long as an environment has had     *)
(* every release in order and with success, no service is left with an     *)
(* older content, whatever the runner loses and wherever the tags go.      *)
THEOREM InOrderCorrect == Spec => []InOrderReleasesLeaveNothingBehind
<1>1. TypeInv /\ HistoryInv => InOrderReleasesLeaveNothingBehind
  <2> SUFFICES ASSUME HistoryInv, NEW env \in FixedTypes, upTo[env] # NoCommit,
                      ~\E j \in Jobs : Active(j) /\ IsReconcile(j), NEW s \in BelongsTo(env)
               PROVE  Content(s, live[env][s]) = Content(s, infra.tag[upTo[env]])
    BY DEF InOrderReleasesLeaveNothingBehind
  <2>1. \A j \in Jobs : ~Rolling(j, env)
    BY DEF Rolling, At, Active
  <2>. QED  BY <2>1 DEF HistoryInv, Current
<1>. QED  BY <1>1, HistoryInit, HistoryStep, TypeInvariant, PTL DEF Spec
=============================================================================
