--------------------------- MODULE ResidentSidecar ---------------------------
(***************************************************************************)
(* The resident watchers of the probe runner's process                     *)
(* (libs/resident_watchers.py): in each iteration of its loop, after the   *)
(* probes, the breakdown watch looks at the containers of the host and the *)
(* queue guard at the deployments of Dokploy, each when its interval has   *)
(* passed.  Both page through the alert bridge, which may lose a page.     *)
(*                                                                         *)
(* Time is counted in iterations, as ages that stop at the interval they   *)
(* are compared with.                                                      *)
(***************************************************************************)
EXTENDS Integers, Sequences

CONSTANTS
  Containers, Composes,
  Entries,            \* how the Docker engine lists a container: [state, unhealthy, clean]
  Remediate,          \* DEPLOY_GUARD_REMEDIATE
  GuardInterval,      \* DEPLOY_GUARD_INTERVAL_SECONDS
  FailureThreshold, RecoveryThreshold,
  BreakdownRenotify, GuardRenotify,
  Ceiling             \* DEPLOY_GUARD_CEILING_SECONDS

(* What an instance gives these constants.                                  *)
SidecarAssumption ==
  /\ Entries \subseteq [state : {"running", "restarting", "exited", "dead"}, unhealthy : BOOLEAN, clean : BOOLEAN]
  /\ Remediate \in BOOLEAN
  /\ {GuardInterval, BreakdownRenotify, GuardRenotify, Ceiling} \subseteq Nat \ {0}
  /\ {FailureThreshold, RecoveryThreshold} \subseteq Nat \ {0}

VARIABLES
  pc,       \* where the loop is
  since,    \* iterations since the guard's last run
  state,    \* container_state of the breakdown watch
  alerted,  \* of the guard: age of the last page of each compose
  running,  \* Dokploy: ages of the running deployments of each compose
  stuck,    \* what the guard's sweep found, or the kills still to do
  killed,   \* what it has killed in this sweep
  told,     \* history: what the operator was last told of a container
  lost,     \* history: containers whose last page was not delivered
  seen,     \* history: how this process has seen each container, newest first
  swept     \* history: the sweep of this iteration saw the containers

vars == <<pc, since, state, alerted, running, stuck, killed, told, lost, seen, swept>>

watch   == <<state, told, lost, seen, swept>>
guard   == <<since, alerted, stuck, killed>>

(* Ages and streaks are not counted further than they are compared.         *)
UpTo(n, limit) == IF n > limit THEN limit ELSE n

(* broken_state: a container that stopped cleanly is not broken.            *)
BrokenState(e) ==
  CASE e.state = "restarting" -> "restarting"
    [] e.state # "restarting" /\ e.unhealthy -> "unhealthy"
    [] ~e.unhealthy /\ e.state = "dead" -> "dead"
    [] ~e.unhealthy /\ e.state = "exited" /\ ~e.clean -> "exited"
    [] OTHER -> "none"

(* ConsecutiveObservationState; also what an entry that has been pruned is   *)
(* created as again.                                                        *)
NewState == [active |-> FALSE, bad |-> 0, good |-> 0, age |-> 0, context |-> "none"]

NoStart == -1   \* a start time that cannot be parsed

Init ==
  /\ pc = "watch"
  /\ since = GuardInterval
  /\ state = [c \in Containers |-> NewState]
  /\ alerted = [c \in Composes |-> GuardRenotify]
  /\ running = [c \in Composes |-> {}]
  /\ stuck = {} /\ killed = {}
  /\ told = [c \in Containers |-> "nothing"]
  /\ lost = {}
  /\ seen = [c \in Containers |-> <<>>]
  /\ swept = FALSE

-----------------------------------------------------------------------------
\* A good observation does not end a streak of bad ones.
HysteresisForgiving(s, bad, label) ==
  IF bad THEN [s EXCEPT !.good = 0, !.bad = UpTo(@ + 1, FailureThreshold), !.context = label,
                        !.active = s.active \/ s.bad + 1 >= FailureThreshold]
  ELSE IF ~s.active THEN s
  ELSE IF s.good + 1 < RecoveryThreshold THEN [s EXCEPT !.good = @ + 1]
  ELSE NewState

(* evaluate_consecutive_hysteresis, with the pruning of what is neither     *)
(* active nor on a streak.                                                  *)
Hysteresis(s, bad, label) ==
  IF bad THEN [s EXCEPT !.good = 0, !.bad = UpTo(@ + 1, FailureThreshold), !.context = label,
                        !.active = s.active \/ s.bad + 1 >= FailureThreshold]
  ELSE IF ~s.active THEN NewState
  ELSE IF s.good + 1 < RecoveryThreshold THEN [s EXCEPT !.bad = 0, !.good = @ + 1]
  ELSE NewState

\* An incident is paged when it begins, once.
FiresOnce(s, bad) == bad /\ ~s.active /\ s.bad + 1 >= FailureThreshold

(* "fire": a new incident, or one whose last page is older than renotify.   *)
Fires(s, bad) ==
  bad /\ IF s.active THEN s.age >= BreakdownRenotify ELSE s.bad + 1 >= FailureThreshold

Resolves(s, bad) == ~bad /\ s.active /\ s.good + 1 >= RecoveryThreshold

(* What find_breakdown_containers takes from the list, and the alert that a *)
(* container is in: one payload is posted for all that fire, one for all    *)
(* that resolve.                                                            *)
Broken(label) == {c \in Containers : label[c] # "none"}

Page(s, bad) == IF Fires(s, bad) THEN "firing" ELSE IF Resolves(s, bad) THEN "resolved" ELSE "nothing"

(* One sweep: the containers are listed, or nothing changes; the firing     *)
(* ones are posted together, then the resolved ones.  _post_alert swallows  *)
(* what the bridge answers: a page may be lost without a trace.             *)
Watch ==
  /\ pc = "watch"
  /\ pc' = "guard"
  /\ \/ swept' = FALSE /\ UNCHANGED <<state, told, lost, seen>>
     \/ \E entry \in [Containers -> Entries], delivered \in [{"firing", "resolved"} -> BOOLEAN] :
          LET label    == [c \in Containers |-> BrokenState(entry[c])]
              bad(c)   == c \in Broken(label)
              page(c)  == Page(state[c], bad(c))
          IN  /\ \A p \in DOMAIN delivered : (\A c \in Containers : page(c) # p) => delivered[p]
              /\ state' = [c \in Containers |->
                             IF page(c) = "firing" THEN [Hysteresis(state[c], bad(c), label[c]) EXCEPT !.age = 0]
                             ELSE Hysteresis(state[c], bad(c), label[c])]
              /\ told' = [c \in Containers |->
                            IF page(c) # "nothing" /\ delivered[page(c)] THEN page(c) ELSE told[c]]
              /\ lost' = {c \in Containers : IF page(c) = "nothing" THEN c \in lost ELSE ~delivered[page(c)]}
              /\ swept' = TRUE
              /\ seen' = [c \in Containers |->
                            SubSeq(<<label[c]>> \o seen[c], 1,
                                   UpTo(Len(seen[c]) + 1, FailureThreshold + RecoveryThreshold))]
  /\ UNCHANGED <<guard, running>>

-----------------------------------------------------------------------------
(* _list_composes: every compose of every project; when the deployments of  *)
(* one cannot be read it has none, and without the key there is no list.    *)
Listed == SUBSET Composes

(* find_stuck_deploys                                                       *)
IsStuck(c) == \E age \in running[c] : age > Ceiling

(* The guard has paged for these composes; then everything is one older.    *)
Paged(composes) == [c \in Composes |-> IF c \in composes THEN 0 ELSE alerted[c]]

NextIteration(composes) ==
  /\ pc' = "watch"
  /\ state' = [c \in Containers |-> [state[c] EXCEPT !.age = UpTo(@ + 1, BreakdownRenotify)]]
  /\ running' = [c \in Composes |->
                   {IF age = NoStart THEN NoStart ELSE UpTo(age + 1, Ceiling + 1) : age \in running[c]}]
  /\ alerted' = [c \in Composes |-> UpTo(Paged(composes)[c] + 1, GuardRenotify)]

(* What was paged for within the renotify interval is left out.             *)
Fresh(found) == {c \in found : alerted[c] >= GuardRenotify}

(* run_once of the guard, when it is due.                                   *)
Guard ==
  /\ pc = "guard"
  /\ IF since < GuardInterval
     THEN /\ NextIteration({})
          /\ since' = since + 1
          /\ UNCHANGED <<stuck, killed>>
     ELSE /\ since' = 1
          /\ \E readable \in Listed :
               LET found == {c \in readable : IsStuck(c)}
               IN  /\ stuck' = found
                   /\ killed' = {}
                   /\ IF found # {} /\ Remediate
                      THEN /\ pc' = "kill"
                           /\ alerted' = Paged(Fresh(found))
                           /\ UNCHANGED <<state, running>>
                      ELSE NextIteration(Fresh(found))
  /\ UNCHANGED <<told, lost, seen, swept>>

(* _remediate: the compose's builds are killed, by compose and not by       *)
(* deployment, and each of the calls may fail or do nothing.                *)
Kill ==
  /\ pc = "kill"
  /\ \E c \in stuck \ killed :
       /\ killed' = killed \cup {c}
       /\ \E rest \in SUBSET running[c] : running' = [running EXCEPT ![c] = rest]
       /\ pc' = IF killed' = stuck THEN "recheck" ELSE "kill"
  /\ UNCHANGED <<since, state, alerted, stuck, told, lost, seen, swept>>

(* After the grace period: what is still stuck is escalated.                *)
Recheck ==
  /\ pc = "recheck"
  /\ NextIteration({})
  /\ \E readable \in Listed : stuck' = {c \in killed \cap readable : IsStuck(c)}
  /\ killed' = {}
  /\ UNCHANGED <<since, told, lost, seen, swept>>

(* A deployment starts, with a start time or without one, or ends.          *)
Dokploy ==
  /\ \E c \in Composes :
       \/ \E age \in {0, NoStart} \ running[c] : running' = [running EXCEPT ![c] = @ \cup {age}]
       \/ \E age \in running[c] : running' = [running EXCEPT ![c] = @ \ {age}]
  /\ UNCHANGED <<pc, watch, guard>>

(* The container is restarted: what the watchers knew is gone.              *)
Restart ==
  /\ pc' = "watch"
  /\ since' = GuardInterval
  /\ state' = [c \in Containers |-> NewState]
  /\ alerted' = [c \in Composes |-> GuardRenotify]
  /\ stuck' = {} /\ killed' = {} /\ lost' = {}
  /\ seen' = [c \in Containers |-> <<>>]
  /\ swept' = FALSE
  /\ UNCHANGED <<running, told>>

Next == Watch \/ Guard \/ Kill \/ Recheck \/ Dokploy \/ Restart

Spec == Init /\ [][Next]_vars
-----------------------------------------------------------------------------
(* Every variable has its type.                                             *)
Labels == {"none", "restarting", "unhealthy", "exited", "dead"}

TypeOK ==
  /\ pc \in {"watch", "guard", "kill", "recheck"} /\ since \in 1..GuardInterval
  /\ state \in [Containers -> [active : BOOLEAN, bad : 0..FailureThreshold,
                               good : 0..RecoveryThreshold - 1, age : 0..BreakdownRenotify, context : Labels]]
  /\ alerted \in [Composes -> 0..GuardRenotify]
  /\ running \in [Composes -> SUBSET (NoStart..Ceiling + 1)]
  /\ stuck \subseteq Composes /\ killed \subseteq stuck
  /\ told \in [Containers -> {"nothing", "firing", "resolved"}] /\ lost \subseteq Containers
  /\ swept \in BOOLEAN
  /\ \A c \in Containers : \A i \in DOMAIN seen[c] : seen[c][i] \in Labels

(* A flapping container does not page: an incident begins only when the     *)
(* last FailureThreshold sweeps that saw the container saw it broken, and   *)
(* ends only when the last RecoveryThreshold saw it healthy (unless the     *)
(* process starts anew).                                                    *)
LastSeen(c, n, broken) ==
  Len(seen'[c]) >= n /\ \A i \in 1..n : (seen'[c][i] # "none") = broken

FlapsAreQuiet ==
  [][\A c \in Containers :
       /\ ~state[c].active /\ state'[c].active => LastSeen(c, FailureThreshold, TRUE)
       /\ state[c].active /\ ~state'[c].active =>
            LastSeen(c, RecoveryThreshold, FALSE) \/ seen'[c] = <<>>]_vars

(* Trouble that stays is paged: right after a sweep, a container that was   *)
(* seen broken in a running incident has been told, or its page was lost    *)
(* within the last renotify interval; and what the guard found stuck was    *)
(* paged within its own.                                                    *)
TroubleIsPaged ==
  /\ \A c \in Containers :
       pc = "guard" /\ swept /\ state[c].active /\ seen[c][1] # "none" =>
         /\ told[c] = "firing" \/ c \in lost
         /\ c \in lost => state[c].age < BreakdownRenotify
  /\ pc = "kill" => \A c \in stuck : alerted[c] < GuardRenotify
=============================================================================
