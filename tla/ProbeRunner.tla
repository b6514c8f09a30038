----------------------------- MODULE ProbeRunner -----------------------------
(***************************************************************************)
(* The probe loop of tools/infra_probe_runner.py: every interval it reads  *)
(* its state file, runs the probes of each group, holds back the failures  *)
(* that another failure explains, and sends the rest to the alert bridge   *)
(* in two streams for each group, one for outages and one for command      *)
(* probes that have never passed.  A stream pages after a number of equal  *)
(* failures, pages again when the failures change or after a while, and    *)
(* tells the recovery.                                                     *)
(*                                                                         *)
(* Time is counted in iterations.  The text a failing probe observes is a  *)
(* model value; so is nothing else of a payload.  The dry run is left out. *)
(***************************************************************************)
EXTENDS Naturals, Sequences, FiniteSets

CONSTANTS
  Probes,
  Commands,           \* those of kind command
  Groups,             \* the probe groups, a sequence
  GroupOf,            \* of a probe, the group that declares it
  TextsOf,            \* of a probe, what it may observe when it fails
  Graphs,             \* the depends_on declarations a release may ship
  NoProbe,
  Ok,                 \* the result of a probe that passes
  FailureThreshold,
  RecoveryThreshold,
  Renotify            \* INFRA_PROBE_RENOTIFY_SECONDS, in iterations

ASSUME ProbeAssumption ==
  /\ IsFiniteSet(Probes) /\ Commands \subseteq Probes
  /\ Len(Groups) \in Nat \ {0}
  /\ \A i, j \in 1..Len(Groups) : Groups[i] = Groups[j] => i = j
  /\ GroupOf \in [Probes -> {Groups[i] : i \in 1..Len(Groups)}]
  /\ NoProbe \notin Probes
  /\ \A p \in Probes : Ok \notin TextsOf[p]
  /\ \A g \in Graphs : g \in [Probes -> Probes \cup {NoProbe}]
  /\ FailureThreshold \in Nat \ {0}
  /\ RecoveryThreshold \in Nat \ {0}
  /\ Renotify \in Nat

Lanes   == {"regression", "misconfigured"}
Streams == {Groups[i] : i \in 1..Len(Groups)} \X Lanes

Texts    == UNION {TextsOf[p] : p \in Probes}
Failures == SUBSET {f \in Probes \X Texts : f[2] \in TextsOf[f[1]]}

VARIABLES
  dependsOn,    \* the declarations of the release that runs
  maintenance,  \* now < INFRA_PROBE_MAINTENANCE_UNTIL
  at,           \* where the loop is
  turn,         \* the group it works on
  saved,        \* the state file
  state,        \* its copy in the iteration
  results,      \* of a probe of the group, Ok or what it observed
  told,         \* of a stream, the failures the operator was told last
  kept,         \* nothing withheld, and no iteration or state file lost
  spell         \* of a stream, how many polls running it has had what failures

vars == <<dependsOn, maintenance, at, turn, saved, state, results, told, kept, spell>>

(* The record of a stream in the state file.  A failure count above the    *)
(* threshold and an age above the interval are as good as equal to it.     *)
Resolved ==
  [active |-> FALSE, fingerprint |-> {}, pending |-> {},
   failures |-> 0, recoveries |-> 0, age |-> Renotify]

Files == [groups : [Streams -> [active : BOOLEAN, fingerprint : Failures,
                                pending : Failures, failures : 0..FailureThreshold,
                                recoveries : 0..RecoveryThreshold - 1, age : 0..Renotify]],
          passed : SUBSET Probes]

NoFile == [groups |-> [s \in Streams |-> Resolved], passed |-> {}]

AtMost(n, bound) == IF n > bound THEN bound ELSE n

(* Bound: a spell that is longer meets whatever it is compared with.       *)
Patience == FailureThreshold + RecoveryThreshold + Renotify

Init ==
  /\ dependsOn \in Graphs
  /\ maintenance \in BOOLEAN
  /\ at = "sleep"
  /\ turn = 1
  /\ saved = NoFile
  /\ state = NoFile
  /\ results = [p \in Probes |-> Ok]
  /\ told = [s \in Streams |-> {}]
  /\ kept = ~maintenance
  /\ spell = [s \in Streams |-> [of |-> {}, for |-> 0]]

-----------------------------------------------------------------------------
(* Which failures of a group are sent, and where.                          *)
Failed == {p \in Probes : results[p] # Ok}

FailedIn(group) == {p \in Failed : GroupOf[p] = group}

(* The walk down depends_on through failed probes: it has to end at one    *)
(* that depends on nothing, so a cycle holds nothing back.  Of a pair, the *)
(* first is the probe that it has come to, the second those it has met.    *)
Leads(p, failed, OnCycle) ==
  LET walk[on \in (Probes \cup {NoProbe}) \X SUBSET Probes] ==
        IF on[1] = NoProbe THEN TRUE
        ELSE IF on[1] \notin failed THEN FALSE
        ELSE IF on[1] \in on[2] THEN OnCycle
        ELSE walk[<<dependsOn[on[1]], on[2] \cup {on[1]}>>]
  IN  dependsOn[p] # NoProbe /\ walk[<<dependsOn[p], {p}>>]

CascadesThroughCycle(p, failed) == Leads(p, failed, TRUE)

CascadesToFailingRoot(p, failed) == Leads(p, failed, FALSE)

Sent(group) ==
  {p \in FailedIn(group) : ~CascadesToFailingRoot(p, FailedIn(group))}

Misconfigured(group) == {p \in Sent(group) \cap Commands : p \notin state.passed}

StreamProbes(s) ==
  IF s[2] = "misconfigured" THEN Misconfigured(s[1]) ELSE Sent(s[1]) \ Misconfigured(s[1])

(* What the fingerprint of a stream is taken from.                         *)
FailuresOf(s) == {<<p, results[p]>> : p \in StreamProbes(s)}

-----------------------------------------------------------------------------
(* _should_send: the record of the stream, and whether it is told.         *)
HealthyLate(r) ==
  IF ~r.active THEN [record |-> Resolved, send |-> FALSE]
  ELSE IF r.recoveries < RecoveryThreshold
       THEN [record |-> [r EXCEPT !.failures = 0, !.recoveries = @ + 1], send |-> FALSE]
       ELSE [record |-> Resolved, send |-> TRUE]

Healthy(r) ==
  IF ~r.active THEN [record |-> Resolved, send |-> FALSE]
  ELSE IF r.recoveries + 1 < RecoveryThreshold
       THEN [record |-> [r EXCEPT !.failures = 0, !.recoveries = @ + 1], send |-> FALSE]
       ELSE [record |-> Resolved, send |-> TRUE]

CountAll(r, failures) == r.failures + 1

Count(r, failures) == IF failures = r.pending THEN r.failures + 1 ELSE 1

FailingOnce(r, failures) ==
  LET count == Count(r, failures)
  IN  [record |-> [r EXCEPT !.pending = failures,
                            !.failures = AtMost(count, FailureThreshold),
                            !.recoveries = 0],
       send |-> IF r.active THEN failures # r.fingerprint
                ELSE count >= FailureThreshold]

Failing(r, failures) ==
  LET count == Count(r, failures)
  IN  [record |-> [r EXCEPT !.pending = failures,
                            !.failures = AtMost(count, FailureThreshold),
                            !.recoveries = 0],
       send |-> IF r.active
                THEN failures # r.fingerprint \/ r.age >= Renotify
                ELSE count >= FailureThreshold]

ShouldSend(r, failures) == IF failures = {} THEN Healthy(r) ELSE Failing(r, failures)

(* _record_sent                                                            *)
RecordSent(r, failures) ==
  [active |-> failures # {}, fingerprint |-> failures, pending |-> failures,
   failures |-> r.failures, recoveries |-> 0, age |-> 0]

-----------------------------------------------------------------------------
(* The loop.  The outcomes of one group, and the end of an iteration,      *)
(* which forgets what it worked on.                                        *)
Outcomes(group) ==
  {r \in [Probes -> Texts \cup {Ok}] :
     \A p \in Probes : r[p] = Ok \/ (GroupOf[p] = group /\ r[p] \in TextsOf[p])}

Sleep ==
  /\ at' = "sleep"
  /\ turn' = 1
  /\ state' = NoFile
  /\ results' = [p \in Probes |-> Ok]

NoSpells == [s \in Streams |-> [of |-> {}, for |-> 0]]

Older(file) ==
  [file EXCEPT !.groups = [s \in Streams |->
     [file.groups[s] EXCEPT !.age = AtMost(@ + 1, Renotify)]]]

(* An iteration starts; its clock decides for all of it whether the        *)
(* maintenance is over.                                                    *)
Begin ==
  /\ at = "sleep"
  /\ at' = "group"
  /\ maintenance' \in {maintenance, FALSE}
  /\ saved' = Older(saved)
  /\ state' = saved'
  /\ UNCHANGED <<dependsOn, turn, results, told, kept, spell>>

RunProbes ==
  /\ at = "group"
  /\ at' = "regression"
  /\ results' \in Outcomes(Groups[turn])
  /\ state' = [state EXCEPT !.passed =
                 @ \cup {p \in Probes : GroupOf[p] = Groups[turn] /\ results'[p] = Ok}]
  /\ UNCHANGED <<dependsOn, maintenance, turn, saved, told, kept, spell>>

NextStream ==
  IF at = "regression" THEN at' = "misconfigured" /\ UNCHANGED <<turn, results>>
  ELSE /\ results' = [p \in Probes |-> Ok]
       /\ IF turn < Len(Groups) THEN at' = "group" /\ turn' = turn + 1
                                ELSE at' = "save" /\ UNCHANGED turn

Stream   == <<Groups[turn], at>>
Decision == ShouldSend(state.groups[Stream], FailuresOf(Stream))

Longer(s, failures) ==
  [spell EXCEPT ![s] = [of  |-> failures,
                        for |-> IF spell[s].of = failures
                                THEN AtMost(spell[s].for + 1, Patience) ELSE 1]]

(* Nothing to send for this stream.                                        *)
Pass ==
  /\ at \in Lanes
  /\ ~Decision.send
  /\ state' = [state EXCEPT !.groups[Stream] = Decision.record]
  /\ spell' = Longer(Stream, FailuresOf(Stream))
  /\ NextStream
  /\ UNCHANGED <<dependsOn, maintenance, saved, told, kept>>

(* Something to send, but it is maintenance: the record stays as           *)
(* _should_send left it.                                                   *)
Withhold ==
  /\ at \in Lanes
  /\ Decision.send
  /\ maintenance
  /\ state' = [state EXCEPT !.groups[Stream] = Decision.record]
  /\ kept' = FALSE
  /\ spell' = [spell EXCEPT ![Stream] = [of |-> {}, for |-> 0]]
  /\ NextStream
  /\ UNCHANGED <<dependsOn, maintenance, saved, told>>

SendUnrecorded ==
  /\ at \in Lanes
  /\ Decision.send
  /\ ~maintenance
  /\ state' = [state EXCEPT !.groups[Stream] = Decision.record]
  /\ told' = [told EXCEPT ![Stream] = FailuresOf(Stream)]
  /\ spell' = Longer(Stream, FailuresOf(Stream))
  /\ NextStream
  /\ UNCHANGED <<dependsOn, maintenance, saved, kept>>

Send ==
  /\ at \in Lanes
  /\ Decision.send
  /\ ~maintenance
  /\ state' = [state EXCEPT !.groups[Stream] =
                 RecordSent(Decision.record, FailuresOf(Stream))]
  /\ told' = [told EXCEPT ![Stream] = FailuresOf(Stream)]
  /\ spell' = Longer(Stream, FailuresOf(Stream))
  /\ NextStream
  /\ UNCHANGED <<dependsOn, maintenance, saved, kept>>

(* The bridge fails, before or after it delivered: the exception ends the  *)
(* iteration, and what it had recorded is not saved.                       *)
SendFails ==
  /\ at \in Lanes
  /\ Decision.send
  /\ ~maintenance
  /\ told' \in {told, [told EXCEPT ![Stream] = FailuresOf(Stream)]}
  /\ kept' = FALSE
  /\ spell' = NoSpells
  /\ Sleep
  /\ UNCHANGED <<dependsOn, maintenance, saved>>

Save ==
  /\ at = "save"
  /\ saved' = state
  /\ Sleep
  /\ UNCHANGED <<dependsOn, maintenance, told, kept, spell>>

(* A full disk: write_text has truncated the file when it fails.           *)
SaveFails ==
  /\ at = "save"
  /\ saved' = NoFile
  /\ kept' = FALSE
  /\ spell' = NoSpells
  /\ Sleep
  /\ UNCHANGED <<dependsOn, maintenance, told>>

(* The container restarts, and its /tmp survives.                          *)
Restart ==
  /\ at # "sleep"
  /\ kept' = FALSE
  /\ spell' = NoSpells
  /\ Sleep
  /\ UNCHANGED <<dependsOn, maintenance, saved, told>>

(* A deployment replaces the container, its declarations and its env.      *)
Redeploy ==
  /\ dependsOn' \in Graphs
  /\ maintenance' \in BOOLEAN
  /\ saved' = NoFile
  /\ kept' = FALSE
  /\ spell' = NoSpells
  /\ Sleep
  /\ UNCHANGED told

Next ==
  \/ Begin \/ RunProbes \/ Pass \/ Withhold \/ Send \/ SendFails
  \/ Save \/ SaveFails \/ Restart \/ Redeploy

Spec == Init /\ [][Next]_vars

-----------------------------------------------------------------------------
(* The values the state takes.                                             *)
TypeOK ==
  /\ dependsOn \in Graphs
  /\ maintenance \in BOOLEAN
  /\ at \in Lanes \cup {"sleep", "group", "save"}
  /\ turn \in 1..Len(Groups)
  /\ saved \in Files
  /\ state \in Files
  /\ results \in [Probes -> Texts \cup {Ok}]
  /\ told \in [Streams -> Failures]
  /\ kept \in BOOLEAN
  /\ spell \in [Streams -> [of : Failures, for : 0..Patience]]

(* The probe a probe depends on after n steps.                             *)
Upstream(p, n) ==
  LET dep[i \in 0..n] == IF i = 0 THEN p
                         ELSE IF dep[i - 1] = NoProbe THEN NoProbe ELSE dependsOn[dep[i - 1]]
  IN  dep[n]

(* "otherwise a cycle of all-failing probes would silently swallow every   *)
(* page": a failure that is held back has, up its own dependencies, a      *)
(* failure that is sent.                                                   *)
HeldBackIsExplained ==
  at \in Lanes =>
    \A p \in FailedIn(Groups[turn]) \ Sent(Groups[turn]) :
      \E n \in 1..Cardinality(Probes) : Upstream(p, n) \in Sent(Groups[turn])

(* Whatever was lost or withheld before, a failure that stays the same is  *)
(* told after the threshold or, when the file has it told already, after   *)
(* the interval.                                                           *)
StableFailureIsTold ==
  \A s \in Streams :
    (/\ spell[s].of # {}
     /\ spell[s].for >= FailureThreshold
     /\ spell[s].for > Renotify) => told[s] = spell[s].of

(* While nothing is lost or withheld, the state file says what the         *)
(* operator was told: the incidents it has open and with which failures.   *)
FileSaysWhatWasTold ==
  kept /\ at = "sleep" =>
    \A s \in Streams :
      /\ saved.groups[s].active <=> told[s] # {}
      /\ saved.groups[s].active => saved.groups[s].fingerprint = told[s]

(* #209: a new incident is told after FailureThreshold equal polls in a    *)
(* row, and a recovery after RecoveryThreshold good ones, while nothing is *)
(* lost or withheld.                                                       *)
ThresholdsKept ==
  [][\A s \in Streams :
       kept' /\ told'[s] # told[s] =>
         IF told'[s] = {} THEN spell'[s].for >= RecoveryThreshold
         ELSE told[s] = {} => spell'[s].for >= FailureThreshold]_vars

=============================================================================
