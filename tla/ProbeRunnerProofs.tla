--------------------------- MODULE ProbeRunnerProofs ---------------------------
(***************************************************************************)
(* Proofs about the probe loop, for any probes, groups, dependencies and   *)
(* thresholds.  For the incidents what is held back is any part of the     *)
(* failures; the last part is about the walk that finds it.                *)
(***************************************************************************)
EXTENDS ProbeRunner, FiniteSetTheorems, FunctionTheorems, WellFoundedInduction, TLAPS

Record == [active : BOOLEAN, fingerprint : Failures, pending : Failures, failures : 0..FailureThreshold,
           recoveries : 0..RecoveryThreshold - 1, age : 0..Renotify]

(* The record of a stream that the loop goes on from.                      *)
Here(s) == IF at = "sleep" THEN saved.groups[s] ELSE state.groups[s]

(* The iteration is past the stream s.                                     *)
Polled(s) ==
  \/ at \in {"sleep", "save"}
  \/ \E i \in 1..Len(Groups) :
       /\ s[1] = Groups[i]
       /\ i < turn \/ (i = turn /\ at = "misconfigured" /\ s[2] = "regression")

TypeInv ==
  /\ TypeOK
  /\ \A p \in Probes : results[p] \in TextsOf[p] \cup {Ok}

(* Without faults the record has the operator's incident, and counts no    *)
(* more than there was.                                                    *)
Agrees(r, failures) ==
  /\ r.active <=> failures # {}
  /\ r.active => r.fingerprint = failures

Counted(r, run) ==
  /\ r.failures > 0 => run.of = r.pending /\ run.for >= r.failures
  /\ r.recoveries > 0 => run.of = {} /\ run.for >= r.recoveries

KeptInv == kept => \A s \in Streams : Agrees(Here(s), told[s]) /\ Counted(Here(s), spell[s])

(* Whatever went wrong, failures that stay and are not told are on their   *)
(* way to the threshold; or the file has them told, and its age is on its  *)
(* way to the interval.                                                    *)
Awaited(r, run, failures, late) ==
  run.for > 0 /\ run.of # {} /\ failures # run.of =>
    \/ ~r.active /\ r.pending = run.of /\ run.for <= r.failures /\ r.failures < FailureThreshold
    \/ r.active /\ r.fingerprint = run.of /\ run.for <= Renotify /\ run.for <= r.age + late

Late(s) == IF Polled(s) THEN 1 ELSE 0

WaitInv == \A s \in Streams : Awaited(Here(s), spell[s], told[s], Late(s))

-----------------------------------------------------------------------------
LEMMA NumberTypes ==
  /\ FailureThreshold \in Nat /\ FailureThreshold > 0
  /\ RecoveryThreshold \in Nat /\ RecoveryThreshold > 0
  /\ Renotify \in Nat /\ Patience \in Nat
  /\ Patience >= FailureThreshold /\ Patience >= RecoveryThreshold /\ Patience > Renotify
BY ProbeAssumption DEF Patience

LEMMA ResolvedType == Resolved \in Record /\ {} \in Failures
BY NumberTypes DEF Resolved, Record, Failures

LEMMA RecordsIn ==
  ASSUME NEW file \in Files
  PROVE  /\ file.passed \subseteq Probes
         /\ \A s \in Streams : file.groups[s] \in Record
         /\ \A s \in Streams, r \in Record : [file EXCEPT !.groups[s] = r] \in Files
BY DEF Files, Record

LEMMA NoFileType == NoFile \in Files
BY ResolvedType DEF NoFile, Files, Record

LEMMA OlderType ==
  ASSUME NEW file \in Files
  PROVE  /\ Older(file) \in Files
         /\ \A s \in Streams : Older(file).groups[s] =
              [file.groups[s] EXCEPT !.age = AtMost(file.groups[s].age + 1, Renotify)]
<1>1. \A s \in Streams : [file.groups[s] EXCEPT !.age = AtMost(file.groups[s].age + 1, Renotify)] \in Record
  BY RecordsIn, NumberTypes DEF Record, AtMost
<1>2. Older(file).groups = [s \in Streams |-> [file.groups[s] EXCEPT !.age = AtMost(file.groups[s].age + 1, Renotify)]]
      /\ Older(file) = [file EXCEPT !.groups = Older(file).groups]
  BY DEF Older, Files
<1>. QED  BY <1>1, <1>2 DEF Files, Record

(* The failures of a stream are some of those observed.                    *)
LEMMA FailuresType ==
  ASSUME TypeInv, NEW s
  PROVE  FailuresOf(s) \in Failures
<1>1. StreamProbes(s) \subseteq Failed
  BY DEF StreamProbes, Misconfigured, Sent, FailedIn
<1>2. \A p \in Failed : p \in Probes /\ results[p] \in TextsOf[p]
  BY DEF Failed, TypeInv
<1>3. \A p \in StreamProbes(s) : p \in Probes /\ results[p] \in TextsOf[p] /\ results[p] \in Texts
  BY <1>1, <1>2 DEF Texts
<1>. QED  BY <1>3 DEF FailuresOf, Failures

LEMMA CountType ==
  ASSUME NEW r \in Record, NEW failures \in Failures
  PROVE  /\ Count(r, failures) \in Nat \ {0}
         /\ AtMost(Count(r, failures), FailureThreshold) \in 0..FailureThreshold
<1>1. Count(r, failures) \in Nat \ {0}
  BY DEF Count, Record
<1>. QED  BY <1>1, NumberTypes DEF AtMost

(* What _should_send makes of a record.                                    *)
LEMMA HealthyIs ==
  ASSUME NEW r \in Record
  PROVE  LET d == ShouldSend(r, {})
         IN  /\ d.record \in Record
             /\ ~r.active => d.record = Resolved /\ d.send = FALSE
             /\ r.active /\ r.recoveries + 1 < RecoveryThreshold =>
                  /\ d.record.active /\ d.record.fingerprint = r.fingerprint /\ d.record.failures = 0
                  /\ d.record.recoveries = r.recoveries + 1 /\ d.send = FALSE
             /\ r.active /\ ~(r.recoveries + 1 < RecoveryThreshold) => d.record = Resolved /\ d.send = TRUE
<1> DEFINE d == ShouldSend(r, {})
<1>1. CASE ~r.active
  BY <1>1, ResolvedType DEF ShouldSend, Healthy
<1>2. CASE r.active /\ r.recoveries + 1 < RecoveryThreshold
  <2>1. d.record = [r EXCEPT !.failures = 0, !.recoveries = r.recoveries + 1] /\ d.send = FALSE
    BY <1>2 DEF ShouldSend, Healthy
  <2>2. r.recoveries + 1 \in 0..RecoveryThreshold - 1 /\ 0 \in 0..FailureThreshold
    BY <1>2, NumberTypes DEF Record
  <2> HIDE DEF d
  <2>3. d.record \in Record
    BY <2>1, <2>2 DEF Record
  <2>. QED  BY <1>2, <2>1, <2>3 DEF Record, d
<1>3. CASE r.active /\ ~(r.recoveries + 1 < RecoveryThreshold)
  BY <1>3, ResolvedType DEF ShouldSend, Healthy
<1>. QED  BY <1>1, <1>2, <1>3

LEMMA FailingIs ==
  ASSUME NEW r \in Record, NEW failures \in Failures, failures # {}
  PROVE  LET d == ShouldSend(r, failures)
         IN  /\ d.record \in Record
             /\ d.record.active = r.active /\ d.record.fingerprint = r.fingerprint
             /\ d.record.pending = failures /\ d.record.recoveries = 0 /\ d.record.age = r.age
             /\ d.record.failures = AtMost(Count(r, failures), FailureThreshold)
             /\ r.active => (d.send <=> failures # r.fingerprint \/ r.age >= Renotify)
             /\ ~r.active => (d.send <=> Count(r, failures) >= FailureThreshold)
             /\ d.send \in BOOLEAN
<1> DEFINE d == ShouldSend(r, failures)
           n == AtMost(Count(r, failures), FailureThreshold)
<1>1. d.record = [r EXCEPT !.pending = failures, !.failures = n, !.recoveries = 0]
  BY DEF ShouldSend, Failing
<1>2. n \in 0..FailureThreshold /\ 0 \in 0..RecoveryThreshold - 1
  BY CountType, NumberTypes
<1>3. d.send = IF r.active THEN failures # r.fingerprint \/ r.age >= Renotify
               ELSE Count(r, failures) >= FailureThreshold
  BY DEF ShouldSend, Failing
<1>4. d.send \in BOOLEAN
  <2>1. /\ (failures # r.fingerprint \/ r.age >= Renotify) \in BOOLEAN
        /\ (Count(r, failures) >= FailureThreshold) \in BOOLEAN
    OBVIOUS
  <2> HIDE DEF d
  <2>. QED  BY <1>3, <2>1, Zenon
<1> HIDE DEF d, n
<1>5. d.record \in Record
  BY <1>1, <1>2 DEF Record
<1>6. /\ d.record.active = r.active /\ d.record.fingerprint = r.fingerprint
      /\ d.record.pending = failures /\ d.record.recoveries = 0 /\ d.record.age = r.age
      /\ d.record.failures = n
  BY <1>1 DEF Record
<1>. QED  BY <1>3, <1>4, <1>5, <1>6 DEF d, n

LEMMA SendType ==
  ASSUME NEW r \in Record, NEW failures \in Failures
  PROVE  /\ ShouldSend(r, failures).record \in Record
         /\ ShouldSend(r, failures).send \in BOOLEAN
<1>1. CASE failures = {}
  BY <1>1, HealthyIs
<1>2. CASE failures # {}
  BY <1>2, FailingIs
<1>. QED  BY <1>1, <1>2

LEMMA SentType ==
  ASSUME NEW r \in Record, NEW failures \in Failures
  PROVE  RecordSent(r, failures) \in Record
BY NumberTypes DEF RecordSent, Record

(* What a poll of a stream works on.                                       *)
LEMMA StreamType ==
  ASSUME TypeInv, at \in Lanes
  PROVE  /\ Stream \in Streams /\ FailuresOf(Stream) \in Failures
         /\ state.groups[Stream] \in Record
         /\ Decision.record \in Record /\ Decision.send \in BOOLEAN
         /\ RecordSent(Decision.record, FailuresOf(Stream)) \in Record
<1>1. Stream \in Streams
  BY DEF Stream, Streams, TypeInv, TypeOK
<1>2. FailuresOf(Stream) \in Failures /\ state.groups[Stream] \in Record
  BY <1>1, FailuresType, RecordsIn DEF TypeInv, TypeOK
<1>. QED  BY <1>1, <1>2, SendType, SentType DEF Decision

-----------------------------------------------------------------------------
(* How a poll changes the spell of its stream.                             *)
LEMMA LongerIs ==
  ASSUME TypeInv, NEW s \in Streams, NEW failures \in Failures, spell' = Longer(s, failures)
  PROVE  /\ spell' \in [Streams -> [of : Failures, for : 0..Patience]]
         /\ \A x \in Streams \ {s} : spell'[x] = spell[x]
         /\ spell'[s].of = failures /\ spell'[s].for >= 1
         /\ spell[s].of = failures => spell'[s].for = AtMost(spell[s].for + 1, Patience)
         /\ spell[s].of # failures => spell'[s].for = 1
<1> DEFINE n == IF spell[s].of = failures THEN AtMost(spell[s].for + 1, Patience) ELSE 1
<1>1. n \in 0..Patience /\ n >= 1
  BY NumberTypes DEF TypeInv, TypeOK, AtMost
<1>2. spell' = [spell EXCEPT ![s] = [of |-> failures, for |-> n]]
  BY DEF Longer
<1> HIDE DEF n
<1>3. spell'[s] = [of |-> failures, for |-> n] /\ \A x \in Streams \ {s} : spell'[x] = spell[x]
  BY <1>2 DEF TypeInv, TypeOK
<1>4. spell' \in [Streams -> [of : Failures, for : 0..Patience]]
  BY <1>1, <1>2 DEF TypeInv, TypeOK
<1>. QED  BY <1>1, <1>3, <1>4 DEF n

LEMMA TypeInit == Init => TypeInv
<1> SUFFICES ASSUME Init PROVE TypeInv
  OBVIOUS
<1>1. 1 \in 1..Len(Groups)
  BY ProbeAssumption
<1>2. [s \in Streams |-> [of |-> {}, for |-> 0]] \in [Streams -> [of : Failures, for : 0..Patience]]
  BY ResolvedType, NumberTypes
<1>. QED  BY <1>1, <1>2, NoFileType, ResolvedType DEF Init, TypeInv, TypeOK

LEMMA SleepTypes ==
  ASSUME Sleep
  PROVE  /\ at' \in Lanes \cup {"sleep", "group", "save"} /\ turn' \in 1..Len(Groups)
         /\ state' \in Files /\ results' \in [Probes -> Texts \cup {Ok}]
         /\ \A p \in Probes : results'[p] \in TextsOf[p] \cup {Ok}
BY NoFileType, ProbeAssumption DEF Sleep

LEMMA NextStreamTypes ==
  ASSUME TypeInv, at \in Lanes, NextStream
  PROVE  /\ at' \in Lanes \cup {"sleep", "group", "save"} /\ turn' \in 1..Len(Groups)
         /\ results' \in [Probes -> Texts \cup {Ok}]
         /\ \A p \in Probes : results'[p] \in TextsOf[p] \cup {Ok}
BY ProbeAssumption DEF NextStream, TypeInv, TypeOK, Lanes

LEMMA NoSpellsType == NoSpells \in [Streams -> [of : Failures, for : 0..Patience]]
BY ResolvedType, NumberTypes DEF NoSpells

LEMMA PollTypes ==
  ASSUME TypeInv, Pass \/ Withhold \/ Send
  PROVE  TypeInv'
<1>1. at \in Lanes /\ NextStream /\ UNCHANGED <<dependsOn, maintenance, saved>>
  BY DEF Pass, Withhold, Send
<1>2. state' \in Files
  BY <1>1, StreamType, RecordsIn DEF Pass, Withhold, Send, TypeInv, TypeOK
<1>3. told' \in [Streams -> Failures] /\ kept' \in BOOLEAN
  BY <1>1, StreamType DEF Pass, Withhold, Send, TypeInv, TypeOK
<1>4. spell' \in [Streams -> [of : Failures, for : 0..Patience]]
  <2>1. CASE spell' = Longer(Stream, FailuresOf(Stream))
    BY <1>1, <2>1, StreamType, LongerIs
  <2>2. CASE spell' = [spell EXCEPT ![Stream] = [of |-> {}, for |-> 0]]
    <3>1. [of |-> {}, for |-> 0] \in [of : Failures, for : 0..Patience]
      BY ResolvedType, NumberTypes
    <3>. QED  BY <2>2, <3>1 DEF TypeInv, TypeOK
  <2>. QED  BY <2>1, <2>2 DEF Pass, Withhold, Send
<1>. QED  BY <1>1, <1>2, <1>3, <1>4, NextStreamTypes DEF TypeInv, TypeOK

LEMMA TypeStep == TypeInv /\ [Next]_vars => TypeInv'
<1> SUFFICES ASSUME TypeInv, [Next]_vars PROVE TypeInv'
  OBVIOUS
<1>1. CASE Begin
  <2>1. saved' \in Files /\ state' \in Files
    BY <1>1, OlderType DEF Begin, TypeInv, TypeOK
  <2>. QED  BY <1>1, <2>1 DEF Begin, TypeInv, TypeOK
<1>2. CASE RunProbes
  <2>1. state' \in Files
    BY <1>2 DEF RunProbes, TypeInv, TypeOK, Files
  <2>2. results' \in [Probes -> Texts \cup {Ok}] /\ \A p \in Probes : results'[p] \in TextsOf[p] \cup {Ok}
    BY <1>2 DEF RunProbes, Outcomes
  <2>. QED  BY <1>2, <2>1, <2>2 DEF RunProbes, TypeInv, TypeOK, Lanes
<1>3. CASE Pass \/ Withhold \/ Send
  BY <1>3, PollTypes
<1>4. CASE SendFails
  <2>1. told' \in [Streams -> Failures]
    BY <1>4, StreamType DEF SendFails, TypeInv, TypeOK
  <2>. QED  BY <1>4, <2>1, SleepTypes, NoSpellsType DEF SendFails, TypeInv, TypeOK
<1>5. CASE Save
  BY <1>5, SleepTypes DEF Save, TypeInv, TypeOK
<1>6. CASE SaveFails \/ Restart \/ Redeploy
  BY <1>6, SleepTypes, NoSpellsType, NoFileType DEF SaveFails, Restart, Redeploy, TypeInv, TypeOK
<1>7. CASE UNCHANGED vars
  BY <1>7 DEF vars, TypeInv, TypeOK
<1>. QED  BY <1>1, <1>2, <1>3, <1>4, <1>5, <1>6, <1>7 DEF Next

LEMMA TypeInvariant == Spec => []TypeInv
BY TypeInit, TypeStep, PTL DEF Spec

(* The loop, its file and the histories are well typed, for any probes,    *)
(* groups, dependencies and thresholds: no counter leaves its range.       *)
THEOREM TypeCorrect == Spec => []TypeOK
BY TypeInvariant, PTL DEF TypeInv

-----------------------------------------------------------------------------
(* A spell goes on with the failures of a poll, or begins with them.       *)
Runs == [of : Failures, for : 0..Patience]

GoesOn(run, failures, next) ==
  /\ next.of = failures /\ next.for >= 1
  /\ run.of = failures => next.for = AtMost(run.for + 1, Patience)
  /\ run.of # failures => next.for = 1

(* A poll that sends nothing keeps the incident, and counts on.            *)
LEMMA PassKeeps ==
  ASSUME NEW r \in Record, NEW failures \in Failures, NEW f \in Failures,
         NEW run \in Runs, NEW next \in Runs, GoesOn(run, failures, next),
         Agrees(r, f), Counted(r, run), ~ShouldSend(r, failures).send
  PROVE  Agrees(ShouldSend(r, failures).record, f) /\ Counted(ShouldSend(r, failures).record, next)
<1> DEFINE d == ShouldSend(r, failures)
<1>1. CASE failures = {}
  <2>1. CASE ~r.active
    <3>1. d.record = Resolved
      BY <1>1, <2>1, HealthyIs
    <3> HIDE DEF d
    <3>. QED  BY <2>1, <3>1 DEF Resolved, Agrees, Counted, d
  <2>2. CASE r.active
    <3>1. /\ d.record \in Record /\ d.record.active /\ d.record.fingerprint = r.fingerprint
          /\ d.record.failures = 0 /\ d.record.recoveries = r.recoveries + 1
          /\ r.recoveries + 1 < RecoveryThreshold
      BY <1>1, <2>2, HealthyIs
    <3>2. next.for >= r.recoveries + 1
      BY <1>1, <3>1, NumberTypes DEF GoesOn, Counted, AtMost, Runs, Record
    <3> HIDE DEF d
    <3>. QED  BY <1>1, <2>2, <3>1, <3>2 DEF Agrees, Counted, GoesOn, d
  <2>. QED  BY <2>1, <2>2
<1>2. CASE failures # {}
  <2>1. /\ d.record.active = r.active /\ d.record.fingerprint = r.fingerprint
        /\ d.record.pending = failures /\ d.record.recoveries = 0
        /\ d.record.failures = AtMost(Count(r, failures), FailureThreshold)
    BY <1>2, FailingIs
  <2>2. next.for >= AtMost(Count(r, failures), FailureThreshold)
    BY NumberTypes DEF GoesOn, Counted, Count, AtMost, Runs, Record
  <2> HIDE DEF d
  <2>. QED  BY <2>1, <2>2 DEF Agrees, Counted, GoesOn, d
<1>. QED  BY <1>1, <1>2

(* What is sent is recorded; and it has been counted as often as it takes. *)
LEMMA SendKeeps ==
  ASSUME NEW r \in Record, NEW failures \in Failures, NEW f \in Failures,
         NEW run \in Runs, NEW next \in Runs, GoesOn(run, failures, next),
         Agrees(r, f), Counted(r, run), ShouldSend(r, failures).send
  PROVE  /\ Agrees(RecordSent(ShouldSend(r, failures).record, failures), failures)
         /\ Counted(RecordSent(ShouldSend(r, failures).record, failures), next)
         /\ failures = {} => next.for >= RecoveryThreshold
         /\ failures # {} /\ f = {} => next.for >= FailureThreshold
<1> DEFINE d == ShouldSend(r, failures)
           e == RecordSent(d.record, failures)
<1>0. /\ e.active <=> failures # {}
      /\ e.fingerprint = failures /\ e.pending = failures
      /\ e.failures = d.record.failures /\ e.recoveries = 0
  BY DEF RecordSent
<1>1. CASE failures = {}
  <2>1. r.active /\ ~(r.recoveries + 1 < RecoveryThreshold) /\ d.record = Resolved
    BY <1>1, HealthyIs
  <2>2. next.for >= r.recoveries + 1
    BY <1>1, NumberTypes, <2>1 DEF GoesOn, Counted, AtMost, Runs, Record
  <2>3. next.for >= RecoveryThreshold
    BY <2>1, <2>2, NumberTypes DEF Runs, Record
  <2>4. e.failures = 0
    BY <1>0, <2>1 DEF Resolved
  <2> HIDE DEF e
  <2>5. Agrees(e, failures) /\ Counted(e, next)
    BY <1>0, <1>1, <2>4 DEF Agrees, Counted
  <2>. QED  BY <1>1, <2>3, <2>5 DEF e
<1>2. CASE failures # {}
  <2>1. /\ d.record.failures = AtMost(Count(r, failures), FailureThreshold)
        /\ ~r.active => Count(r, failures) >= FailureThreshold
    BY <1>2, FailingIs
  <2>2. next.for >= AtMost(Count(r, failures), FailureThreshold)
    BY NumberTypes DEF GoesOn, Counted, Count, AtMost, Runs, Record
  <2>3. f = {} => next.for >= FailureThreshold
    BY <2>1, <2>2, CountType, NumberTypes DEF Agrees, AtMost, Runs
  <2>4. e.failures = AtMost(Count(r, failures), FailureThreshold)
    BY <1>0, <2>1
  <2> HIDE DEF e
  <2>5. Agrees(e, failures) /\ Counted(e, next)
    BY <1>0, <1>2, <2>2, <2>4 DEF Agrees, Counted, GoesOn
  <2>. QED  BY <1>2, <2>3, <2>5 DEF e
<1>. QED  BY <1>1, <1>2

(* Failures that a poll does not send, nor sent before, are on their way.  *)
LEMMA PassWaits ==
  ASSUME NEW r \in Record, NEW failures \in Failures, NEW f \in Failures,
         NEW run \in Runs, NEW next \in Runs, GoesOn(run, failures, next),
         Awaited(r, run, f, 0), ~ShouldSend(r, failures).send
  PROVE  Awaited(ShouldSend(r, failures).record, next, f, 1)
<1> DEFINE d == ShouldSend(r, failures)
<1>1. SUFFICES ASSUME failures # {}, f # failures
               PROVE  \/ /\ ~d.record.active /\ d.record.pending = failures
                         /\ next.for <= d.record.failures /\ d.record.failures < FailureThreshold
                      \/ /\ d.record.active /\ d.record.fingerprint = failures
                         /\ next.for <= Renotify /\ next.for <= d.record.age + 1
  BY DEF Awaited, GoesOn
<1>2. /\ d.record.active = r.active /\ d.record.fingerprint = r.fingerprint
      /\ d.record.pending = failures /\ d.record.age = r.age
      /\ d.record.failures = AtMost(Count(r, failures), FailureThreshold)
      /\ r.active => failures = r.fingerprint /\ ~(r.age >= Renotify)
      /\ ~r.active => ~(Count(r, failures) >= FailureThreshold)
  BY <1>1, FailingIs
<1> HIDE DEF d
<1>3. run.of = failures /\ run.for > 0 =>
        \/ ~r.active /\ r.pending = failures /\ run.for <= r.failures
        \/ r.active /\ run.for <= r.age
  BY <1>1 DEF Awaited, Record, Runs
<1>4. next.for = 1 \/ (run.of = failures /\ next.for <= run.for + 1)
  BY NumberTypes DEF GoesOn, AtMost, Runs
<1>5. CASE r.active
  <2>1. r.age \in Nat /\ r.age < Renotify /\ next.for \in Nat
    BY <1>2, <1>5, NumberTypes DEF Record, Runs
  <2>2. next.for <= r.age + 1
    BY <1>3, <1>4, <1>5, <2>1, NumberTypes DEF Runs
  <2>. QED  BY <1>2, <1>5, <2>1, <2>2, NumberTypes
<1>6. CASE ~r.active
  <2>1. Count(r, failures) \in Nat /\ Count(r, failures) >= 1 /\ Count(r, failures) < FailureThreshold
    BY <1>2, <1>6, CountType, NumberTypes
  <2>2. next.for <= Count(r, failures)
    BY <1>3, <1>4, <1>6, <2>1, NumberTypes DEF Count, Runs, Record
  <2>. QED  BY <1>2, <1>6, <2>1, <2>2, NumberTypes DEF AtMost
<1>. QED  BY <1>5, <1>6

-----------------------------------------------------------------------------
(* A poll of a stream: what it decides on, and that it leaves the others.  *)
LEMMA PollIs ==
  ASSUME TypeInv, Pass \/ Withhold \/ Send
  PROVE  \E s \in Streams, failures \in Failures, r \in Record :
           LET d == ShouldSend(r, failures)
           IN  /\ r = Here(s) /\ ~Polled(s)
               /\ \A x \in Streams \ {s} :
                    /\ Here(x)' = Here(x) /\ spell'[x] = spell[x] /\ told'[x] = told[x]
                    /\ Polled(x) => Polled(x)'
               /\ \/ Withhold /\ spell'[s].for = 0 /\ ~kept' /\ told' = told
                  \/ /\ Pass /\ ~d.send /\ Here(s)' = d.record /\ told'[s] = told[s]
                     /\ GoesOn(spell[s], failures, spell'[s])
                  \/ /\ Send /\ d.send /\ Here(s)' = RecordSent(d.record, failures) /\ told'[s] = failures
                     /\ GoesOn(spell[s], failures, spell'[s])
               /\ Polled(s)'
<1> DEFINE d == Decision
<1>1. PICK s \in Streams, failures \in Failures, r \in Record :
        s = Stream /\ failures = FailuresOf(Stream) /\ r = state.groups[Stream]
  BY StreamType DEF Pass, Withhold, Send
<1>2. at \in Lanes /\ at # "sleep" /\ NextStream
  BY DEF Pass, Withhold, Send, Lanes
<1>3. at' # "sleep" /\ at' \in {"misconfigured", "group", "save"}
  BY <1>2 DEF NextStream
<1>4. r = Here(s) /\ Decision = ShouldSend(r, failures)
  BY <1>1, <1>2 DEF Here, Decision
<1>5. PICK new \in Record : state' = [state EXCEPT !.groups[s] = new]
                            /\ (Pass => new = Decision.record)
                            /\ (Send => new = RecordSent(Decision.record, failures))
  BY <1>1, <1>2, StreamType DEF Pass, Withhold, Send
<1>6. Here(s)' = new /\ \A x \in Streams \ {s} : Here(x)' = Here(x)
  BY <1>2, <1>3, <1>5 DEF Here, TypeInv, TypeOK, Files
<1>7. \A x \in Streams \ {s} : spell'[x] = spell[x] /\ told'[x] = told[x]
  <2>1. \A x \in Streams \ {s} : told'[x] = told[x]
    BY <1>1 DEF Pass, Withhold, Send, TypeInv, TypeOK
  <2>2. CASE spell' = Longer(s, failures)
    BY <2>1, <2>2, LongerIs
  <2>3. CASE spell' = [spell EXCEPT ![s] = [of |-> {}, for |-> 0]]
    BY <2>1, <2>3 DEF TypeInv, TypeOK
  <2>. QED  BY <1>1, <2>2, <2>3 DEF Pass, Withhold, Send
<1>8. s = <<Groups[turn], at>> /\ turn \in 1..Len(Groups)
  BY <1>1 DEF Stream, TypeInv, TypeOK
<1>9. ~Polled(s)
  <2>1. ASSUME NEW i \in 1..Len(Groups), Groups[turn] = Groups[i] PROVE i = turn
    BY <1>8, <2>1, ProbeAssumption
  <2>. QED  BY <1>2, <1>8, <2>1 DEF Polled, Lanes
<1>10. Polled(s)' /\ \A x \in Streams \ {s} : Polled(x) => Polled(x)'
  <2>1. CASE at = "regression"
    <3>1. at' = "misconfigured" /\ turn' = turn
      BY <2>1 , <1>2 DEF NextStream
    <3>. QED  BY <1>8, <2>1, <3>1 DEF Polled
  <2>2. CASE at = "misconfigured" /\ turn < Len(Groups)
    <3>1. at' = "group" /\ turn' = turn + 1
      BY <2>2 , <1>2 DEF NextStream
    <3>. QED  BY <1>8, <2>2, <3>1, ProbeAssumption DEF Polled
  <2>3. CASE at = "misconfigured" /\ ~(turn < Len(Groups))
    BY <1>2, <2>3 DEF NextStream, Polled
  <2>. QED  BY <1>2, <2>1, <2>2, <2>3 DEF Lanes
<1>11. Pass \/ Send => GoesOn(spell[s], failures, spell'[s])
  BY <1>1, LongerIs DEF Pass, Send, GoesOn
<1>12. /\ Withhold => spell'[s].for = 0 /\ ~kept' /\ told' = told
       /\ Pass => told' = told /\ ~Decision.send
       /\ Send => told'[s] = failures /\ Decision.send
  BY <1>1 DEF Withhold, Pass, Send, TypeInv, TypeOK
<1>. QED  BY <1>4, <1>5, <1>6, <1>7, <1>9, <1>10, <1>11, <1>12

LEMMA SpellTypes ==
  ASSUME TypeInv, NEW s \in Streams
  PROVE  spell[s] \in Runs /\ told[s] \in Failures /\ Here(s) \in Record
BY RecordsIn DEF TypeInv, TypeOK, Runs, Here

LEMMA KeptInit == Init => KeptInv
<1> SUFFICES ASSUME Init, NEW s \in Streams PROVE Agrees(Here(s), told[s]) /\ Counted(Here(s), spell[s])
  BY DEF KeptInv
<1>. QED  BY DEF Init, Here, NoFile, Resolved, Agrees, Counted

(* The steps that are not polls.                                           *)
LEMMA KeptOther ==
  ASSUME TypeInv, KeptInv, kept', Begin \/ RunProbes \/ Save \/ UNCHANGED vars
  PROVE  KeptInv'
<1>1. kept /\ told' = told /\ spell' = spell
  BY DEF Begin, RunProbes, Save, vars
<1>2. ASSUME NEW s \in Streams
      PROVE  /\ Here(s)'.active = Here(s).active /\ Here(s)'.fingerprint = Here(s).fingerprint
             /\ Here(s)'.pending = Here(s).pending /\ Here(s)'.failures = Here(s).failures
             /\ Here(s)'.recoveries = Here(s).recoveries
  <2>1. CASE Begin
    <3>1. Here(s) = saved.groups[s] /\ Here(s) \in Record
      BY <1>2, <2>1, SpellTypes DEF Begin, Here
    <3>2. Here(s)' = [saved.groups[s] EXCEPT !.age = AtMost(saved.groups[s].age + 1, Renotify)]
      BY <1>2, <2>1, OlderType DEF Begin, Here, TypeInv, TypeOK
    <3>. QED  BY <3>1, <3>2 DEF Record
  <2>2. CASE RunProbes
    BY <2>2 DEF RunProbes, Here, TypeInv, TypeOK, Files
  <2>3. CASE Save
    BY <2>3 DEF Save, Sleep, Here
  <2>4. CASE UNCHANGED vars
    BY <2>4 DEF vars, Here
  <2>. QED  BY <2>1, <2>2, <2>3, <2>4
<1>. QED  BY <1>1, <1>2 DEF KeptInv, Agrees, Counted

(* A poll, and what it tells.                                              *)
LEMMA KeptPoll ==
  ASSUME TypeInv, TypeInv', KeptInv, kept', Pass \/ Withhold \/ Send
  PROVE  /\ KeptInv'
         /\ \A s \in Streams : told'[s] # told[s] =>
              IF told'[s] = {} THEN spell'[s].for >= RecoveryThreshold
              ELSE told[s] = {} => spell'[s].for >= FailureThreshold
<1>1. kept
  BY DEF Pass, Withhold, Send
<1>2. PICK s \in Streams, failures \in Failures, r \in Record :
        LET d == ShouldSend(r, failures)
        IN  /\ r = Here(s)
            /\ \A x \in Streams \ {s} :
                 Here(x)' = Here(x) /\ spell'[x] = spell[x] /\ told'[x] = told[x]
            /\ \/ /\ ~d.send /\ Here(s)' = d.record /\ told'[s] = told[s]
                  /\ GoesOn(spell[s], failures, spell'[s])
               \/ /\ d.send /\ Here(s)' = RecordSent(d.record, failures) /\ told'[s] = failures
                  /\ GoesOn(spell[s], failures, spell'[s])
  BY PollIs
<1>3. spell[s] \in Runs /\ spell'[s] \in Runs /\ told[s] \in Failures
  BY SpellTypes DEF TypeInv, TypeOK, Runs
<1>4. Agrees(r, told[s]) /\ Counted(r, spell[s])
  BY <1>1, <1>2 DEF KeptInv
<1>5. /\ Agrees(Here(s)', told'[s]) /\ Counted(Here(s)', spell'[s])
      /\ told'[s] # told[s] =>
           IF told'[s] = {} THEN spell'[s].for >= RecoveryThreshold
           ELSE told[s] = {} => spell'[s].for >= FailureThreshold
  BY <1>2, <1>3, <1>4, PassKeeps, SendKeeps
<1>. QED  BY <1>1, <1>2, <1>5 DEF KeptInv

LEMMA KeptStep == TypeInv /\ KeptInv /\ [Next]_vars => KeptInv'
<1> SUFFICES ASSUME TypeInv, KeptInv, [Next]_vars, kept' PROVE KeptInv'
  BY DEF KeptInv
<1>. QED  BY TypeStep, KeptOther, KeptPoll DEF Next, SendFails, SaveFails, Restart, Redeploy

LEMMA KeptInvariant == Spec => []KeptInv
BY KeptInit, KeptStep, TypeInvariant, PTL DEF Spec

(* Without faults and maintenance the state file says, between iterations, *)
(* which incidents the operator has open and with which failures.          *)
THEOREM FileCorrect == Spec => []FileSaysWhatWasTold
<1>1. KeptInv => FileSaysWhatWasTold
  BY DEF KeptInv, Agrees, Here, FileSaysWhatWasTold
<1>. QED  BY <1>1, KeptInvariant, PTL

(* A new incident is told after as many equal polls in a row as the        *)
(* threshold asks for, a recovery after as many good ones.                 *)
THEOREM ThresholdsCorrect == Spec => ThresholdsKept
<1>1. TypeInv /\ KeptInv /\ [Next]_vars =>
        [\A s \in Streams :
           kept' /\ told'[s] # told[s] =>
             IF told'[s] = {} THEN spell'[s].for >= RecoveryThreshold
             ELSE told[s] = {} => spell'[s].for >= FailureThreshold]_vars
  <2> SUFFICES ASSUME TypeInv, KeptInv, [Next]_vars, NEW s \in Streams, kept', told'[s] # told[s]
               PROVE  IF told'[s] = {} THEN spell'[s].for >= RecoveryThreshold
                      ELSE told[s] = {} => spell'[s].for >= FailureThreshold
    OBVIOUS
  <2>1. Pass \/ Withhold \/ Send
    BY DEF Next, Begin, RunProbes, Save, SendFails, SaveFails, Restart, Redeploy, vars
  <2>. QED  BY <2>1, TypeStep, KeptPoll
<1>. QED  BY <1>1, TypeInvariant, KeptInvariant, PTL DEF Spec, ThresholdsKept

-----------------------------------------------------------------------------
LEMMA WaitInit == Init => WaitInv
BY DEF Init, WaitInv, Awaited

LEMMA WaitPoll ==
  ASSUME TypeInv, TypeInv', WaitInv, Pass \/ Withhold \/ Send
  PROVE  WaitInv'
<1>1. PICK s \in Streams, failures \in Failures, r \in Record :
        LET d == ShouldSend(r, failures)
        IN  /\ r = Here(s) /\ ~Polled(s)
            /\ \A x \in Streams \ {s} :
                 /\ Here(x)' = Here(x) /\ spell'[x] = spell[x] /\ told'[x] = told[x]
                 /\ Polled(x) => Polled(x)'
            /\ \/ spell'[s].for = 0
               \/ /\ ~d.send /\ Here(s)' = d.record /\ told'[s] = told[s]
                  /\ GoesOn(spell[s], failures, spell'[s])
               \/ told'[s] = failures /\ GoesOn(spell[s], failures, spell'[s])
            /\ Polled(s)'
  BY PollIs
<1>2. spell[s] \in Runs /\ spell'[s] \in Runs /\ told[s] \in Failures
  BY SpellTypes DEF TypeInv, TypeOK, Runs
<1>3. Awaited(r, spell[s], told[s], 0) /\ Late(s)' = 1
  BY <1>1 DEF WaitInv, Late
<1>4. Awaited(Here(s)', spell'[s], told'[s], 1)
  <2>1. CASE spell'[s].for = 0
    BY <2>1 DEF Awaited
  <2>2. CASE ~ShouldSend(r, failures).send /\ Here(s)' = ShouldSend(r, failures).record
             /\ told'[s] = told[s] /\ GoesOn(spell[s], failures, spell'[s])
    BY <1>2, <1>3, <2>2, PassWaits
  <2>3. CASE told'[s] = failures /\ GoesOn(spell[s], failures, spell'[s])
    BY <2>3 DEF Awaited, GoesOn
  <2>. QED  BY <1>1, <2>1, <2>2, <2>3
<1>5. ASSUME NEW x \in Streams \ {s} PROVE Awaited(Here(x)', spell'[x], told'[x], Late(x)')
  <2>1. Late(x) \in {0, 1} /\ Late(x)' \in {0, 1} /\ Late(x) <= Late(x)'
    BY <1>1, <1>5 DEF Late
  <2>2. Awaited(Here(x), spell[x], told[x], Late(x)) /\ Here(x).age \in Nat /\ spell[x].for \in Nat
    BY SpellTypes, NumberTypes DEF WaitInv, Record, Runs
  <2>. QED  BY <1>1, <1>5, <2>1, <2>2 DEF Awaited
<1>. QED  BY <1>3, <1>4, <1>5 DEF WaitInv

LEMMA WaitStep == TypeInv /\ WaitInv /\ [Next]_vars => WaitInv'
<1> SUFFICES ASSUME TypeInv, WaitInv, [Next]_vars PROVE WaitInv'
  OBVIOUS
<1>1. CASE Begin
  <2> SUFFICES ASSUME NEW s \in Streams PROVE Awaited(Here(s)', spell[s], told[s], Late(s)')
    BY <1>1 DEF Begin, WaitInv
  <2>1. Here(s) = saved.groups[s] /\ Here(s) \in Record /\ Late(s) = 1 /\ Late(s)' \in {0, 1}
        /\ spell[s] \in Runs
    BY <1>1, SpellTypes DEF Begin, Here, Late, Polled
  <2>2. Here(s)' = [saved.groups[s] EXCEPT !.age = AtMost(saved.groups[s].age + 1, Renotify)]
    BY <1>1, OlderType DEF Begin, Here, TypeInv, TypeOK
  <2>3. /\ Here(s)'.active = Here(s).active /\ Here(s)'.fingerprint = Here(s).fingerprint
        /\ Here(s)'.pending = Here(s).pending /\ Here(s)'.failures = Here(s).failures
        /\ Here(s)'.age = AtMost(Here(s).age + 1, Renotify)
    BY <2>1, <2>2 DEF Record
  <2>4. Awaited(Here(s), spell[s], told[s], 1)
    BY <2>1 DEF WaitInv
  <2>5. spell[s].for <= Renotify /\ spell[s].for <= Here(s).age + 1 => spell[s].for <= Here(s)'.age + Late(s)'
    BY <2>1, <2>3, NumberTypes DEF AtMost, Record, Runs
  <2>. QED  BY <2>3, <2>4, <2>5 DEF Awaited
<1>2. CASE RunProbes
  <2>1. \A s \in Streams : Here(s)' = Here(s)
    BY <1>2 DEF RunProbes, Here, TypeInv, TypeOK, Files
  <2>2. \A s \in Streams : Late(s)' = Late(s)
    BY <1>2 DEF RunProbes, Late, Polled
  <2>. QED  BY <1>2, <2>1, <2>2 DEF RunProbes, WaitInv
<1>3. CASE Save
  <2>1. \A s \in Streams : Here(s)' = Here(s) /\ Late(s)' = Late(s)
    BY <1>3 DEF Save, Sleep, Here, Late, Polled
  <2>. QED  BY <1>3, <2>1 DEF Save, WaitInv
<1>4. CASE SendFails \/ SaveFails \/ Restart \/ Redeploy
  <2>1. \A s \in Streams : spell'[s].for = 0
    BY <1>4 DEF SendFails, SaveFails, Restart, Redeploy, NoSpells
  <2>. QED  BY <2>1 DEF WaitInv, Awaited
<1>5. CASE UNCHANGED vars
  BY <1>5 DEF vars, WaitInv, Here, Late, Polled
<1>. QED  BY <1>1, <1>2, <1>3, <1>4, <1>5, TypeStep, WaitPoll DEF Next

(* Whatever was lost or withheld before, failures that stay the same for   *)
(* the threshold and the interval have been told.                          *)
THEOREM FailureTold == Spec => []StableFailureIsTold
<1>1. TypeInv /\ WaitInv => StableFailureIsTold
  <2> SUFFICES ASSUME TypeInv, WaitInv, NEW s \in Streams, spell[s].of # {},
                      spell[s].for >= FailureThreshold, spell[s].for > Renotify,
                      told[s] # spell[s].of
               PROVE  FALSE
    BY DEF StableFailureIsTold
  <2>1. Here(s) \in Record /\ spell[s] \in Runs
    BY SpellTypes
  <2>. QED  BY <2>1, NumberTypes DEF WaitInv, Awaited, Record, Runs
<1>. QED  BY <1>1, WaitInit, WaitStep, TypeInvariant, PTL DEF Spec

-----------------------------------------------------------------------------
(* Where the walk may come.                                                *)
Spots == Probes \cup {NoProbe}

(* One step of the walk of Leads; a cycle holds nothing back.              *)
Walked(w, failed) ==
  [on \in Spots \X SUBSET Probes |->
     IF on[1] = NoProbe THEN TRUE
     ELSE IF on[1] \notin failed THEN FALSE
     ELSE IF on[1] \in on[2] THEN FALSE
     ELSE w[<<dependsOn[on[1]], on[2] \cup {on[1]}>>]]

(* The walk is a function that its own step gives back.                    *)
LEMMA LeadsIs ==
  ASSUME NEW p, NEW failed
  PROVE  LET walk == CHOOSE w : w = Walked(w, failed)
         IN  CascadesToFailingRoot(p, failed) <=> dependsOn[p] # NoProbe /\ walk[<<dependsOn[p], {p}>>]
  BY DEF CascadesToFailingRoot, Leads, Walked, Spots

(* A way from cur through failed probes that were not met yet, to one that *)
(* depends on nothing.                                                     *)
IsWay(path, n, cur, met, failed) ==
  /\ path \in [0..n -> Spots] /\ path[0] = cur /\ path[n] = NoProbe
  /\ \A i \in 0..n - 1 : path[i] \in failed \ met /\ path[i] # NoProbe /\ path[i + 1] = dependsOn[path[i]]
  /\ \A i, j \in 0..n : path[i] = path[j] => i = j

Way(cur, met, failed) == \E n \in Nat : \E path : IsWay(path, n, cur, met, failed)

(* A way is a step and a way.                                              *)
LEMMA WayStep ==
  ASSUME NEW failed \in SUBSET Probes, NEW cur \in Spots, NEW met \in SUBSET Probes, NoProbe \notin Probes,
         dependsOn \in [Probes -> Spots]
  PROVE  Way(cur, met, failed) <=>
           \/ cur = NoProbe
           \/ cur \in failed \ met /\ Way(dependsOn[cur], met \cup {cur}, failed)
<1>1. ASSUME cur = NoProbe PROVE Way(cur, met, failed)
  <2> DEFINE path == [i \in 0..0 |-> NoProbe]
  <2>1. IsWay(path, 0, cur, met, failed)
    BY <1>1 DEF IsWay, Spots
  <2> QED
    BY <2>1 DEF Way
<1>2. ASSUME cur # NoProbe, Way(cur, met, failed)
      PROVE  cur \in failed \ met /\ Way(dependsOn[cur], met \cup {cur}, failed)
  <2>1. PICK n \in Nat : \E path : IsWay(path, n, cur, met, failed)
    BY <1>2 DEF Way
  <2>2. PICK path : IsWay(path, n, cur, met, failed)
    BY <2>1
  <2>3. n # 0
    BY <1>2, <2>2 DEF IsWay
  <2> DEFINE rest == [i \in 0..n - 1 |-> path[i + 1]]
  <2>4. \A i \in 0..n - 1 : i + 1 \in 0..n /\ i \in 0..n /\ i + 1 # 0 /\ (i + 1) - 1 = i
    BY <2>3
  <2>5. rest \in [0..n - 1 -> Spots]
    BY <2>2, <2>4 DEF IsWay
  <2>6. \A i \in 0..n - 1 : rest[i] = path[i + 1]
    OBVIOUS
  <2>7. n - 1 \in Nat /\ 0 \in 0..n - 1 /\ n - 1 \in 0..n - 1 /\ (n - 1) + 1 = n /\ 0 \in 0..n
    BY <2>3
  <2>8. path[0] = cur /\ cur \in failed \ met /\ path[1] = dependsOn[cur]
    BY <2>2, <2>7 DEF IsWay
  <2> HIDE DEF rest
  <2>9. \A i \in 0..(n - 1) - 1 :
          /\ i + 1 \in 0..n - 1 /\ i \in 0..n - 1 /\ i + 1 # 0 /\ i + 1 \in 0..n
    BY <2>3
  <2>10. rest[0] = dependsOn[cur] /\ rest[n - 1] = NoProbe
    BY <2>2, <2>6, <2>7, <2>8 DEF IsWay
  <2>11. \A i, j \in 0..n - 1 : rest[i] = rest[j] => i = j
    <3> SUFFICES ASSUME NEW i \in 0..n - 1, NEW j \in 0..n - 1, rest[i] = rest[j] PROVE i = j
      OBVIOUS
    <3>1. path[i + 1] = path[j + 1] /\ i + 1 \in 0..n /\ j + 1 \in 0..n
      BY <2>6, <2>4
    <3>2. i + 1 = j + 1
      BY <2>2, <3>1 DEF IsWay
    <3> QED
      BY <3>2
  <2>12. ASSUME NEW i \in 0..(n - 1) - 1
         PROVE  rest[i] \in failed \ (met \cup {cur}) /\ rest[i] # NoProbe /\ rest[i + 1] = dependsOn[rest[i]]
    <3>1. rest[i] = path[i + 1] /\ rest[i + 1] = path[(i + 1) + 1]
      BY <2>6, <2>9
    <3>2. i + 1 \in 0..n - 1 /\ i + 1 \in 0..n /\ i + 1 # 0
      BY <2>9
    <3>3. path[i + 1] \in failed \ met /\ path[i + 1] # NoProbe /\ path[(i + 1) + 1] = dependsOn[path[i + 1]]
      BY <2>2, <3>2 DEF IsWay
    <3>4. path[i + 1] # path[0]
      BY <2>2, <2>7, <3>2 DEF IsWay
    <3> QED
      BY <2>8, <3>1, <3>3, <3>4
  <2>13. IsWay(rest, n - 1, dependsOn[cur], met \cup {cur}, failed)
    BY <2>5, <2>10, <2>11, <2>12 DEF IsWay
  <2> QED
    BY <2>7, <2>8, <2>13 DEF Way
<1>3. ASSUME cur \in failed \ met, Way(dependsOn[cur], met \cup {cur}, failed)
      PROVE  Way(cur, met, failed)
  <2>1. PICK n \in Nat : \E path : IsWay(path, n, dependsOn[cur], met \cup {cur}, failed)
    BY <1>3 DEF Way
  <2>2. PICK path : IsWay(path, n, dependsOn[cur], met \cup {cur}, failed)
    BY <2>1
  <2> DEFINE whole == [i \in 0..n + 1 |-> IF i = 0 THEN cur ELSE path[i - 1]]
  <2>3. \A i \in 0..n + 1 : i # 0 => i - 1 \in 0..n
    OBVIOUS
  <2>4. whole \in [0..n + 1 -> Spots]
    BY <2>2, <2>3 DEF IsWay
  <2>5. whole[0] = cur /\ \A i \in 0..n + 1 : i # 0 => whole[i] = path[i - 1]
    OBVIOUS
  <2> HIDE DEF whole
  <2>6. n + 1 \in Nat /\ n + 1 \in 0..n + 1 /\ (n + 1) - 1 = n /\ n + 1 # 0 /\ n \in 0..n
    OBVIOUS
  <2>7. \A i \in 0..n : path[i] # cur
    <3> SUFFICES ASSUME NEW i \in 0..n, path[i] = cur PROVE FALSE
      OBVIOUS
    <3>1. i = n \/ i \in 0..n - 1
      OBVIOUS
    <3>2. cur # NoProbe
      BY <1>3
    <3> QED
      BY <2>2, <3>1, <3>2 DEF IsWay
  <2>8. \A i, j \in 0..n + 1 : whole[i] = whole[j] => i = j
    <3> SUFFICES ASSUME NEW i \in 0..n + 1, NEW j \in 0..n + 1, whole[i] = whole[j] PROVE i = j
      OBVIOUS
    <3>1. CASE i = 0 \/ j = 0
      BY <2>3, <2>5, <2>7, <3>1
    <3>2. CASE i # 0 /\ j # 0
      <4>1. path[i - 1] = path[j - 1] /\ i - 1 \in 0..n /\ j - 1 \in 0..n
        BY <2>3, <2>5, <3>2
      <4>2. i - 1 = j - 1
        BY <2>2, <4>1 DEF IsWay
      <4> QED
        BY <4>2
    <3> QED
      BY <3>1, <3>2
  <2>9. ASSUME NEW i \in 0..(n + 1) - 1
        PROVE  whole[i] \in failed \ met /\ whole[i] # NoProbe /\ whole[i + 1] = dependsOn[whole[i]]
    <3>1. i + 1 \in 0..n + 1 /\ i \in 0..n + 1 /\ i + 1 # 0 /\ (i + 1) - 1 = i
      OBVIOUS
    <3>2. whole[i + 1] = path[i]
      BY <2>5, <3>1
    <3>3. CASE i = 0
      BY <1>3, <2>2, <2>5, <3>2, <3>3 DEF IsWay
    <3>4. CASE i # 0
      <4>1. i - 1 \in 0..n - 1 /\ (i - 1) + 1 = i /\ whole[i] = path[i - 1]
        BY <2>5, <3>1, <3>4
      <4> QED
        BY <2>2, <3>2, <4>1 DEF IsWay
    <3> QED
      BY <3>3, <3>4
  <2>10. whole[n + 1] = NoProbe
    BY <2>2, <2>5, <2>6 DEF IsWay
  <2>11. IsWay(whole, n + 1, cur, met, failed)
    BY <2>4, <2>5, <2>8, <2>9, <2>10 DEF IsWay
  <2> QED
    BY <2>6, <2>11 DEF Way
<1> QED
  BY <1>1, <1>2, <1>3

Walk(failed) == CHOOSE w : w = Walked(w, failed)

(* Ways solve the equation of the walk, so that the walk does.             *)
LEMMA WalkIs ==
  ASSUME NEW failed \in SUBSET Probes, dependsOn \in [Probes -> Spots], NoProbe \notin Probes
  PROVE  Walk(failed) = Walked(Walk(failed), failed)
<1> DEFINE w == [on \in Spots \X SUBSET Probes |-> Way(on[1], on[2], failed)]
<1>1. ASSUME NEW cur \in Spots, NEW met \in SUBSET Probes
      PROVE  Way(cur, met, failed) =
               IF cur = NoProbe THEN TRUE
               ELSE IF cur \notin failed THEN FALSE
               ELSE IF cur \in met THEN FALSE
               ELSE w[<<dependsOn[cur], met \cup {cur}>>]
  <2>1. Way(cur, met, failed) \in BOOLEAN
    BY DEF Way
  <2>2. ASSUME cur \in failed \ met
        PROVE  w[<<dependsOn[cur], met \cup {cur}>>] = Way(dependsOn[cur], met \cup {cur}, failed)
    <3>1. dependsOn[cur] \in Spots /\ met \cup {cur} \in SUBSET Probes
      BY <2>2
    <3> QED
      BY <3>1
  <2>3. Way(cur, met, failed) <=>
           \/ cur = NoProbe
           \/ cur \in failed \ met /\ Way(dependsOn[cur], met \cup {cur}, failed)
    BY WayStep
  <2>4. \A other : Way(other, met \cup {cur}, failed) \in BOOLEAN
    BY DEF Way
  <2> HIDE DEF w
  <2> QED
    BY <2>1, <2>2, <2>3, <2>4
<1>2. w = Walked(w, failed)
  <2> HIDE DEF w
  <2>1. w = [on \in Spots \X SUBSET Probes |-> Way(on[1], on[2], failed)]
    BY DEF w
  <2>2. ASSUME NEW on \in Spots \X SUBSET Probes
        PROVE  Way(on[1], on[2], failed) =
                 IF on[1] = NoProbe THEN TRUE
                 ELSE IF on[1] \notin failed THEN FALSE
                 ELSE IF on[1] \in on[2] THEN FALSE
                 ELSE w[<<dependsOn[on[1]], on[2] \cup {on[1]}>>]
    BY <1>1
  <2> DEFINE F(on) == Way(on[1], on[2], failed)
             G(on) == IF on[1] = NoProbe THEN TRUE
                      ELSE IF on[1] \notin failed THEN FALSE
                      ELSE IF on[1] \in on[2] THEN FALSE
                      ELSE w[<<dependsOn[on[1]], on[2] \cup {on[1]}>>]
  <2>3. \A on \in Spots \X SUBSET Probes : F(on) = G(on)
    BY <2>2
  <2>4. w = [on \in Spots \X SUBSET Probes |-> F(on)] /\ Walked(w, failed) = [on \in Spots \X SUBSET Probes |-> G(on)]
    BY <2>1 DEF Walked
  <2> HIDE DEF F, G
  <2> QED
    BY <2>3, <2>4
<1> QED
  BY <1>2 DEF Walk

LEMMA WalkAt ==
  ASSUME NEW failed \in SUBSET Probes, dependsOn \in [Probes -> Spots], NoProbe \notin Probes,
         NEW cur \in Spots, NEW met \in SUBSET Probes
  PROVE  Walk(failed)[<<cur, met>>] =
           IF cur = NoProbe THEN TRUE
           ELSE IF cur \notin failed THEN FALSE
           ELSE IF cur \in met THEN FALSE
           ELSE Walk(failed)[<<dependsOn[cur], met \cup {cur}>>]
<1> DEFINE w == Walk(failed)
<1>1. w = Walked(w, failed)
  BY WalkIs
<1> HIDE DEF w
<1>2. w[<<cur, met>>] = Walked(w, failed)[<<cur, met>>]
  BY <1>1
<1>3. w[<<cur, met>>] =
        IF cur = NoProbe THEN TRUE
        ELSE IF cur \notin failed THEN FALSE
        ELSE IF cur \in met THEN FALSE
        ELSE w[<<dependsOn[cur], met \cup {cur}>>]
  BY <1>2 DEF Walked
<1> QED
  BY <1>3 DEF w

(* Where the walk ends well there is a way: with a least set of probes     *)
(* still to meet for which there is none, one step further there would be  *)
(* none either.                                                            *)
LEMMA WalkHasWay ==
  ASSUME NEW failed \in SUBSET Probes, dependsOn \in [Probes -> Spots], NoProbe \notin Probes, IsFiniteSet(Probes),
         NEW cur \in Spots, NEW met \in SUBSET Probes, Walk(failed)[<<cur, met>>]
  PROVE  Way(cur, met, failed)
<1> DEFINE Wrong(m) == \E c \in Spots : Walk(failed)[<<c, m>>] /\ ~Way(c, m, failed)
           bad == {Probes \ m : m \in {n \in SUBSET Probes : Wrong(n)}}
           Onto(c, m) == IF c = NoProbe THEN TRUE
                         ELSE IF c \notin failed THEN FALSE
                         ELSE IF c \in m THEN FALSE
                         ELSE Walk(failed)[<<dependsOn[c], m \cup {c}>>]
<1>0. \A c \in Spots, m \in SUBSET Probes : Walk(failed)[<<c, m>>] = Onto(c, m)
  BY WalkAt
<1> HIDE DEF Onto
<1> SUFFICES ASSUME ~Way(cur, met, failed) PROVE FALSE
  OBVIOUS
<1>1. bad \subseteq SUBSET Probes /\ bad # {}
  <2>1. Wrong(met)
    OBVIOUS
  <2> HIDE DEF Wrong
  <2> QED
    BY <2>1
<1>2. \E b \in bad : \A c \in bad : <<c, b>> \notin StrictSubsetOrdering(Probes)
  <2> DEFINE R == StrictSubsetOrdering(Probes)
             S == SUBSET Probes
  <2>1. IsWellFoundedOn(R, S)
    BY FS_StrictSubsetOrderingWellFounded, FS_FiniteSubsetsOfFinite
  <2> HIDE DEF bad, R, S
  <2>2. bad \subseteq S
    BY <1>1 DEF S
  <2>3. \E b \in bad : \A c \in bad : ~(<<c, b>> \in R)
    BY <1>1, <2>1, <2>2, WFMin
  <2> QED
    BY <2>3 DEF R
<1>3. PICK b \in bad : \A c \in bad : <<c, b>> \notin StrictSubsetOrdering(Probes)
  BY <1>2
<1>4. PICK m \in SUBSET Probes : Wrong(m) /\ b = Probes \ m
  <2> HIDE DEF Wrong
  <2> QED
    BY <1>3
<1>5. PICK c \in Spots : Walk(failed)[<<c, m>>] /\ ~Way(c, m, failed)
  BY <1>4
<1>6. c # NoProbe /\ c \in failed \ m /\ ~Way(dependsOn[c], m \cup {c}, failed)
  <2>1. Way(c, m, failed) <=> c = NoProbe \/ (c \in failed \ m /\ Way(dependsOn[c], m \cup {c}, failed))
    BY WayStep
  <2>2. (c \in failed /\ c \notin m) \/ c = NoProbe
    BY <1>5, WalkAt
  <2> QED
    BY <1>5, <2>1, <2>2
<1>7. Walk(failed)[<<dependsOn[c], m \cup {c}>>]
  <2>1. Walk(failed)[<<c, m>>] = Onto(c, m)
    BY <1>4, <1>5, <1>0
  <2> QED
    BY <1>5, <1>6, <2>1 DEF Onto
<1>8. m \cup {c} \in SUBSET Probes /\ dependsOn[c] \in Spots
  BY <1>6
<1>9. Wrong(m \cup {c})
  BY <1>6, <1>7, <1>8
<1>10. Probes \ (m \cup {c}) \in bad
  <2> HIDE DEF Wrong
  <2> QED
    BY <1>8, <1>9
<1>11. <<Probes \ (m \cup {c}), b>> \in StrictSubsetOrdering(Probes)
  <2>1. Probes \ (m \cup {c}) \subseteq b /\ b \subseteq Probes /\ c \in b
    BY <1>4, <1>6
  <2>2. Probes \ (m \cup {c}) # b
    BY <2>1
  <2> QED
    BY <2>1, <2>2 DEF StrictSubsetOrdering
<1> QED
  BY <1>3, <1>10, <1>11

(* A finite set of numbers has a least one.                                *)
LEMMA Least ==
  ASSUME NEW T, T \subseteq Nat, IsFiniteSet(T), T # {}
  PROVE  \E x \in T : \A y \in T : x <= y
<1> DEFINE Below(x) == {y \in T : y < x}
           family   == {Below(x) : x \in T}
<1>1. IsWellFoundedOn(StrictSubsetOrdering(T), SUBSET T)
  BY FS_StrictSubsetOrderingWellFounded, FS_FiniteSubsetsOfFinite
<1>2. family \subseteq SUBSET T /\ family # {}
  OBVIOUS
<1>3. \E F \in family : \A G \in family : ~(<<G, F>> \in StrictSubsetOrdering(T))
  <2> DEFINE R == StrictSubsetOrdering(T)
             S == SUBSET T
  <2> HIDE DEF family, R, S
  <2>1. IsWellFoundedOn(R, S) /\ family \subseteq S /\ family # {}
    BY <1>1, <1>2 DEF R, S
  <2>2. \E F \in family : \A G \in family : ~(<<G, F>> \in R)
    BY <2>1, WFMin
  <2> QED
    BY <2>2 DEF R
<1>4. PICK x \in T : \A G \in family : <<G, Below(x)>> \notin StrictSubsetOrdering(T)
  BY <1>3
<1>5. ASSUME NEW y \in T, y < x PROVE FALSE
  <2>1. Below(y) \in family
    OBVIOUS
  <2>2. (\A z \in T : z < y => z < x) /\ ~(y < y)
    BY <1>5
  <2>3. Below(y) \subseteq Below(x) /\ y \in Below(x) /\ y \notin Below(y)
    BY <1>5, <2>2, Zenon
  <2>4. <<Below(y), Below(x)>> \in StrictSubsetOrdering(T)
    BY <2>3 DEF StrictSubsetOrdering
  <2> QED
    BY <1>4, <2>1, <2>4
<1> QED
  BY <1>5

(* Upstream follows the way.                                               *)
LEMMA UpstreamIs ==
  ASSUME NEW p \in Probes, NoProbe \notin Probes, NEW failed \in SUBSET Probes, NEW n \in Nat, NEW path,
         IsWay(path, n, dependsOn[p], {p}, failed), n # 0
  PROVE  Upstream(p, n) = path[n - 1]
<1> DEFINE Next1(d, i) == IF i = 0 THEN p ELSE IF d[i - 1] = NoProbe THEN NoProbe ELSE dependsOn[d[i - 1]]
           Dep(d) == [i \in 0..n |-> Next1(d, i)]
           e == [i \in 0..n |-> IF i = 0 THEN p ELSE path[i - 1]]
           dep == CHOOSE d : d = Dep(d)
<1>1. Upstream(p, n) = dep[n]
  BY DEF Upstream
<1>2. ASSUME NEW i \in 0..n PROVE e[i] = Next1(e, i)
  <2>1. CASE i = 0
    BY <2>1
  <2>2. CASE i = 1
    <3>1. e[1] = path[0] /\ e[0] = p
      BY <2>2
    <3> QED
      BY <2>2, <3>1 DEF IsWay
  <2>3. CASE i > 1
    <3>1. e[i] = path[i - 1] /\ e[i - 1] = path[i - 2] /\ i - 2 \in 0..n - 1 /\ (i - 2) + 1 = i - 1
      BY <2>3
    <3>2. path[i - 2] # NoProbe /\ path[i - 1] = dependsOn[path[i - 2]]
      BY <3>1 DEF IsWay
    <3> QED
      BY <2>3, <3>1, <3>2
  <2> QED
    BY <2>1, <2>2, <2>3
<1>3. e = Dep(e)
  <2>1. e = [i \in 0..n |-> e[i]]
    OBVIOUS
  <2> HIDE DEF e, Next1
  <2> QED
    BY <1>2, <2>1
<1>4. dep = Dep(dep)
  <2> HIDE DEF e, Dep
  <2> QED
    BY <1>3
<1>5. \A i \in 0..n : dep[i] = Next1(dep, i)
  <2> HIDE DEF dep, Next1
  <2> QED
    BY <1>4
<1>6. \A i \in 0..n : dep[i] = e[i]
  <2> SUFFICES ASSUME NEW k \in 0..n, dep[k] # e[k] PROVE FALSE
    OBVIOUS
  <2> HIDE DEF dep, e
  <2> DEFINE T == {i \in 0..n : dep[i] # e[i]}
  <2>1. T \subseteq Nat /\ T # {} /\ T \subseteq 0..n
    OBVIOUS
  <2>2. IsFiniteSet(T)
    <3>1. IsFiniteSet(0..n)
      <4>1. \A a, b \in Int : IsFiniteSet(a..b)
        BY FS_Interval
      <4> QED
        BY <4>1
    <3> HIDE DEF T
    <3> QED
      BY <2>1, <3>1, FS_Subset
  <2> HIDE DEF T
  <2>3. PICK x \in T : \A y \in T : x <= y
    BY <2>1, <2>2, Least
  <2>4. x \in 0..n /\ dep[x] # e[x]
    BY <2>3 DEF T
  <2>5. CASE x = 0
    BY <1>2, <1>5, <2>4, <2>5
  <2>6. CASE x # 0
    <3>1. x - 1 \in 0..n /\ ~(x <= x - 1)
      BY <2>4, <2>6
    <3>2. dep[x - 1] = e[x - 1]
      BY <2>3, <3>1 DEF T
    <3> QED
      BY <1>2, <1>5, <2>4, <3>2
  <2> QED
    BY <2>5, <2>6
<1>7. n \in 0..n /\ e[n] = path[n - 1]
  OBVIOUS
<1> QED
  BY <1>1, <1>6, <1>7

(* The way of a failure that is held back ends at one that is not, after   *)
(* at most as many steps as there are probes.                              *)
LEMMA HeldBackHolds ==
  ASSUME dependsOn \in [Probes -> Spots], NoProbe \notin Probes, IsFiniteSet(Probes), NEW failed \in SUBSET Probes,
         NEW p \in failed, CascadesToFailingRoot(p, failed)
  PROVE  \E n \in 1..Cardinality(Probes) :
           Upstream(p, n) \in failed /\ ~CascadesToFailingRoot(Upstream(p, n), failed)
<1>1. dependsOn[p] # NoProbe /\ Walk(failed)[<<dependsOn[p], {p}>>]
  BY LeadsIs DEF Walk
<1>2. dependsOn[p] \in Spots /\ {p} \in SUBSET Probes
  OBVIOUS
<1>3. Way(dependsOn[p], {p}, failed)
  BY <1>1, <1>2, WalkHasWay
<1>4. PICK n \in Nat : \E path : IsWay(path, n, dependsOn[p], {p}, failed)
  BY <1>3 DEF Way
<1>5. PICK path : IsWay(path, n, dependsOn[p], {p}, failed)
  BY <1>4
<1>6. n # 0
  BY <1>1, <1>5 DEF IsWay
<1>7. Upstream(p, n) = path[n - 1]
  BY <1>5, <1>6, UpstreamIs
<1>8. n - 1 \in 0..n - 1 /\ (n - 1) + 1 = n
  BY <1>6
<1>9. path[n - 1] \in failed /\ dependsOn[path[n - 1]] = NoProbe
  BY <1>5, <1>8 DEF IsWay
<1>10. ~CascadesToFailingRoot(path[n - 1], failed)
  BY <1>9, LeadsIs
<1>11. n <= Cardinality(Probes)
  <2> DEFINE steps == [i \in 1..n |-> path[i - 1]]
  <2>1. \A i \in 1..n : i - 1 \in 0..n - 1 /\ i - 1 \in 0..n
    OBVIOUS
  <2>2. steps \in [1..n -> Probes]
    BY <1>5, <2>1 DEF IsWay
  <2>3. ASSUME NEW i \in 1..n, NEW j \in 1..n, steps[i] = steps[j] PROVE i = j
    <3>1. i - 1 = j - 1
      BY <1>5, <2>1, <2>3 DEF IsWay
    <3> QED
      BY <3>1
  <2>4. steps \in Injection(1..n, Probes)
    BY <2>2, <2>3, Fun_IsInj
  <2>5. Cardinality(1..n) <= Cardinality(Probes)
    BY <2>4, FS_Injection
  <2>6. Cardinality(1..n) = n
    BY <1>6, FS_Interval
  <2> QED
    BY <2>5, <2>6
<1>12. Cardinality(Probes) \in Nat
  BY FS_CardinalityType
<1> QED
  BY <1>6, <1>7, <1>9, <1>10, <1>11, <1>12

LEMMA ProbesOf ==
  ASSUME dependsOn \in Graphs
  PROVE  IsFiniteSet(Probes) /\ NoProbe \notin Probes /\ dependsOn \in [Probes -> Spots]
  BY ProbeAssumption DEF Spots

(* What is held back is explained, in every state whose declarations are   *)
(* of the release.                                                         *)
LEMMA ExplainedIs == dependsOn \in Graphs => HeldBackIsExplained
<1> SUFFICES ASSUME dependsOn \in Graphs, at \in Lanes, NEW p \in FailedIn(Groups[turn]) \ Sent(Groups[turn])
             PROVE  \E n \in 1..Cardinality(Probes) : Upstream(p, n) \in Sent(Groups[turn])
  BY DEF HeldBackIsExplained
<1> DEFINE failed == FailedIn(Groups[turn])
<1>1. failed \in SUBSET Probes /\ p \in failed /\ CascadesToFailingRoot(p, failed)
  BY DEF Sent, FailedIn, Failed
<1> HIDE DEF failed
<1>2. PICK n \in 1..Cardinality(Probes) : Upstream(p, n) \in failed /\ ~CascadesToFailingRoot(Upstream(p, n), failed)
  BY <1>1, ProbesOf, HeldBackHolds
<1> QED
  BY <1>2 DEF Sent, failed

(* A failure that is held back has, up its own dependencies, a failure     *)
(* that is sent, for any probes and declarations: cycles of failing probes *)
(* never swallow a page (_cascades_to_failing_root).                       *)
THEOREM HeldBackCorrect == Spec => []HeldBackIsExplained
<1>1. TypeInv => HeldBackIsExplained
  BY ExplainedIs DEF TypeInv, TypeOK
<1>. QED  BY <1>1, TypeInvariant, PTL
=============================================================================
