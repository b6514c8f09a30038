------------------------------ MODULE Watchdog ------------------------------
(***************************************************************************)
(* The out-of-band watchdog, cloudflare/infra-watchdog/worker.js, and the  *)
(* heartbeats it gets from the loop of tools/infra_probe_runner.py.  The   *)
(* worker keeps the last heartbeat and its alert state in a KV store; a    *)
(* cron run checks the public routes and the age of the heartbeat, writes  *)
(* the ledger, tells the operator what fails or that nothing does any      *)
(* more, and records the run.                                              *)
(*                                                                         *)
(* Time is counted in iterations of the probe loop.  One environment, so   *)
(* one heartbeat.  The archive of the ledger and its readers are left out. *)
(***************************************************************************)
EXTENDS Naturals

CONSTANTS
  Routes,      \* WATCHDOG_TARGETS_JSON
  Heartbeat,   \* the heartbeat among the checks
  Preflight,   \* the check that the configuration parses
  MinWrite,    \* WATCHDOG_HEARTBEAT_MIN_WRITE_INTERVAL_SECONDS
  MaxAge,      \* maxAgeSeconds of the heartbeat
  CronEvery,
  Renotify,    \* WATCHDOG_RENOTIFY_SECONDS
  Faults       \* what may fail: the delivery, a put to KV, a post, the config

(* What an instance gives these constants.                                 *)
WatchdogAssumption ==
  /\ Heartbeat \notin Routes
  /\ Preflight \notin Routes \cup {Heartbeat}
  /\ MinWrite \in Nat /\ MaxAge \in Nat /\ Renotify \in Nat
  /\ CronEvery \in Nat \ {0}
  /\ Faults \subseteq {"post", "put", "delivery", "config"}

Checks == Routes \cup {Heartbeat, Preflight}

VARIABLES
  runner,    \* the probe loop: what it does next, or "down"
  silence,   \* since a heartbeat reached the worker
  beat,      \* KV: the heartbeat, with its age
  alert,     \* KV: alert-state:cloudflare-watchdog
  lastRun,   \* KV: whether the last run recorded was ok
  parses,    \* the configuration of the worker does
  cron,      \* where the cron run is
  due,       \* until the next run
  found,     \* the failures of the run
  error,     \* its deliveryError
  told,      \* the failures the operator was told last
  quiet,     \* since the operator was told something
  put,       \* the key this step has put, if any
  faulty,    \* something has failed
  spell      \* how long runs in a row have found what, and failed in nothing

loop == <<runner, silence, beat>>
run  == <<cron, due, found, error, alert, lastRun, told, quiet, spell>>
vars == <<loop, run, parses, put, faulty>>

AtMost(n, bound) == IF n > bound THEN bound ELSE n

Horizon  == MaxAge + MinWrite + 1
Patience == Renotify + CronEvery

NoBeat   == [ok |-> FALSE, age |-> Horizon]
NoAlert  == [active |-> FALSE, failures |-> {}, age |-> Renotify]
NoSpell  == [of |-> {}, for |-> 0]

Init ==
  /\ runner = "start"
  /\ silence = Horizon
  /\ beat = NoBeat
  /\ alert = NoAlert
  /\ lastRun = "none"
  /\ parses = TRUE
  /\ cron = "idle"
  /\ due = CronEvery
  /\ found = {}
  /\ error = FALSE
  /\ told = {}
  /\ quiet = Renotify
  /\ put = "none"
  /\ faulty = FALSE
  /\ spell = NoSpell

-----------------------------------------------------------------------------
(* recordHeartbeat.  A status change is stored at once, the same status    *)
(* only when what is stored is MinWrite old.                               *)
ThrottledBySame(ok) == beat.ok = ok

Throttled(ok) == beat.ok = ok /\ beat.age < MinWrite

RecordHeartbeat(ok) ==
  \/ /\ Throttled(ok)
     /\ silence' = 0
     /\ put' = "none"
     /\ UNCHANGED <<beat, faulty>>
  \/ /\ ~Throttled(ok)
     /\ silence' = 0
     /\ beat' = [ok |-> ok, age |-> 0]
     /\ put' = "heartbeat"
     /\ UNCHANGED faulty
  \/ /\ ~Throttled(ok) /\ "put" \in Faults       \* logged, answered with 200
     /\ silence' = 0
     /\ put' = "none"
     /\ faulty' = TRUE
     /\ UNCHANGED beat
  \/ /\ "post" \in Faults                        \* logged by the probe loop
     /\ put' = "none"
     /\ faulty' = TRUE
     /\ UNCHANGED <<beat, silence>>

(* main: a heartbeat before the probes run, and one after, which says      *)
(* whether any of them failed.                                             *)
Iterate ==
  /\ runner = "start"
  /\ runner' = "probing"
  /\ RecordHeartbeat(TRUE)
  /\ UNCHANGED <<run, parses>>

Probed ==
  /\ runner = "probing"
  /\ runner' = "sleep"
  /\ \E ok \in BOOLEAN : RecordHeartbeat(ok)
  /\ UNCHANGED <<run, parses>>

RunnerDies ==
  /\ runner # "down"
  /\ runner' = "down"
  /\ put' = "none"
  /\ UNCHANGED <<silence, beat, run, parses, faulty>>

RunnerStarts ==
  /\ runner = "down"
  /\ runner' = "start"
  /\ put' = "none"
  /\ UNCHANGED <<silence, beat, run, parses, faulty>>

-----------------------------------------------------------------------------
(* runWatchdog, up to the check of the heartbeat.                          *)
StaleHeartbeat == beat.age > MaxAge

FailingHeartbeatUnnamed == {h \in {"undefined"} : ~beat.ok \/ StaleHeartbeat}

FailingHeartbeat == {h \in {Heartbeat} : ~beat.ok \/ StaleHeartbeat}

Check ==
  /\ cron = "idle" /\ due = 0
  /\ due' = CronEvery
  /\ error' = FALSE
  /\ IF parses
     THEN /\ \E routes \in SUBSET Routes : found' = routes \cup FailingHeartbeat
          /\ cron' = "ledger"
     ELSE /\ found' = {Preflight}
          /\ cron' = "notify"
  /\ put' = "none"
  /\ UNCHANGED <<loop, parses, alert, lastRun, told, quiet, faulty, spell>>

(* A put that throws here ends the run: nobody catches it.                 *)
RecordLedger ==
  /\ cron = "ledger"
  /\ \/ /\ cron' = "notify"
        /\ put' = "ledger"
        /\ UNCHANGED <<faulty, spell, found>>
     \/ /\ "put" \in Faults
        /\ cron' = "idle"
        /\ found' = {}
        /\ put' = "none"
        /\ faulty' = TRUE
        /\ spell' = NoSpell
  /\ UNCHANGED <<loop, parses, due, error, alert, lastRun, told, quiet>>

SendAlways == found # {} \/ alert.active

(* notifyIfNeeded                                                          *)
SendWhileActive ==
  alert.active /\ (found = {} \/ alert.failures # found \/ alert.age >= Renotify)

ShouldSend ==
  IF found = {} THEN alert.active
  ELSE ~alert.active \/ alert.failures # found \/ alert.age >= Renotify

NothingToSend ==
  /\ cron = "notify" /\ ~ShouldSend
  /\ cron' = "finish"
  /\ put' = "none"
  /\ UNCHANGED <<loop, parses, due, found, error, alert, lastRun, told, quiet, faulty, spell>>

Deliver ==
  /\ cron = "notify" /\ ShouldSend
  /\ cron' = "record"
  /\ told' = found
  /\ quiet' = 0
  /\ put' = "none"
  /\ UNCHANGED <<loop, parses, due, found, error, alert, lastRun, faulty, spell>>

(* Feishu fails, and so does the mail, or it is not configured.  A message *)
(* may have arrived all the same.                                          *)
DeliveryFails ==
  /\ "delivery" \in Faults
  /\ cron = "notify" /\ ShouldSend
  /\ cron' = "finish"
  /\ error' = TRUE
  /\ \/ UNCHANGED <<told, quiet>>
     \/ told' = found /\ quiet' = 0
  /\ put' = "none"
  /\ faulty' = TRUE
  /\ UNCHANGED <<loop, parses, due, found, alert, lastRun, spell>>

RecordActive ==
  /\ cron = "record"
  /\ cron' = "finish"
  /\ alert' = [active |-> TRUE, failures |-> found, age |-> 0]
  /\ put' = "alert"
  /\ UNCHANGED <<loop, parses, due, found, error, lastRun, told, quiet, faulty, spell>>

RecordAlert ==
  /\ cron = "record"
  /\ cron' = "finish"
  /\ \/ /\ alert' = [active |-> found # {}, failures |-> found, age |-> 0]
        /\ put' = "alert"
        /\ UNCHANGED <<error, faulty>>
     \/ /\ "put" \in Faults
        /\ error' = TRUE
        /\ put' = "none"
        /\ faulty' = TRUE
        /\ UNCHANGED alert
  /\ UNCHANGED <<loop, parses, due, found, lastRun, told, quiet, spell>>

Longer ==
  [of  |-> found,
   for |-> IF spell.of = found THEN AtMost(spell.for + CronEvery, Patience) ELSE 1]

(* saveLastRun, and the end of the run.                                    *)
Finish ==
  /\ cron = "finish"
  /\ cron' = "idle"
  /\ \/ /\ lastRun' = IF found = {} /\ ~error THEN "ok" ELSE "failed"
        /\ put' = "last-run"
        /\ UNCHANGED faulty
     \/ /\ "put" \in Faults
        /\ put' = "none"
        /\ faulty' = TRUE
        /\ UNCHANGED lastRun
  /\ spell' = IF error THEN NoSpell ELSE Longer
  /\ found' = {}
  /\ error' = FALSE
  /\ UNCHANGED <<loop, parses, due, alert, told, quiet>>

-----------------------------------------------------------------------------
(* A deployment of the worker.                                             *)
Configure ==
  /\ cron = "idle"
  /\ parses' \in (IF "config" \in Faults THEN BOOLEAN ELSE {TRUE})
  /\ parses' # parses
  /\ put' = "none"
  /\ UNCHANGED <<loop, run, faulty>>

(* The probe loop has slept, and a cron run is over before the next.       *)
Tick ==
  /\ runner \in {"sleep", "down"}
  /\ cron = "idle" /\ due > 0
  /\ due' = due - 1
  /\ runner' = IF runner = "down" THEN "down" ELSE "start"
  /\ silence' = AtMost(silence + 1, Horizon)
  /\ beat' = [beat EXCEPT !.age = AtMost(@ + 1, Horizon)]
  /\ alert' = [alert EXCEPT !.age = AtMost(@ + 1, Renotify)]
  /\ quiet' = AtMost(quiet + 1, Renotify)
  /\ put' = "none"
  /\ UNCHANGED <<cron, found, error, lastRun, told, parses, faulty, spell>>

Next ==
  \/ Iterate \/ Probed \/ RunnerDies \/ RunnerStarts
  \/ Check \/ RecordLedger \/ NothingToSend \/ Deliver \/ DeliveryFails
  \/ RecordAlert \/ Finish
  \/ Configure \/ Tick

Spec == Init /\ [][Next]_vars

-----------------------------------------------------------------------------
(* The values the state takes.                                             *)
TypeOK ==
  /\ runner \in {"start", "probing", "sleep", "down"}
  /\ silence \in 0..Horizon
  /\ beat \in [ok : BOOLEAN, age : 0..Horizon]
  /\ alert \in [active : BOOLEAN, failures : SUBSET Checks, age : 0..Renotify]
  /\ lastRun \in {"none", "ok", "failed"}
  /\ parses \in BOOLEAN
  /\ cron \in {"idle", "ledger", "notify", "record", "finish"}
  /\ due \in 0..CronEvery
  /\ found \in SUBSET Checks
  /\ error \in BOOLEAN
  /\ told \in SUBSET Checks
  /\ quiet \in 0..Renotify
  /\ put \in {"none", "heartbeat", "ledger", "alert", "last-run"}
  /\ faulty \in BOOLEAN
  /\ spell \in [of : SUBSET Checks, for : 0..Patience]

(* The throttle of the heartbeat: what is stored is never younger than the *)
(* last heartbeat, so that a dead loop looks dead in time, and, as long as *)
(* nothing failed, at most MinWrite older, so that a live one does not.    *)
HeartbeatAgeIsHonest ==
  /\ beat.age >= silence
  /\ ~faulty => beat.age <= silence + MinWrite

(* An outage that run after run finds is told, whatever failed before, at  *)
(* the latest when the interval of a message that did not count is over.   *)
StableOutageIsTold ==
  cron = "idle" /\ spell.of # {} /\ spell.for > Renotify => told = spell.of

(* Between runs, the alert state says what the operator was told, unless   *)
(* something has failed.                                                   *)
AlertSaysWhatWasTold ==
  ~faulty /\ cron = "idle" =>
    /\ alert.active <=> told # {}
    /\ alert.active => alert.failures = told

(* "the same fault renotifies only on the configured interval", unless     *)
(* something has failed, and a recovery is told once.                      *)
SameMessageWaits ==
  [][Deliver /\ ~faulty /\ told' = told =>
       told # {} /\ alert.age >= Renotify /\ quiet >= Renotify]_vars
=============================================================================
