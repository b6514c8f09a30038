------------------------------ MODULE AlertRules ------------------------------
(***************************************************************************)
(* The alert rules and the dashboard of finance_report as code: the apply  *)
(* of the checked-in catalog to SigNoz (observability/shared_tasks.py),    *)
(* ensure-log-error-rule by hand (platform/12.alerting/shared_tasks.py),   *)
(* and the canary rule (tools/signoz_alert_rule_probe.py).                 *)
(*                                                                         *)
(* The workflow runs apply and canary one at a time; what is done by hand  *)
(* interleaves with them.  Each call of SigNoz may fail, also after it has *)
(* had its effect, a DELETE answers well whether it deletes or not, and a  *)
(* good status may come with a body that is no list of rules, which        *)
(* _signoz_request makes None of and its callers read as an empty list.    *)
(***************************************************************************)
EXTENDS Naturals, Sequences, FiniteSets

CONSTANTS
  Jobs,       \* jobs, in the order they start
  Kinds,      \* what a job may be, of JobKinds
  Catalog,    \* alert_rules.json, in its order: [name, signal]
  Legacy,     \* rules in the beginning: [name, def, source, signal]
  MaxRules,   \* bound: rules ever created
  MaxMerges   \* bound: changes of the catalog

JobKinds == {"apply", "prune", "ensure", "canary"}
Sources == {"catalog", "canary", "none"}
Signals == {"logs", "metrics"}

InCatalog == {Catalog[i].name : i \in DOMAIN Catalog}
CanaryName == "canary"

(* What an instance gives these constants.  load_alert_definitions refuses  *)
(* an empty catalog and one that has a name twice; the canary's name has a  *)
(* prefix of its own.                                                       *)
RulesAssumption ==
  /\ Jobs \subseteq Nat /\ Kinds \subseteq JobKinds
  /\ Catalog \in Seq([name : STRING, signal : Signals]) /\ Catalog # <<>>
  /\ \A m, n \in DOMAIN Catalog : Catalog[m].name = Catalog[n].name => m = n
  /\ CanaryName \notin InCatalog
  /\ Legacy \in Seq([name : STRING, def : Nat, source : Sources, signal : Signals])
  /\ \A m, n \in DOMAIN Legacy : Legacy[m].name = Legacy[n].name /\ Legacy[m].name \in InCatalog => m = n
  /\ Len(Legacy) <= MaxRules /\ MaxRules \in Nat /\ MaxMerges \in Nat

VARIABLES
  rules,      \* SigNoz's rules, by id
  made,       \* how many have been created
  channel,    \* whether the bridge's notification channel exists
  dashboard,  \* the definition of the dashboard (0: there is none)
  tip,        \* the catalog's definition on main
  job,        \* the state of each job
  doubled     \* history: names a job created unseen, or beside another job

vars == <<rules, made, channel, dashboard, tip, job, doubled>>

NewJob == [pc |-> "idle", kind |-> "none", def |-> 0, seen |-> {}, at |-> 1, id |-> 0, todo |-> {}, ok |-> TRUE,
           alone |-> TRUE,   \* history: no other job was under way beside it
           unseen |-> {}]    \* history: names ahead that it takes for absent though no list said so

Init ==
  /\ rules = [i \in 1..Len(Legacy) |-> Legacy[i]]
  /\ made = Len(Legacy)
  /\ channel = FALSE /\ dashboard = 0 /\ tip = 1
  /\ job = [j \in Jobs |-> NewJob]
  /\ doubled = {}

At(j, pc)   == job[j].pc = pc
Go(j, pc)   == job' = [job EXCEPT ![j].pc = pc]
End(j, pc)  == job' = [job EXCEPT ![j] = [NewJob EXCEPT !.pc = pc, !.kind = job[j].kind, !.def = job[j].def, !.alone = job[j].alone]]
Active(j)   == job[j].pc \notin {"idle", "green", "red"}
Named(name) == {i \in DOMAIN rules : rules[i].name = name}
signoz      == <<rules, made, channel, dashboard>>

-----------------------------------------------------------------------------
(* main moves to another catalog, which a job is yet to check out.          *)
Merge ==
  /\ tip <= MaxMerges /\ \E j \in Jobs : At(j, "idle")
  /\ tip' = tip + 1
  /\ UNCHANGED <<signoz, job, doubled>>

(* The workflow's concurrency group; a pruning apply, an ensure are by hand. *)
Start(j) ==
  /\ At(j, "idle")
  /\ \A k \in Jobs : k < j => ~At(k, "idle")
  /\ \E kind \in Kinds :
       /\ kind \in {"apply", "canary"} => \A k \in Jobs : Active(k) => job[k].kind \notin {"apply", "canary"}
       /\ job' = [k \in Jobs |->
                    IF k = j
                    THEN [NewJob EXCEPT !.pc = "channel", !.kind = kind, !.def = tip, !.alone = \A o \in Jobs : ~Active(o)]
                    ELSE [job[k] EXCEPT !.alone = @ /\ ~Active(k)]]
  /\ UNCHANGED <<signoz, tip, doubled>>

(* _ensure_signoz_channel: a list that fails reads as one without the       *)
(* channel; it is created then, and listed again when the answer has no id. *)
(* The canary only looks.                                                   *)
EnsureChannel(j) ==
  /\ At(j, "channel")
  /\ \/ channel /\ Go(j, "list") /\ UNCHANGED channel
     \/ /\ job[j].kind # "canary"
        /\ channel' = TRUE
        /\ \E pc \in {"list", "red"} : Go(j, pc)
     \/ End(j, "red") /\ UNCHANGED channel
  /\ UNCHANGED <<rules, made, dashboard, tip, doubled>>

(* The rules are listed once, and a body that cannot be read lists none;    *)
(* the canary does not list before it creates.                              *)
List(j) ==
  /\ At(j, "list")
  /\ CASE job[j].kind \in {"apply", "prune"} ->
            \/ End(j, "red")
            \/ job' = [job EXCEPT ![j].pc = "upsert", ![j].seen = {[id |-> i, rule |-> rules[i]] : i \in DOMAIN rules}]
            \/ job' = [job EXCEPT ![j].pc = "upsert", ![j].unseen = InCatalog]
       [] job[j].kind = "ensure" ->
            \/ Named(Catalog[1].name) # {} /\ End(j, "green")
            \/ Go(j, "create")
       [] OTHER -> Go(j, "create")
  /\ UNCHANGED <<signoz, tip, doubled>>

-----------------------------------------------------------------------------
Wanted(j)   == Catalog[job[j].at]
Existing(j) == {s \in job[j].seen : s.rule.name = Wanted(j).name}
Pc(at)      == IF at > Len(Catalog) THEN "prune" ELSE "upsert"

(* The next definition: its rule, if the list had one, goes first.          *)
Upsert(j) ==
  /\ At(j, "upsert")
  /\ \/ Existing(j) = {} /\ Go(j, "create")
     \/ \E s \in Existing(j) : job' = [job EXCEPT ![j].pc = "delete", ![j].id = s.id]
  /\ UNCHANGED <<signoz, tip, doubled>>

\* The status of the DELETE is believed.
DeletedByStatus(after, id) == TRUE

(* _delete_signoz_rule: two DELETEs, and a list that no longer has the id;  *)
(* one that cannot be read has none.                                        *)
Deleted(after, id) == id \notin DOMAIN after

Answers == {"none", "unreadable", "list"}

(* The apply goes on to the next definition.                                *)
Past(j, ok) ==
  job' = [job EXCEPT ![j].ok = ok, ![j].at = @ + 1, ![j].pc = Pc(job[j].at + 1), ![j].unseen = @ \ {Wanted(j).name}]

Delete(j) ==
  /\ At(j, "delete")
  /\ \E gone \in BOOLEAN, answer \in Answers :
       /\ rules' = [i \in DOMAIN rules \ (IF gone THEN {job[j].id} ELSE {}) |-> rules[i]]
       /\ CASE answer = "unreadable" ->
                 job' = [job EXCEPT ![j].pc = "create", ![j].unseen = @ \cup {Wanted(j).name}]
            [] answer = "list" /\ Deleted(rules', job[j].id) -> Go(j, "create")
            [] OTHER -> Past(j, FALSE)
  /\ UNCHANGED <<made, channel, dashboard, tip, doubled>>

(* A threshold on the count of error logs; a PromQL query.                  *)
LogRule(name, def, source)    == [name |-> name, def |-> def, source |-> source, signal |-> "logs"]
MetricRule(name, def, source) == [name |-> name, def |-> def, source |-> source, signal |-> "metrics"]

CatalogRule(entry, def) ==
  IF entry.signal = "logs" THEN LogRule(entry.name, def, "catalog") ELSE MetricRule(entry.name, def, "catalog")

(* What a job posts: by hand it is always a log rule, the canary's is a     *)
(* metric rule.                                                             *)
Payload(j) ==
  CASE job[j].kind = "canary" -> MetricRule(CanaryName, job[j].def, "canary")
    [] job[j].kind = "ensure" -> LogRule(Catalog[1].name, 0, "none")
    [] OTHER                  -> CatalogRule(Wanted(j), job[j].def)

(* The POST: refused, or done, and then its answer may still be lost.  An   *)
(* apply goes on to the next definition all the same.                       *)
Create(j) ==
  /\ At(j, "create")
  /\ \E done \in BOOLEAN, told \in BOOLEAN :
       /\ told => done
       /\ IF done
          THEN /\ made < MaxRules
               /\ made' = made + 1
               /\ rules' = [i \in DOMAIN rules \cup {made + 1} |-> IF i = made + 1 THEN Payload(j) ELSE rules[i]]
               /\ doubled' = IF job[j].kind = "ensure" \/ ~job[j].alone \/ Payload(j).name \in job[j].unseen
                             THEN doubled \cup {Payload(j).name} ELSE doubled
          ELSE UNCHANGED <<made, rules, doubled>>
       /\ CASE job[j].kind = "ensure" -> End(j, IF told THEN "green" ELSE "red")
            [] job[j].kind = "canary" -> IF told THEN job' = [job EXCEPT ![j].pc = "resolve", ![j].id = made'] ELSE End(j, "red")
            [] OTHER -> Past(j, told /\ job[j].ok)
  /\ UNCHANGED <<channel, dashboard, tip>>

-----------------------------------------------------------------------------
(* Rules of ours that the catalog no longer has.                            *)
Prunable(rule) ==
  rule.name \notin InCatalog /\ (rule.source \in {"catalog", "canary"} \/ rule.name = CanaryName)

(* The list of what to prune; without --prune it is only logged.            *)
PlanPrune(j) ==
  /\ At(j, "prune")
  /\ job' = [job EXCEPT ![j].pc = "pruning",
               ![j].todo = IF job[j].kind = "prune" THEN {s.id : s \in {t \in job[j].seen : Prunable(t.rule)}} ELSE {}]
  /\ UNCHANGED <<signoz, tip, doubled>>

Prune(j) ==
  /\ At(j, "pruning")
  /\ \/ /\ job[j].todo = {}
        /\ IF job[j].ok THEN Go(j, "dashboard") ELSE End(j, "red")
        /\ UNCHANGED rules
     \/ \E id \in job[j].todo, gone \in BOOLEAN, answer \in Answers :
          /\ rules' = [i \in DOMAIN rules \ (IF gone THEN {id} ELSE {}) |-> rules[i]]
          /\ job' = [job EXCEPT ![j].todo = @ \ {id},
                        ![j].ok = @ /\ (answer = "unreadable" \/ (answer = "list" /\ Deleted(rules', id)))]
  /\ UNCHANGED <<made, channel, dashboard, tip, doubled>>

(* apply_dashboard: the one of its title is written over, or a new one is   *)
(* made.                                                                    *)
Dashboard(j) ==
  /\ At(j, "dashboard")
  /\ \/ End(j, "red") /\ UNCHANGED dashboard
     \/ /\ dashboard' = job[j].def
        /\ \E pc \in {"green", "red"} : End(j, pc)
  /\ UNCHANGED <<rules, made, channel, tip, doubled>>

(* The canary: its rule must be found, read back in the form it was sent,   *)
(* and be deleted; of a DELETE it believes the status.                      *)
Resolve(j) ==
  /\ At(j, "resolve")
  /\ \/ End(j, "red") /\ UNCHANGED rules
     \/ \E gone \in BOOLEAN, pc \in {"green", "red"} :
          /\ rules' = [i \in DOMAIN rules \ (IF gone THEN {job[j].id} ELSE {}) |-> rules[i]]
          /\ End(j, pc)
  /\ UNCHANGED <<made, channel, dashboard, tip, doubled>>

(* The process is killed where it is.                                       *)
Die(j) ==
  /\ Active(j)
  /\ End(j, "red")
  /\ UNCHANGED <<signoz, tip, doubled>>

Next ==
  \/ Merge
  \/ \E j \in Jobs :
       \/ Start(j) \/ EnsureChannel(j) \/ List(j) \/ Upsert(j) \/ Delete(j) \/ Create(j)
       \/ PlanPrune(j) \/ Prune(j) \/ Dashboard(j) \/ Resolve(j) \/ Die(j)

Spec == Init /\ [][Next]_vars
-----------------------------------------------------------------------------
(* Every variable has its type.                                             *)
TypeOK ==
  /\ made \in 0..MaxRules /\ DOMAIN rules \subseteq 1..made
  /\ \A i \in DOMAIN rules : rules[i] \in [name : InCatalog \cup {CanaryName} \cup {Legacy[n].name : n \in DOMAIN Legacy}, def : Nat,
                                        source : Sources, signal : Signals]
  /\ channel \in BOOLEAN /\ dashboard \in Nat /\ tip \in 1..MaxMerges + 1
  /\ \A j \in Jobs :
       /\ job[j].kind \in JobKinds \cup {"none"} /\ job[j].at \in 1..Len(Catalog) + 1
       /\ job[j].todo \subseteq 1..made

(* An apply of its own that ends green has put its catalog into SigNoz: the *)
(* rule of every alert is the one it applied and the only one of its name,  *)
(* however many applies before it failed or died half way, unless a job     *)
(* made a second one blindly: by hand, beside another job, or after a list  *)
(* that it could not read; and a rule that a person made under another name *)
(* is still there.                                                          *)
GreenApplyMeansCatalog ==
  \A j \in Jobs :
    At(j, "green") /\ job[j].kind \in {"apply", "prune"} /\ job[j].alone /\ (\A k \in Jobs : k > j => At(k, "idle")) =>
      /\ \A name \in InCatalog :
           /\ \E i \in Named(name) : rules[i].def = job[j].def
           /\ name \notin doubled => Cardinality(Named(name)) = 1
      /\ \A i \in DOMAIN Legacy :
           Legacy[i].source = "none" /\ Legacy[i].name \notin InCatalog \cup {CanaryName} => i \in DOMAIN rules
=============================================================================
