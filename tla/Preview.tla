------------------------------- MODULE Preview -------------------------------
(***************************************************************************)
(* The throw-away stacks of an application: up and down                    *)
(* (libs/deploy/preview.py), the canary that brings a stack up and down    *)
(* again on a slot of its own (tools/deploy_v2_canary.py), and the search  *)
(* for stacks that a teardown left behind (tools/preview_leak_check.py).   *)
(*                                                                         *)
(* A stack is found by the name of its alias, and nothing holds a lock     *)
(* between two calls of Dokploy: runs of several workflows interleave, a   *)
(* pull request closes and opens again in between, and Dokploy deploys     *)
(* when its queue comes to it.                                             *)
(***************************************************************************)
EXTENDS Naturals, Sequences

CONSTANTS
  Runs,        \* runs of deploy_v2 and of the leak check, in the order they start
  Asked,       \* what a run may be asked for: [op, kind, value, image]
  Pulls,       \* pull requests of the application
  CanaryPull,  \* _CANARY_PR: a number no pull request has
  Slugs,       \* the slug of each branch (0: main) and release tag
  Left,        \* aliases of stacks that exist in the beginning
  MaxStacks,   \* bound: stacks ever created
  MaxTurns,    \* bound: how often pull requests are opened or closed
  Polls,       \* bound: polls of the health endpoint before the deadline
  Attempts     \* how often a canary tries to tear its stack down

RefKinds == {"branch", "pr", "commit", "tag"}
NoImage == 0

(* What an instance gives these constants.                                  *)
PreviewAssumption ==
  /\ Runs \subseteq Nat
  /\ Asked \subseteq [op : {"up", "down", "canary", "check", "remediate"}, kind : RefKinds, value : Nat, image : Nat \ {0}]
  /\ Pulls \subseteq Nat /\ CanaryPull \in Nat \ Pulls
  /\ \A a \in Asked : a.op \in {"up", "down", "canary"} /\ a.kind \in {"branch", "tag"} => Slugs[a.value] \in Nat
  /\ Left \in Seq([kind : RefKinds \cup {"bare"}, of : Nat]) /\ Len(Left) <= MaxStacks
  /\ \A i, j \in DOMAIN Left : Left[i] = Left[j] => i = j     \* no alias has two stacks already
  /\ MaxStacks \in Nat /\ MaxTurns \in Nat /\ {Polls, Attempts} \subseteq Nat \ {0}

VARIABLES
  stack,      \* Dokploy's composes of the preview environment, by composeId
  made,       \* how many have been created
  open,       \* the open pull requests
  turns,
  proc,       \* the state of each run
  contested,  \* history: aliases that two runs worked on at the same time
  wasClosed   \* history: stacks whose pull request was closed while they existed

vars == <<stack, made, open, turns, proc, contested, wasClosed>>

(* preview_alias: the slug of a branch or a tag turns dots and slashes into *)
(* dashes, so two branches can share an alias.                              *)
Alias(kind, value) ==
  [kind |-> kind, of |-> IF kind \in {"branch", "tag"} THEN Slugs[value] ELSE value]

(* A run of the leak check has read some pull requests to be open; missed   *)
(* are those its answer left out although they were (history).              *)

(* A compose: what its env says to run (image), whether a deployment waits  *)
(* in the queue, composeStatus, and what runs (NoImage: nothing yet).       *)
NewStack(alias) == [alias |-> alias, image |-> NoImage, queued |-> FALSE, status |-> "idle", runs |-> NoImage]

IdleRun == [pc |-> "idle", op |-> "none", alias |-> <<>>, image |-> NoImage, id |-> 0,
            tries |-> 0, found |-> {}, read |-> {}, missed |-> {}, healthy |-> FALSE, down |-> FALSE]

Init ==
  /\ stack = [i \in 1..Len(Left) |-> [NewStack(Left[i]) EXCEPT !.image = 1, !.status = "done", !.runs = 1]]
  /\ made = Len(Left)
  /\ open = {}
  /\ turns = 0
  /\ proc = [r \in Runs |-> IdleRun]
  /\ contested = {}
  /\ wasClosed = {i \in DOMAIN stack : stack[i].alias.kind = "pr"}

world == <<open, turns>>
history == <<contested, wasClosed>>

At(r, pc)    == proc[r].pc = pc
Ends         == {"green", "red"}
Active(r)    == proc[r].pc \notin Ends \cup {"idle"}
Without(ids) == [i \in DOMAIN stack \ ids |-> stack[i]]

(* run_canary: whether its deployment ended well or badly, the canary goes  *)
(* on to tear its stack down, and tries that again (_best_effort_down);     *)
(* only then is its verdict given.                                          *)
TearDown(p, healthy) == [p EXCEPT !.op = "teardown", !.pc = "find", !.tries = 0, !.healthy = healthy]

TornDown(p, pc) ==
  CASE pc = "green" -> [p EXCEPT !.pc = IF p.healthy THEN "green" ELSE "red", !.down = TRUE]
    [] pc = "red"   -> IF p.tries + 1 < Attempts THEN [p EXCEPT !.pc = "find", !.tries = @ + 1]
                       ELSE [p EXCEPT !.pc = "red"]

GoTo(p, pc) ==
  CASE pc \in Ends /\ p.op = "canary"   -> TearDown(p, pc = "green")
    [] pc \in Ends /\ p.op = "teardown" -> TornDown(p, pc)
    [] OTHER -> [p EXCEPT !.pc = pc]

Step(r, pc) == proc' = [proc EXCEPT ![r] = GoTo(@, pc)]
Red(r)      == Step(r, "red") /\ UNCHANGED <<stack, made>>

-----------------------------------------------------------------------------
(* A run starts; a stack that two runs work on is contested.  The           *)
(* concurrency group of the workflows runs one canary at a time.            *)
Start(r) ==
  /\ At(r, "idle")
  /\ \A q \in Runs : q < r => ~At(q, "idle")
  /\ \E a \in Asked :
       LET alias == IF a.op \in {"up", "down", "canary"} THEN Alias(a.kind, a.value) ELSE <<>>
       IN  /\ a.op = "canary" => \A q \in Runs : ~(Active(q) /\ proc[q].op \in {"canary", "teardown"})
           /\ proc' = [proc EXCEPT ![r] = [IdleRun EXCEPT !.pc = IF alias = <<>> THEN "list" ELSE "find",
                                            !.op = a.op, !.alias = alias, !.image = a.image]]
           /\ contested' = contested \cup {b \in {alias} \ {<<>>} : \E q \in Runs : Active(q) /\ proc[q].alias = b}
  /\ UNCHANGED <<stack, made, world, wasClosed>>

(* find_compose_by_name: some compose of that name, the first one listed.   *)
Named(alias) == {i \in DOMAIN stack : stack[i].alias = alias}

\* Composes that were never deployed are no previews yet.
NamedAndDeployed(alias) == {i \in DOMAIN stack : stack[i].alias = alias /\ stack[i].status # "idle"}

Found(alias) == Named(alias)

Deploys(r) == proc[r].op \in {"up", "canary"}

(* up: the credentials of the source environment and the git provider must  *)
(* be there, then the alias's compose is looked up.                         *)
Find(r) ==
  /\ At(r, "find")
  /\ LET ids == Found(proc[r].alias)
     IN  \/ Red(r)
         \/ /\ ids = {}
            /\ Step(r, IF Deploys(r) THEN "create" ELSE "green")
            /\ UNCHANGED <<stack, made>>
         \/ /\ \E i \in ids :
                 proc' = [proc EXCEPT ![r].pc = IF Deploys(r) THEN "configure" ELSE "delete", ![r].id = i]
            /\ UNCHANGED <<stack, made>>
  /\ UNCHANGED <<world, history>>

(* The environment is ensured and the compose created; the answer may be    *)
(* lost.                                                                    *)
Create(r) ==
  /\ At(r, "create")
  /\ \/ Red(r) /\ UNCHANGED wasClosed
     \/ /\ made < MaxStacks
        /\ made' = made + 1
        /\ stack' = [i \in DOMAIN stack \cup {made + 1} |->
                       IF i = made + 1 THEN NewStack(proc[r].alias) ELSE stack[i]]
        /\ wasClosed' = wasClosed \cup
             IF proc[r].alias.kind = "pr" /\ proc[r].alias.of \notin open THEN {made + 1} ELSE {}
        /\ \E pc \in {"configure", "red"} :
             proc' = [proc EXCEPT ![r] = GoTo([@ EXCEPT !.id = made + 1], pc)]
  /\ UNCHANGED <<world, contested>>

(* Source and env are written, on both paths; Dokploy refuses a compose     *)
(* that is gone.                                                            *)
Configure(r) ==
  /\ At(r, "configure")
  /\ \/ Red(r)
     \/ /\ proc[r].id \in DOMAIN stack
        /\ stack' = [stack EXCEPT ![proc[r].id].image = proc[r].image]
        /\ \E pc \in {"deploy", "red"} : Step(r, pc)
        /\ UNCHANGED made
  /\ UNCHANGED <<world, history>>

Deploy(r) ==
  /\ At(r, "deploy")
  /\ \/ Red(r)
     \/ /\ proc[r].id \in DOMAIN stack
        /\ stack' = [stack EXCEPT ![proc[r].id].queued = TRUE]
        /\ \E pc \in {"wait", "red"} : Step(r, pc)
        /\ UNCHANGED made
  /\ UNCHANGED <<world, history>>

(* Every compose of the alias has the same host rule: any that runs may     *)
(* answer for it.                                                           *)
Answers(alias) == \E i \in Named(alias) : stack[i].runs # NoImage

(* _wait_for_health, one turn: composeStatus "error" ends it (whichever     *)
(* deployment has left it there), 200 is success, then the deadline.  A     *)
(* status that cannot be read, for whatever reason, is no error.            *)
Wait(r) ==
  LET i == proc[r].id
  IN  /\ At(r, "wait")
      /\ \/ i \in DOMAIN stack /\ stack[i].status = "error" /\ Step(r, "red")
         \/ \E readable \in BOOLEAN :
              /\ readable => i \in DOMAIN stack /\ stack[i].status # "error"
              /\ \/ Answers(proc[r].alias) /\ Step(r, "green")
                 \/ IF proc[r].tries + 1 < Polls THEN proc' = [proc EXCEPT ![r].tries = @ + 1]
                    ELSE Step(r, "red")
      /\ UNCHANGED <<stack, made, world, history>>

(* down: the compose that was found is deleted with its volumes.            *)
Delete(r) ==
  /\ At(r, "delete")
  /\ \/ Red(r)
     \/ /\ proc[r].id \in DOMAIN stack
        /\ stack' = Without({proc[r].id})
        /\ \E pc \in {"green", "red"} : Step(r, pc)
        /\ UNCHANGED made
  /\ UNCHANGED <<world, history>>

-----------------------------------------------------------------------------
(* detect: the composes are listed first, the open pull requests fetched    *)
(* then.                                                                    *)
List(r) ==
  /\ At(r, "list")
  /\ \/ Red(r)
     \/ /\ proc' = [proc EXCEPT ![r].pc = "fetch", 
                                ![r].found = {[id |-> i, alias |-> stack[i].alias] : i \in DOMAIN stack}]
        /\ UNCHANGED <<stack, made>>
  /\ UNCHANGED <<world, history>>

\* An answer that does not come means that nothing is open.
OrphanUnlessKnown(alias, known, fetched) ==
  IF alias \in {Alias("branch", 0), Alias("pr", CanaryPull)} THEN FALSE
  ELSE alias.kind \notin RefKinds \/ (alias.kind = "pr" /\ ~(known /\ alias.of \in fetched))

(* orphan_reason: main's preview and the canary's slot are kept; an alias   *)
(* of the old form has no kind; a pull request must be known to be closed.  *)
Orphan(alias, known, fetched) ==
  IF alias \in {Alias("branch", 0), Alias("pr", CanaryPull)} THEN FALSE
  ELSE alias.kind \notin RefKinds \/ (alias.kind = "pr" /\ known /\ alias.of \notin fetched)

(* fetch_open_pr_numbers: a full page is followed by the next one, while    *)
(* pull requests open and close.                                            *)
Page(r) ==
  /\ At(r, "fetch")
  /\ \E page \in SUBSET open \ {{}} : proc' = [proc EXCEPT ![r].read = @ \cup page]
  /\ UNCHANGED <<stack, made, world, history>>

(* The last answer: none at all (no token, or any failure) is unknown.  An  *)
(* answer that is a list may be whole; one that is no list, the limit of    *)
(* ten pages, and a page that moved up while it was read all end it early,  *)
(* and what was read then passes for what is open.                          *)
Fetch(r) ==
  /\ At(r, "fetch")
  /\ \E known \in BOOLEAN, last \in SUBSET open :
       LET read  == proc[r].read \cup last
           leaks == {f \in proc[r].found : Orphan(f.alias, known, read)}
       IN  proc' = [proc EXCEPT ![r].found = leaks, ![r].read = {},
                                ![r].missed = IF known THEN open \ read ELSE {},
                                ![r].pc = IF leaks = {} THEN "green"
                                          ELSE IF proc[r].op = "check" THEN "red" ELSE "reap"]
  /\ UNCHANGED <<stack, made, world, history>>

(* remediate: one delete after the other; the first that fails ends it.     *)
Reap(r) ==
  /\ At(r, "reap")
  /\ \/ Red(r)
     \/ /\ \E f \in proc[r].found :
             /\ f.id \in DOMAIN stack
             /\ stack' = Without({f.id})
             /\ proc' = [proc EXCEPT ![r].found = @ \ {f}, 
                                  ![r].pc = IF proc[r].found = {f} THEN "green" ELSE "reap"]
        /\ UNCHANGED made
  /\ UNCHANGED <<world, history>>

Work(r) ==
  \/ Find(r) \/ Create(r) \/ Configure(r) \/ Deploy(r) \/ Wait(r) \/ Delete(r)
  \/ List(r) \/ Page(r) \/ Fetch(r) \/ Reap(r)

-----------------------------------------------------------------------------
(* Dokploy takes a deployment from its queue, and ends it.                  *)
TakeUp ==
  /\ \E i \in DOMAIN stack :
       /\ stack[i].queued
       /\ stack' = [stack EXCEPT ![i].queued = FALSE, ![i].status = "running"]
  /\ UNCHANGED <<made, world, proc, history>>

Finish ==
  /\ \E i \in DOMAIN stack :
       /\ stack[i].status = "running"
       /\ \/ stack' = [stack EXCEPT ![i].status = "done", ![i].runs = stack[i].image]
          \/ stack' = [stack EXCEPT ![i].status = "error"]
  /\ UNCHANGED <<made, world, proc, history>>

(* A pull request is opened, closed, or opened again.                       *)
Turn ==
  /\ turns < MaxTurns
  /\ turns' = turns + 1
  /\ \E n \in Pulls :
       /\ open' = IF n \in open THEN open \ {n} ELSE open \cup {n}
       /\ wasClosed' = wasClosed \cup
            IF n \in open THEN {i \in DOMAIN stack : stack[i].alias = Alias("pr", n)} ELSE {}
  /\ UNCHANGED <<stack, made, proc, contested>>

Rest ==
  /\ \A r \in Runs : ~Active(r) /\ ~At(r, "idle")
  /\ UNCHANGED vars

Next ==
  \/ \E r \in Runs : Start(r) \/ Work(r)
  \/ TakeUp \/ Finish \/ Turn \/ Rest

Spec == Init /\ [][Next]_vars
-----------------------------------------------------------------------------
(* Every variable has its type.                                             *)
Aliases == [kind : RefKinds \cup {"bare"}, of : Nat]

TypeOK ==
  /\ made \in 0..MaxStacks /\ DOMAIN stack \subseteq 1..made
  /\ \A i \in DOMAIN stack :
       stack[i] \in [alias : Aliases, image : Nat, queued : BOOLEAN,
                     status : {"idle", "running", "done", "error"}, runs : Nat]
  /\ open \subseteq Pulls /\ turns \in 0..MaxTurns
  /\ \A r \in Runs :
       /\ proc[r].tries \in 0..(IF proc[r].op = "teardown" THEN Attempts ELSE Polls) - 1
       /\ proc[r].healthy \in BOOLEAN /\ proc[r].down \in BOOLEAN
       /\ \A f \in proc[r].found : f.id \in 1..made
       /\ proc[r].read \subseteq Pulls /\ proc[r].missed \subseteq Pulls
  /\ contested \subseteq Aliases /\ wasClosed \subseteq 1..made

(* Ups and downs of an alias that follow each other never leave it with two *)
(* stacks, although a create may succeed without its answer: the next up    *)
(* finds what is there by its name.                                         *)
OneStackPerAlias ==
  \A i, j \in DOMAIN stack :
    i # j /\ stack[i].alias = stack[j].alias => stack[i].alias \in contested

(* Whatever failed on its way up, a canary that could tear down has left    *)
(* nothing of its own (the leak check does not look at its slot), unless    *)
(* somebody else worked on the slot; and a green one has torn down.         *)
CanaryLeavesNothing ==
  \A r \in Runs : proc[r].op = "teardown" /\ proc[r].pc \in Ends =>
    /\ proc[r].down \/ proc[r].pc = "red"
    /\ proc[r].down => proc[r].id \notin DOMAIN stack \/ proc[r].alias \in contested

(* A stack that the leak check flags, and that is still there, is of the    *)
(* old form, or its pull request was closed at a time when it existed, or   *)
(* GitHub's answer left the pull request out: a stack of a pull request     *)
(* that has been open ever since, and was in the answer or had none, is not *)
(* taken for a leak, however pull requests turn between the listing of the  *)
(* composes and the pages.                                                  *)
FlaggedOnlyWhenClosed ==
  \A r \in Runs :
    proc[r].op \in {"check", "remediate"} /\ proc[r].pc \in {"reap", "red"} =>
      \A f \in proc[r].found : f.id \in DOMAIN stack =>
        \/ f.alias.kind \notin RefKinds
        \/ f.id \in wasClosed
        \/ f.alias.kind = "pr" /\ f.alias.of \in proc[r].missed
=============================================================================
