------------------------------ MODULE AppPromote ------------------------------
(***************************************************************************)
(* deploy() of libs/deploy/promote.py: an application release is put on a  *)
(* fixed compose (staging or production) by writing the compose's branch   *)
(* and env, deploying, waiting for the rollout and checking the effective  *)
(* config.  A promoter is one call.  The calls of one process take turns   *)
(* under compose_write_lock (libs/compose_lock.py); the calls of two       *)
(* workflow jobs do not.                                                   *)
(*                                                                         *)
(* A call of the Dokploy API is one step.  wait and verify_config are on,  *)
(* which is how deploy_v2 calls it.                                        *)
(***************************************************************************)
EXTENDS Dokploy

CONSTANTS
  Promoters,
  Processes,
  Nobody,      \* the lock is free
  ProcessOf,   \* of a promoter, the process it runs in
  ImageOf,     \* its image_tag
  BranchOf,    \* its branch, the clone_ref of deploy_v2
  StampOf      \* its config_hash, deploy-<image_tag>-<milliseconds>

ASSUME PromoteAssumption ==
  /\ Nobody \notin Promoters
  /\ ProcessOf \in [Promoters -> Processes]
  /\ ImageOf \in [Promoters -> Releases]
  /\ BranchOf \in [Promoters -> Versions]
  /\ StampOf \in [Promoters -> Stamps]
  /\ \A p, q \in Promoters : StampOf[p] = StampOf[q] => p = q

VARIABLES
  at,       \* where each call is
  holder,   \* of a process, who holds the lock of the compose
  depth,    \* and how often it has been acquired, since it is reentrant
  seen,     \* before_ids: the records there were at the snapshot
  merged,   \* the env a call is about to write
  raced     \* history: the calls that had the compose with another process

promote == <<at, holder, depth, seen, merged, raced>>
vars    == <<dokploy, promote>>

(* The fixed compose exists; it may be without credentials.  Its stamp has *)
(* an earlier time in it than those of the calls to come.                  *)
Init ==
  /\ row \in {r \in Rows : /\ r.routed /\ r.source # None /\ r.env.image # None
                           /\ r.env.hash \notin {StampOf[p] : p \in Promoters}}
  /\ queue = 0
  /\ records = <<>>
  /\ running = row
  /\ at = [p \in Promoters |-> "start"]
  /\ holder = [c \in Processes |-> Nobody]
  /\ depth = [c \in Processes |-> 0]
  /\ seen = [p \in Promoters |-> 0]
  /\ merged = [p \in Promoters |-> NoEnv]
  /\ raced = {}

Step(p, from, to) == at[p] = from /\ at' = [at EXCEPT ![p] = to]

-----------------------------------------------------------------------------
(* compose_write_lock: an RLock for each compose, in each process.         *)
Blocked(p) == at[p] \in {"lock", "merge"}

Holds(p) == holder[ProcessOf[p]] = p

LockableOnce(p) == holder[ProcessOf[p]] = Nobody

Lockable(p) == holder[ProcessOf[p]] \in {Nobody, p}

Lock(p) ==
  /\ Lockable(p)
  /\ holder' = [holder EXCEPT ![ProcessOf[p]] = p]
  /\ depth' = [depth EXCEPT ![ProcessOf[p]] = @ + 1]

UnlockHolder(p) ==
  /\ holder' = [holder EXCEPT ![ProcessOf[p]] = Nobody]
  /\ UNCHANGED depth

UnlockAll(p) ==
  /\ holder' = [holder EXCEPT ![ProcessOf[p]] = Nobody]
  /\ depth' = [depth EXCEPT ![ProcessOf[p]] = 0]

Unlock(p) ==
  IF depth[ProcessOf[p]] = 1
  THEN UnlockAll(p)
  ELSE /\ depth' = [depth EXCEPT ![ProcessOf[p]] = @ - 1]
       /\ UNCHANGED holder

-----------------------------------------------------------------------------
(* The gates and assert_approle_creds_present, on the env of the compose.  *)
Preflight(p) ==
  /\ row.env.creds
  /\ Step(p, "start", "lock")
  /\ UNCHANGED <<dokploy, holder, depth, seen, merged, raced>>

(* What the lock is held for, from the snapshot to the last check.         *)
Section == {"snapshot", "branch", "merge", "read", "write", "trigger", "rollout",
            "verify"}

(* A call finds calls of other processes in their sections, or none.       *)
Meet(p) ==
  LET others == {q \in Promoters : at[q] \in Section /\ ProcessOf[q] # ProcessOf[p]}
  IN  raced' = IF others = {} THEN raced ELSE raced \cup others \cup {p}

EnterUnlocked(p) ==
  /\ Step(p, "lock", "snapshot")
  /\ Meet(p)
  /\ UNCHANGED <<dokploy, holder, depth, seen, merged>>

Enter(p) ==
  /\ Step(p, "lock", "snapshot")
  /\ Lock(p)
  /\ Meet(p)
  /\ UNCHANGED <<dokploy, seen, merged>>

Snapshot(p) ==
  /\ Step(p, "snapshot", "branch")
  /\ seen' = [seen EXCEPT ![p] = Len(records)]
  /\ UNCHANGED <<dokploy, holder, depth, merged, raced>>

WriteBranch(p) ==
  /\ Step(p, "branch", "merge")
  /\ row' = [row EXCEPT !.source = BranchOf[p]]
  /\ UNCHANGED <<queue, records, running, holder, depth, seen, merged, raced>>

(* update_compose_env takes the lock again, and merges into the env.       *)
Reenter(p) ==
  /\ Step(p, "merge", "read")
  /\ Lock(p)
  /\ UNCHANGED <<dokploy, seen, merged, raced>>

ReadEnv(p) ==
  /\ Step(p, "read", "write")
  /\ merged' = [merged EXCEPT ![p] =
                  [row.env EXCEPT !.hash = StampOf[p], !.image = ImageOf[p]]]
  /\ UNCHANGED <<dokploy, holder, depth, seen, raced>>

WriteEnv(p) ==
  /\ Step(p, "write", "trigger")
  /\ row' = [row EXCEPT !.env = merged[p]]
  /\ Unlock(p)
  /\ UNCHANGED <<queue, records, running, seen, merged, raced>>

Trigger(p) ==
  /\ Step(p, "trigger", "rollout")
  /\ Enqueue
  /\ UNCHANGED <<row, records, running, holder, depth, seen, merged, raced>>

EveryRecord(p) == DOMAIN records

(* Not in before_ids.  One that started before the trigger may count: it   *)
(* is excluded only when it is older than the tolerance of five seconds.   *)
NewRecords(p) == seen[p] + 1 .. Len(records)

RolledOut(p) ==
  /\ Step(p, "rollout", "verify")
  /\ \E i \in NewRecords(p) : records[i].status = "done"
  /\ UNCHANGED <<dokploy, holder, depth, seen, merged, raced>>

Verify(p) ==
  /\ Step(p, "verify", "ok")
  /\ row.env.hash = StampOf[p]
  /\ UnlockAll(p)
  /\ UNCHANGED <<dokploy, seen, merged, raced>>

(* A gate, an exception, a record in error or a deadline; the lock is left *)
(* with the exception.  Waiting for the lock has no deadline.              *)
Fail(p) ==
  /\ at[p] \notin {"ok", "failed"}
  /\ ~Blocked(p)
  /\ at' = [at EXCEPT ![p] = "failed"]
  /\ IF Holds(p) THEN UnlockAll(p) ELSE UNCHANGED <<holder, depth>>
  /\ UNCHANGED <<dokploy, seen, merged, raced>>

Promote(p) ==
  \/ Preflight(p) \/ Enter(p) \/ Snapshot(p) \/ WriteBranch(p)
  \/ Reenter(p) \/ ReadEnv(p) \/ WriteEnv(p) \/ Trigger(p)
  \/ RolledOut(p) \/ Verify(p) \/ Fail(p)

Next ==
  \/ \E p \in Promoters : Promote(p)
  \/ Worker /\ UNCHANGED promote

Spec == Init /\ [][Next]_vars

(* A call goes on: the API answers or times out, and every wait of its own *)
(* has a deadline.                                                         *)
FairSpec == Spec /\ \A p \in Promoters : WF_vars(Promote(p))

-----------------------------------------------------------------------------
(* The values the state takes.                                             *)
TypeOK ==
  /\ DokployTypeOK
  /\ row # NoRow
  /\ at \in [Promoters -> {"start", "lock", "snapshot", "branch", "merge", "read",
                           "write", "trigger", "rollout", "verify", "ok", "failed"}]
  /\ holder \in [Processes -> Promoters \cup {Nobody}]
  /\ depth \in [Processes -> 0..2]
  /\ seen \in [Promoters -> Nat]
  /\ merged \in [Promoters -> Env]
  /\ raced \subseteq Promoters

(* The compose has the branch, the image and the stamp of one call from    *)
(* its write until it answers, unless a call of another process had the    *)
(* compose with it: nothing it deploys mixes two releases of one process.  *)
PromotedRowIsOwn ==
  \A p \in Promoters \ raced :
    at[p] \in {"trigger", "rollout", "verify"} =>
      /\ row.source = BranchOf[p]
      /\ row.env.hash = StampOf[p]
      /\ row.env.image = ImageOf[p]

(* A call that returns has seen its own release rolled out, from its own   *)
(* branch.                                                                 *)
SeenRolledOut(p) ==
  \E i \in NewRecords(p) :
    /\ records[i].status = "done"
    /\ records[i].ran.source = BranchOf[p]
    /\ records[i].ran.env.image = ImageOf[p]

(* Unless a call has failed, or two processes had the compose at once, a   *)
(* call that returns has seen its own release, and not the rollout of      *)
(* another one of its own or of an earlier process.                        *)
PromotedMeansRolledOut ==
  (\A q \in Promoters : at[q] # "failed") /\ raced = {} =>
    \A p \in Promoters : at[p] = "ok" => SeenRolledOut(p)

(* deploy.yml: "One in-flight deploy per type; never let two deploys race  *)
(* the same compose/slot".  So, whatever job a call is made from, unless a *)
(* call has failed one that returns has seen its own release rolled out.   *)
DeploysDoNotRace ==
  (\A q \in Promoters : at[q] # "failed") =>
    \A p \in Promoters : at[p] = "ok" => SeenRolledOut(p)

(* Nobody waits for the lock for ever, the holder that takes it a second   *)
(* time included.                                                          *)
PromotionsEnd ==
  \A p \in Promoters : at[p] = "lock" ~> at[p] \in {"ok", "failed"}
=============================================================================
