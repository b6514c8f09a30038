-------------------------- MODULE AppPromoteProofs --------------------------
(***************************************************************************)
(* What the lock of libs/compose_lock.py gives the promotions of a         *)
(* process, for every set of calls, processes, releases and branches, as   *)
(* long as no other process has the compose at the same time.              *)
(***************************************************************************)
EXTENDS AppPromote, DokployProofs

(* A call is in its critical section exactly while it holds the lock, and  *)
(* has acquired it twice exactly inside update_compose_env.                *)
LockHeld ==
  /\ \A p \in Promoters : at[p] \in Section <=> holder[ProcessOf[p]] = p
  /\ \A p \in Promoters : at[p] \in Section =>
       depth[ProcessOf[p]] = IF at[p] \in {"read", "write"} THEN 2 ELSE 1
  /\ \A c \in Processes : holder[c] = Nobody => depth[c] = 0

(* Two processes that have the compose at once are known to have it.       *)
RacesKnown ==
  \A p, q \in Promoters :
    at[p] \in Section /\ at[q] \in Section /\ ProcessOf[p] # ProcessOf[q] => p \in raced

(* What a call has written stays until it answers.                         *)
BranchWritten ==
  \A p \in Promoters \ raced :
    at[p] \in {"merge", "read", "write", "trigger", "rollout", "verify"} =>
      row.source = BranchOf[p]

MergedIsOwn ==
  \A p \in Promoters :
    at[p] = "write" => merged[p].hash = StampOf[p] /\ merged[p].image = ImageOf[p]

(* As long as no call has failed or met one of another process, a          *)
(* deployment that is queued or has started since a call's snapshot is the *)
(* one that the call triggered.                                            *)
Calm == (\A q \in Promoters : at[q] # "failed") /\ raced = {}

Own(p, i) == records[i].ran.source = BranchOf[p] /\ records[i].ran.env.image = ImageOf[p]

QueueIsOwn ==
  Calm =>
    /\ (\A p \in Promoters : at[p] # "rollout") => queue = 0
    /\ \A p \in Promoters :
         at[p] \in {"branch", "merge", "read", "write", "trigger"} => Len(records) = seen[p]
    /\ \A p \in Promoters :
         at[p] = "rollout" => /\ seen[p] <= Len(records)
                              /\ Len(records) + queue <= seen[p] + 1
                              /\ \A i \in NewRecords(p) : Own(p, i)

RolloutSeen ==
  Calm => \A p \in Promoters :
            at[p] \in {"verify", "ok"} =>
              \E i \in NewRecords(p) : records[i].status = "done" /\ Own(p, i)

-----------------------------------------------------------------------------
(* The rows that the calls write are rows.                                 *)
LEMMA WriteFacts ==
  ASSUME TypeOK, NEW p \in Promoters
  PROVE  /\ row \in Rows
         /\ WriteBranch(p) => /\ row' \in Rows /\ row'.env = row.env
                              /\ row'.source = BranchOf[p]
         /\ ReadEnv(p) => /\ merged'[p] \in Env
                          /\ merged'[p].hash = StampOf[p]
                          /\ merged'[p].image = ImageOf[p]
         /\ WriteEnv(p) => /\ row' \in Rows /\ row'.env = merged[p]
                           /\ row'.source = row.source
         /\ NoRow \notin Rows
<1>1. row \in Rows /\ merged \in [Promoters -> Env]
  BY DEF TypeOK, DokployTypeOK
<1>2. /\ BranchOf[p] \in Versions /\ StampOf[p] \in Stamps /\ ImageOf[p] \in Releases
      /\ NoRow \notin Rows
  BY PromoteAssumption, DokployAssumption
<1>3. ASSUME WriteBranch(p)
      PROVE  row' \in Rows /\ row'.env = row.env /\ row'.source = BranchOf[p]
  BY <1>1, <1>2, <1>3 DEF WriteBranch, Rows
<1>4. ASSUME ReadEnv(p)
      PROVE  /\ merged'[p] \in Env
             /\ merged'[p].hash = StampOf[p]
             /\ merged'[p].image = ImageOf[p]
  <2>1. row.env \in Env
    BY <1>1 DEF Rows
  <2>2. merged'[p] = [row.env EXCEPT !.hash = StampOf[p], !.image = ImageOf[p]]
    BY <1>1, <1>4 DEF ReadEnv
  <2> QED
    BY <1>2, <2>1, <2>2 DEF Env
<1>5. ASSUME WriteEnv(p)
      PROVE  row' \in Rows /\ row'.env = merged[p] /\ row'.source = row.source
  BY <1>1, <1>5 DEF WriteEnv, Rows
<1> QED
  BY <1>1, <1>2, <1>3, <1>4, <1>5

(* A call that met no other process is the only one in its section.        *)
LEMMA Alone ==
  ASSUME LockHeld, RacesKnown, NEW p \in Promoters, NEW q \in Promoters,
         at[p] \in Section, at[q] \in Section, p \notin raced
  PROVE  p = q
  BY DEF RacesKnown, LockHeld

(* Every step keeps the types, whatever processes there are.               *)
LEMMA TypeStep == TypeOK /\ LockHeld /\ [Next]_vars => TypeOK'
<1> SUFFICES ASSUME TypeOK, LockHeld, [Next]_vars PROVE TypeOK'
  OBVIOUS
<1> USE PromoteAssumption DEF TypeOK, DokployTypeOK, LockHeld, Section, vars, dokploy, promote
<1>1. ASSUME NEW p \in Promoters, Preflight(p) PROVE TypeOK'
  BY <1>1 DEF Preflight, Step
<1>2. ASSUME NEW p \in Promoters, Enter(p) PROVE TypeOK'
  BY <1>2 DEF Enter, Meet, Step, Lock, Lockable
<1>3. ASSUME NEW p \in Promoters, Snapshot(p) PROVE TypeOK'
  BY <1>3 DEF Snapshot, Step
<1>4. ASSUME NEW p \in Promoters, WriteBranch(p) PROVE TypeOK'
  BY <1>4, WriteFacts DEF WriteBranch, Step
<1>5. ASSUME NEW p \in Promoters, Reenter(p) PROVE TypeOK'
  <2>1. at[p] = "merge" /\ depth[ProcessOf[p]] = 1
    BY <1>5 DEF Reenter, Step
  <2>2. depth' = [depth EXCEPT ![ProcessOf[p]] = 2]
    BY <1>5, <2>1 DEF Reenter, Lock
  <2>3. holder' = [holder EXCEPT ![ProcessOf[p]] = p]
    BY <1>5 DEF Reenter, Lock
  <2>4. at' = [at EXCEPT ![p] = "read"] /\ UNCHANGED <<dokploy, seen, merged, raced>>
    BY <1>5 DEF Reenter, Step
  <2> QED
    BY <2>2, <2>3, <2>4
<1>6. ASSUME NEW p \in Promoters, ReadEnv(p) PROVE TypeOK'
  BY <1>6, WriteFacts DEF ReadEnv, Step
<1>7. ASSUME NEW p \in Promoters, WriteEnv(p) PROVE TypeOK'
  <2>1. at[p] = "write" /\ depth[ProcessOf[p]] = 2
    BY <1>7 DEF WriteEnv, Step
  <2>2. depth' = [depth EXCEPT ![ProcessOf[p]] = 1] /\ UNCHANGED holder
    BY <1>7, <2>1 DEF WriteEnv, Unlock
  <2>3. row' \in Rows /\ row' # NoRow
    BY <1>7, WriteFacts
  <2>4. at' = [at EXCEPT ![p] = "trigger"] /\ UNCHANGED <<queue, records, running, seen, merged, raced>>
    BY <1>7 DEF WriteEnv, Step
  <2> QED
    BY <2>2, <2>3, <2>4
<1>8. ASSUME NEW p \in Promoters, Trigger(p) PROVE TypeOK'
  BY <1>8 DEF Trigger, Step, Enqueue
<1>9. ASSUME NEW p \in Promoters, RolledOut(p) PROVE TypeOK'
  BY <1>9 DEF RolledOut, Step
<1>10. ASSUME NEW p \in Promoters, Verify(p) PROVE TypeOK'
  BY <1>10 DEF Verify, Step, UnlockAll
<1>11. ASSUME NEW p \in Promoters, Fail(p) PROVE TypeOK'
  <2>1. /\ holder' \in [Processes -> Promoters \cup {Nobody}]
        /\ depth' \in [Processes -> 0..2]
    <3>1. CASE Holds(p)
      <4>1. holder' = [holder EXCEPT ![ProcessOf[p]] = Nobody] /\ depth' = [depth EXCEPT ![ProcessOf[p]] = 0]
        BY <1>11, <3>1 DEF Fail, UnlockAll
      <4> QED
        BY <4>1
    <3>2. CASE ~Holds(p)
      BY <1>11, <3>2 DEF Fail
    <3> QED
      BY <3>1, <3>2
  <2>2. at' = [at EXCEPT ![p] = "failed"] /\ UNCHANGED <<dokploy, seen, merged, raced>>
    BY <1>11 DEF Fail
  <2>3. at' \in [Promoters -> {"start", "lock", "snapshot", "branch", "merge", "read",
                                "write", "trigger", "rollout", "verify", "ok", "failed"}]
    BY <2>2
  <2>4. DokployTypeOK' /\ row' # NoRow /\ seen' \in [Promoters -> Nat] /\ merged' \in [Promoters -> Env]
    BY <2>2
  <2> QED
    BY <2>1, <2>2, <2>3, <2>4
<1>12. ASSUME Begin, UNCHANGED promote PROVE TypeOK'
  BY <1>12, BeginFacts DEF Begin
<1>13. ASSUME Complete, UNCHANGED promote PROVE TypeOK'
  BY <1>13, CompleteFacts DEF Complete
<1>14. ASSUME Vanish, UNCHANGED promote PROVE TypeOK'
  BY <1>14 DEF Vanish
<1>15. ASSUME UNCHANGED vars PROVE TypeOK'
  BY <1>15
<1> QED
  BY <1>1, <1>2, <1>3, <1>4, <1>5, <1>6, <1>7, <1>8, <1>9, <1>10, <1>11, <1>12, <1>13, <1>14, <1>15 DEF Next, Promote, Worker

(* A call enters its section with the lock and leaves it without.          *)
LEMMA LockStep == TypeOK /\ LockHeld /\ [Next]_vars => LockHeld'
<1> SUFFICES ASSUME TypeOK, LockHeld, [Next]_vars PROVE LockHeld'
  OBVIOUS
<1> USE PromoteAssumption DEF TypeOK, LockHeld, Section, vars, dokploy, promote
<1>1. ASSUME NEW p \in Promoters, Preflight(p) PROVE LockHeld'
  BY <1>1 DEF Preflight, Step
<1>2. ASSUME NEW p \in Promoters, Enter(p) PROVE LockHeld'
  BY <1>2 DEF Enter, Meet, Step, Lock, Lockable
<1>3. ASSUME NEW p \in Promoters, Snapshot(p) PROVE LockHeld'
  BY <1>3 DEF Snapshot, Step
<1>4. ASSUME NEW p \in Promoters, WriteBranch(p) PROVE LockHeld'
  BY <1>4 DEF WriteBranch, Step
<1>5. ASSUME NEW p \in Promoters, Reenter(p) PROVE LockHeld'
  BY <1>5 DEF Reenter, Step, Lock, Lockable
<1>6. ASSUME NEW p \in Promoters, ReadEnv(p) PROVE LockHeld'
  BY <1>6 DEF ReadEnv, Step
<1>7. ASSUME NEW p \in Promoters, WriteEnv(p) PROVE LockHeld'
  BY <1>7 DEF WriteEnv, Step, Unlock, UnlockAll
<1>8. ASSUME NEW p \in Promoters, Trigger(p) PROVE LockHeld'
  BY <1>8 DEF Trigger, Step, Enqueue
<1>9. ASSUME NEW p \in Promoters, RolledOut(p) PROVE LockHeld'
  BY <1>9 DEF RolledOut, Step
<1>10. ASSUME NEW p \in Promoters, Verify(p) PROVE LockHeld'
  BY <1>10 DEF Verify, Step, UnlockAll
<1>11. ASSUME NEW p \in Promoters, Fail(p) PROVE LockHeld'
  BY <1>11 DEF Fail, Blocked, Holds, UnlockAll
<1>12. ASSUME Begin, UNCHANGED promote PROVE LockHeld'
  BY <1>12 DEF Begin
<1>13. ASSUME Complete, UNCHANGED promote PROVE LockHeld'
  BY <1>13 DEF Complete
<1>14. ASSUME Vanish, UNCHANGED promote PROVE LockHeld'
  BY <1>14 DEF Vanish
<1>15. ASSUME UNCHANGED vars PROVE LockHeld'
  BY <1>15
<1> QED
  BY <1>1, <1>2, <1>3, <1>4, <1>5, <1>6, <1>7, <1>8, <1>9, <1>10, <1>11, <1>12, <1>13, <1>14, <1>15 DEF Next, Promote, Worker

(* Whoever enters beside another process is seen to.                       *)
LEMMA RacesStep == TypeOK /\ LockHeld /\ RacesKnown /\ [Next]_vars => RacesKnown'
<1> SUFFICES ASSUME TypeOK, LockHeld, RacesKnown, [Next]_vars PROVE RacesKnown'
  OBVIOUS
<1> USE PromoteAssumption DEF TypeOK, RacesKnown, Section, vars, dokploy, promote
<1>1. ASSUME NEW p \in Promoters, Preflight(p) PROVE RacesKnown'
  BY <1>1 DEF Preflight, Step
<1>2. ASSUME NEW p \in Promoters, Enter(p) PROVE RacesKnown'
  BY <1>2 DEF Enter, Meet, Step, Lock, Lockable
<1>3. ASSUME NEW p \in Promoters, Snapshot(p) PROVE RacesKnown'
  BY <1>3 DEF Snapshot, Step
<1>4. ASSUME NEW p \in Promoters, WriteBranch(p) PROVE RacesKnown'
  BY <1>4 DEF WriteBranch, Step
<1>5. ASSUME NEW p \in Promoters, Reenter(p) PROVE RacesKnown'
  BY <1>5 DEF Reenter, Step, Lock, Lockable
<1>6. ASSUME NEW p \in Promoters, ReadEnv(p) PROVE RacesKnown'
  BY <1>6 DEF ReadEnv, Step
<1>7. ASSUME NEW p \in Promoters, WriteEnv(p) PROVE RacesKnown'
  BY <1>7 DEF WriteEnv, Step, Unlock, UnlockAll
<1>8. ASSUME NEW p \in Promoters, Trigger(p) PROVE RacesKnown'
  BY <1>8 DEF Trigger, Step, Enqueue
<1>9. ASSUME NEW p \in Promoters, RolledOut(p) PROVE RacesKnown'
  BY <1>9 DEF RolledOut, Step
<1>10. ASSUME NEW p \in Promoters, Verify(p) PROVE RacesKnown'
  BY <1>10 DEF Verify, Step, UnlockAll
<1>11. ASSUME NEW p \in Promoters, Fail(p) PROVE RacesKnown'
  BY <1>11 DEF Fail, Blocked, Holds, UnlockAll
<1>12. ASSUME Begin, UNCHANGED promote PROVE RacesKnown'
  BY <1>12 DEF Begin
<1>13. ASSUME Complete, UNCHANGED promote PROVE RacesKnown'
  BY <1>13 DEF Complete
<1>14. ASSUME Vanish, UNCHANGED promote PROVE RacesKnown'
  BY <1>14 DEF Vanish
<1>15. ASSUME UNCHANGED vars PROVE RacesKnown'
  BY <1>15
<1> QED
  BY <1>1, <1>2, <1>3, <1>4, <1>5, <1>6, <1>7, <1>8, <1>9, <1>10, <1>11, <1>12, <1>13, <1>14, <1>15 DEF Next, Promote, Worker

(* Nobody else writes the branch of the section of a call that is alone.   *)
LEMMA BranchStep == TypeOK /\ LockHeld /\ RacesKnown /\ BranchWritten /\ [Next]_vars => BranchWritten'
<1> SUFFICES ASSUME TypeOK, LockHeld, RacesKnown, BranchWritten, [Next]_vars PROVE BranchWritten'
  OBVIOUS
<1> USE PromoteAssumption DEF TypeOK, BranchWritten, Section, vars, dokploy, promote
<1>1. ASSUME NEW p \in Promoters, Preflight(p) PROVE BranchWritten'
  BY <1>1 DEF Preflight, Step
<1>2. ASSUME NEW p \in Promoters, Enter(p) PROVE BranchWritten'
  BY <1>2 DEF Enter, Meet, Step, Lock, Lockable
<1>3. ASSUME NEW p \in Promoters, Snapshot(p) PROVE BranchWritten'
  BY <1>3 DEF Snapshot, Step
<1>4. ASSUME NEW p \in Promoters, WriteBranch(p) PROVE BranchWritten'
  <2>1. at[p] = "branch" /\ at' = [at EXCEPT ![p] = "merge"] /\ UNCHANGED raced
    BY <1>4 DEF WriteBranch, Step
  <2>2. \A q \in Promoters \ raced : at[q] \in Section => q = p
    BY <2>1, Alone
  <2>3. row'.source = BranchOf[p]
    BY <1>4, WriteFacts
  <2> QED
    BY <2>1, <2>2, <2>3
<1>5. ASSUME NEW p \in Promoters, Reenter(p) PROVE BranchWritten'
  BY <1>5 DEF Reenter, Step, Lock, Lockable
<1>6. ASSUME NEW p \in Promoters, ReadEnv(p) PROVE BranchWritten'
  BY <1>6 DEF ReadEnv, Step
<1>7. ASSUME NEW p \in Promoters, WriteEnv(p) PROVE BranchWritten'
  <2>1. at' = [at EXCEPT ![p] = "trigger"] /\ at[p] = "write" /\ UNCHANGED raced
    BY <1>7 DEF WriteEnv, Step
  <2>2. row'.source = row.source
    BY <1>7, WriteFacts
  <2> QED
    BY <2>1, <2>2
<1>8. ASSUME NEW p \in Promoters, Trigger(p) PROVE BranchWritten'
  BY <1>8 DEF Trigger, Step, Enqueue
<1>9. ASSUME NEW p \in Promoters, RolledOut(p) PROVE BranchWritten'
  BY <1>9 DEF RolledOut, Step
<1>10. ASSUME NEW p \in Promoters, Verify(p) PROVE BranchWritten'
  BY <1>10 DEF Verify, Step, UnlockAll
<1>11. ASSUME NEW p \in Promoters, Fail(p) PROVE BranchWritten'
  BY <1>11 DEF Fail, Blocked, Holds, UnlockAll
<1>12. ASSUME Begin, UNCHANGED promote PROVE BranchWritten'
  BY <1>12 DEF Begin
<1>13. ASSUME Complete, UNCHANGED promote PROVE BranchWritten'
  BY <1>13 DEF Complete
<1>14. ASSUME Vanish, UNCHANGED promote PROVE BranchWritten'
  BY <1>14 DEF Vanish
<1>15. ASSUME UNCHANGED vars PROVE BranchWritten'
  BY <1>15
<1> QED
  BY <1>1, <1>2, <1>3, <1>4, <1>5, <1>6, <1>7, <1>8, <1>9, <1>10, <1>11, <1>12, <1>13, <1>14, <1>15 DEF Next, Promote, Worker

(* A call writes what it merged.                                           *)
LEMMA MergedStep == TypeOK /\ MergedIsOwn /\ [Next]_vars => MergedIsOwn'
<1> SUFFICES ASSUME TypeOK, MergedIsOwn, [Next]_vars PROVE MergedIsOwn'
  OBVIOUS
<1> USE PromoteAssumption DEF TypeOK, MergedIsOwn, vars, dokploy, promote
<1>1. ASSUME NEW p \in Promoters, Preflight(p) PROVE MergedIsOwn'
  BY <1>1 DEF Preflight, Step
<1>2. ASSUME NEW p \in Promoters, Enter(p) PROVE MergedIsOwn'
  BY <1>2 DEF Enter, Meet, Step, Lock, Lockable
<1>3. ASSUME NEW p \in Promoters, Snapshot(p) PROVE MergedIsOwn'
  BY <1>3 DEF Snapshot, Step
<1>4. ASSUME NEW p \in Promoters, WriteBranch(p) PROVE MergedIsOwn'
  BY <1>4, WriteFacts DEF WriteBranch, Step
<1>5. ASSUME NEW p \in Promoters, Reenter(p) PROVE MergedIsOwn'
  BY <1>5 DEF Reenter, Step, Lock, Lockable
<1>6. ASSUME NEW p \in Promoters, ReadEnv(p) PROVE MergedIsOwn'
  BY <1>6, WriteFacts DEF ReadEnv, Step
<1>7. ASSUME NEW p \in Promoters, WriteEnv(p) PROVE MergedIsOwn'
  BY <1>7, WriteFacts DEF WriteEnv, Step, Unlock, UnlockAll
<1>8. ASSUME NEW p \in Promoters, Trigger(p) PROVE MergedIsOwn'
  BY <1>8 DEF Trigger, Step, Enqueue
<1>9. ASSUME NEW p \in Promoters, RolledOut(p) PROVE MergedIsOwn'
  BY <1>9 DEF RolledOut, Step
<1>10. ASSUME NEW p \in Promoters, Verify(p) PROVE MergedIsOwn'
  BY <1>10 DEF Verify, Step, UnlockAll
<1>11. ASSUME NEW p \in Promoters, Fail(p) PROVE MergedIsOwn'
  BY <1>11 DEF Fail, Blocked, Holds, UnlockAll
<1>12. ASSUME Begin, UNCHANGED promote PROVE MergedIsOwn'
  BY <1>12 DEF Begin
<1>13. ASSUME Complete, UNCHANGED promote PROVE MergedIsOwn'
  BY <1>13 DEF Complete
<1>14. ASSUME Vanish, UNCHANGED promote PROVE MergedIsOwn'
  BY <1>14 DEF Vanish
<1>15. ASSUME UNCHANGED vars PROVE MergedIsOwn'
  BY <1>15
<1> QED
  BY <1>1, <1>2, <1>3, <1>4, <1>5, <1>6, <1>7, <1>8, <1>9, <1>10, <1>11, <1>12, <1>13, <1>14, <1>15 DEF Next, Promote, Worker

(* Nobody else writes the env of the section of a call that is alone.      *)
LEMMA RowStep == TypeOK /\ LockHeld /\ RacesKnown /\ BranchWritten /\ MergedIsOwn /\ PromotedRowIsOwn /\ [Next]_vars => PromotedRowIsOwn'
<1> SUFFICES ASSUME TypeOK, LockHeld, RacesKnown, BranchWritten, MergedIsOwn, PromotedRowIsOwn, [Next]_vars PROVE PromotedRowIsOwn'
  OBVIOUS
<1> USE PromoteAssumption DEF TypeOK, BranchWritten, MergedIsOwn, PromotedRowIsOwn, Section, vars, dokploy, promote
<1>1. ASSUME NEW p \in Promoters, Preflight(p) PROVE PromotedRowIsOwn'
  BY <1>1 DEF Preflight, Step
<1>2. ASSUME NEW p \in Promoters, Enter(p) PROVE PromotedRowIsOwn'
  BY <1>2 DEF Enter, Meet, Step, Lock, Lockable
<1>3. ASSUME NEW p \in Promoters, Snapshot(p) PROVE PromotedRowIsOwn'
  BY <1>3 DEF Snapshot, Step
<1>4. ASSUME NEW p \in Promoters, WriteBranch(p) PROVE PromotedRowIsOwn'
  BY <1>4, Alone, WriteFacts DEF WriteBranch, Step
<1>5. ASSUME NEW p \in Promoters, Reenter(p) PROVE PromotedRowIsOwn'
  BY <1>5 DEF Reenter, Step, Lock, Lockable
<1>6. ASSUME NEW p \in Promoters, ReadEnv(p) PROVE PromotedRowIsOwn'
  BY <1>6, Alone, WriteFacts DEF ReadEnv, Step
<1>7. ASSUME NEW p \in Promoters, WriteEnv(p) PROVE PromotedRowIsOwn'
  BY <1>7, Alone, WriteFacts DEF WriteEnv, Step, Unlock, UnlockAll
<1>8. ASSUME NEW p \in Promoters, Trigger(p) PROVE PromotedRowIsOwn'
  BY <1>8 DEF Trigger, Step, Enqueue
<1>9. ASSUME NEW p \in Promoters, RolledOut(p) PROVE PromotedRowIsOwn'
  BY <1>9 DEF RolledOut, Step
<1>10. ASSUME NEW p \in Promoters, Verify(p) PROVE PromotedRowIsOwn'
  BY <1>10 DEF Verify, Step, UnlockAll
<1>11. ASSUME NEW p \in Promoters, Fail(p) PROVE PromotedRowIsOwn'
  BY <1>11 DEF Fail, Blocked, Holds, UnlockAll
<1>12. ASSUME Begin, UNCHANGED promote PROVE PromotedRowIsOwn'
  BY <1>12 DEF Begin
<1>13. ASSUME Complete, UNCHANGED promote PROVE PromotedRowIsOwn'
  BY <1>13 DEF Complete
<1>14. ASSUME Vanish, UNCHANGED promote PROVE PromotedRowIsOwn'
  BY <1>14 DEF Vanish
<1>15. ASSUME UNCHANGED vars PROVE PromotedRowIsOwn'
  BY <1>15
<1> QED
  BY <1>1, <1>2, <1>3, <1>4, <1>5, <1>6, <1>7, <1>8, <1>9, <1>10, <1>11, <1>12, <1>13, <1>14, <1>15 DEF Next, Promote, Worker

(* Only the call in its section triggers a deployment.                     *)
LEMMA QueueStep == TypeOK /\ LockHeld /\ RacesKnown /\ PromotedRowIsOwn /\ QueueIsOwn /\ [Next]_vars => QueueIsOwn'
<1> SUFFICES ASSUME TypeOK, LockHeld, RacesKnown, PromotedRowIsOwn, QueueIsOwn, [Next]_vars PROVE QueueIsOwn'
  OBVIOUS
<1> USE PromoteAssumption DEF TypeOK, DokployTypeOK, PromotedRowIsOwn, QueueIsOwn, Calm, NewRecords, Own, Section, vars, dokploy, promote
<1>1. ASSUME NEW p \in Promoters, Preflight(p) PROVE QueueIsOwn'
  BY <1>1, Alone DEF Preflight, Step
<1>2. ASSUME NEW p \in Promoters, Enter(p) PROVE QueueIsOwn'
  BY <1>2, Alone DEF Enter, Meet, Step, Lock, Lockable
<1>3. ASSUME NEW p \in Promoters, Snapshot(p) PROVE QueueIsOwn'
  BY <1>3, Alone DEF Snapshot, Step
<1>4. ASSUME NEW p \in Promoters, WriteBranch(p) PROVE QueueIsOwn'
  BY <1>4, Alone DEF WriteBranch, Step
<1>5. ASSUME NEW p \in Promoters, Reenter(p) PROVE QueueIsOwn'
  BY <1>5, Alone DEF Reenter, Step, Lock, Lockable
<1>6. ASSUME NEW p \in Promoters, ReadEnv(p) PROVE QueueIsOwn'
  BY <1>6, Alone DEF ReadEnv, Step
<1>7. ASSUME NEW p \in Promoters, WriteEnv(p) PROVE QueueIsOwn'
  BY <1>7, Alone DEF WriteEnv, Step, Unlock, UnlockAll
<1>8. ASSUME NEW p \in Promoters, Trigger(p) PROVE QueueIsOwn'
  BY <1>8, Alone DEF Trigger, Step, Enqueue
<1>9. ASSUME NEW p \in Promoters, RolledOut(p) PROVE QueueIsOwn'
  BY <1>9, Alone DEF RolledOut, Step
<1>10. ASSUME NEW p \in Promoters, Verify(p) PROVE QueueIsOwn'
  BY <1>10, Alone DEF Verify, Step, UnlockAll
<1>11. ASSUME NEW p \in Promoters, Fail(p) PROVE QueueIsOwn'
  BY <1>11, Alone DEF Fail, Blocked, Holds, UnlockAll
<1>12. ASSUME Begin, UNCHANGED promote PROVE QueueIsOwn'
  <2> SUFFICES ASSUME Calm PROVE QueueIsOwn'
    BY <1>12
  <2>1. PICK p \in Promoters : at[p] = "rollout"
    BY <1>12 DEF Begin
  <2>2. \A q \in Promoters : at[q] \in Section => q = p
    BY <2>1, Alone
  <2>3. /\ Len(records') = Len(records) + 1
        /\ \A i \in 1..Len(records) : records'[i] = records[i]
        /\ records'[Len(records) + 1].ran = row
    BY <1>12, BeginFacts DEF Begin
  <2>4. queue' = queue - 1 /\ queue > 0 /\ Len(records) \in Nat /\ UNCHANGED <<at, seen>>
    BY <1>12 DEF Begin
  <2>5. row.source = BranchOf[p] /\ row.env.image = ImageOf[p]
    BY <2>1
  <2>6. /\ seen[p] <= Len(records)
        /\ Len(records) + queue <= seen[p] + 1
        /\ \A i \in seen[p] + 1 .. Len(records) : Own(p, i)
    BY <2>1
  <2>7. \A i \in seen'[p] + 1 .. Len(records') : Own(p, i)'
    BY <2>3, <2>4, <2>5, <2>6
  <2>8. Len(records') + queue' <= seen'[p] + 1 /\ seen'[p] <= Len(records')
    BY <2>3, <2>4, <2>6
  <2> QED
    BY <2>1, <2>2, <2>4, <2>7, <2>8
<1>13. ASSUME Complete, UNCHANGED promote PROVE QueueIsOwn'
  BY <1>13, CompleteFacts DEF Complete
<1>14. ASSUME Vanish, UNCHANGED promote PROVE QueueIsOwn'
  BY <1>14 DEF Vanish
<1>15. ASSUME UNCHANGED vars PROVE QueueIsOwn'
  BY <1>15
<1> QED
  BY <1>1, <1>2, <1>3, <1>4, <1>5, <1>6, <1>7, <1>8, <1>9, <1>10, <1>11, <1>12, <1>13, <1>14, <1>15 DEF Next, Promote, Worker

(* A record that is done stays, whatever comes after it.                   *)
LEMMA RolloutStep == TypeOK /\ QueueIsOwn /\ RolloutSeen /\ [Next]_vars => RolloutSeen'
<1> SUFFICES ASSUME TypeOK, QueueIsOwn, RolloutSeen, [Next]_vars PROVE RolloutSeen'
  OBVIOUS
<1> USE PromoteAssumption DEF TypeOK, DokployTypeOK, QueueIsOwn, RolloutSeen, Calm, NewRecords, Own, vars, dokploy, promote
<1>1. ASSUME NEW p \in Promoters, Preflight(p) PROVE RolloutSeen'
  BY <1>1 DEF Preflight, Step
<1>2. ASSUME NEW p \in Promoters, Enter(p) PROVE RolloutSeen'
  BY <1>2 DEF Enter, Meet, Step, Lock, Lockable
<1>3. ASSUME NEW p \in Promoters, Snapshot(p) PROVE RolloutSeen'
  BY <1>3 DEF Snapshot, Step
<1>4. ASSUME NEW p \in Promoters, WriteBranch(p) PROVE RolloutSeen'
  BY <1>4 DEF WriteBranch, Step
<1>5. ASSUME NEW p \in Promoters, Reenter(p) PROVE RolloutSeen'
  BY <1>5 DEF Reenter, Step, Lock, Lockable
<1>6. ASSUME NEW p \in Promoters, ReadEnv(p) PROVE RolloutSeen'
  BY <1>6 DEF ReadEnv, Step
<1>7. ASSUME NEW p \in Promoters, WriteEnv(p) PROVE RolloutSeen'
  BY <1>7 DEF WriteEnv, Step, Unlock, UnlockAll
<1>8. ASSUME NEW p \in Promoters, Trigger(p) PROVE RolloutSeen'
  BY <1>8 DEF Trigger, Step, Enqueue
<1>9. ASSUME NEW p \in Promoters, RolledOut(p) PROVE RolloutSeen'
  <2> SUFFICES ASSUME Calm PROVE RolloutSeen'
    BY <1>9 DEF RolledOut, Step
  <2>1. at[p] = "rollout" /\ at' = [at EXCEPT ![p] = "verify"]
    BY <1>9 DEF RolledOut, Step
  <2>2. UNCHANGED <<records, seen>>
    BY <1>9 DEF RolledOut
  <2>3. \E i \in NewRecords(p) : records[i].status = "done" /\ Own(p, i)
    BY <1>9, <2>1 DEF RolledOut
  <2> QED
    BY <2>1, <2>2, <2>3
<1>10. ASSUME NEW p \in Promoters, Verify(p) PROVE RolloutSeen'
  BY <1>10 DEF Verify, Step, UnlockAll
<1>11. ASSUME NEW p \in Promoters, Fail(p) PROVE RolloutSeen'
  BY <1>11 DEF Fail, Blocked, Holds, UnlockAll
<1>12. ASSUME Begin, UNCHANGED promote PROVE RolloutSeen'
  BY <1>12, BeginFacts DEF Begin
<1>13. ASSUME Complete, UNCHANGED promote PROVE RolloutSeen'
  BY <1>13, CompleteFacts DEF Complete
<1>14. ASSUME Vanish, UNCHANGED promote PROVE RolloutSeen'
  BY <1>14 DEF Vanish
<1>15. ASSUME UNCHANGED vars PROVE RolloutSeen'
  BY <1>15
<1> QED
  BY <1>1, <1>2, <1>3, <1>4, <1>5, <1>6, <1>7, <1>8, <1>9, <1>10, <1>11, <1>12, <1>13, <1>14, <1>15 DEF Next, Promote, Worker

-----------------------------------------------------------------------------
(* Who has the lock and who met whom, and what follows of the compose.     *)
IInv == TypeOK /\ LockHeld /\ RacesKnown

OwnInv == /\ BranchWritten
          /\ MergedIsOwn
          /\ PromotedRowIsOwn
          /\ QueueIsOwn
          /\ RolloutSeen

LEMMA InitStep == Init => IInv /\ OwnInv
<1> SUFFICES ASSUME Init PROVE IInv /\ OwnInv
  OBVIOUS
<1> USE PromoteAssumption DEF Init
<1>1. records \in Seq(Records) /\ row \in Rows /\ NoRow \notin Rows /\ NoEnv \in Env
  BY EmptySeq, DokployAssumption DEF NoEnv, Env
<1>2. TypeOK
  BY <1>1 DEF TypeOK, DokployTypeOK
<1>3. LockHeld
  BY DEF LockHeld, Section
<1>5. RacesKnown
  BY DEF RacesKnown, Section
<1>4. OwnInv
  BY DEF OwnInv, BranchWritten, MergedIsOwn, PromotedRowIsOwn, QueueIsOwn, RolloutSeen
<1> QED
  BY <1>2, <1>3, <1>4, <1>5 DEF IInv

LEMMA Inductive == Spec => []IInv
<1>1. IInv /\ [Next]_vars => IInv'
  BY TypeStep, LockStep, RacesStep DEF IInv
<1> QED
  BY InitStep, <1>1, PTL DEF Spec

(* The state of the promotions and of the compose they share is well       *)
(* typed; in particular the lock is never acquired a third time.           *)
THEOREM TypeCorrect == Spec => []TypeOK
<1>1. IInv => TypeOK
  BY DEF IInv
<1> QED
  BY Inductive, <1>1, PTL

LEMMA OwnInductive == Spec => []OwnInv
<1>1. IInv /\ OwnInv /\ [Next]_vars => OwnInv'
  BY BranchStep, MergedStep, RowStep, QueueStep, RolloutStep DEF IInv, OwnInv
<1> QED
  BY InitStep, Inductive, <1>1, PTL DEF Spec

(* Whatever calls are made from whatever processes, the compose has the    *)
(* release and the branch of a call from its write until it answers, if no *)
(* call of another process had the compose with it.                        *)
THEOREM PromotedRowCorrect == Spec => []PromotedRowIsOwn
<1>1. OwnInv => PromotedRowIsOwn
  BY DEF OwnInv
<1> QED
  BY OwnInductive, <1>1, PTL

(* Whatever calls are made from whatever processes, as long as none has    *)
(* failed or met one of another process, a call that returns has seen its  *)
(* own release rolled out.                                                 *)
THEOREM RolloutCorrect == Spec => []PromotedMeansRolledOut
<1>1. OwnInv => PromotedMeansRolledOut
  BY DEF OwnInv, RolloutSeen, PromotedMeansRolledOut, SeenRolledOut, Calm, Own
<1> QED
  BY OwnInductive, <1>1, PTL

=============================================================================
