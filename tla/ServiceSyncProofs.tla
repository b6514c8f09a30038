-------------------------- MODULE ServiceSyncProofs --------------------------
(***************************************************************************)
(* What holds of a service sync for every set of revisions and any number  *)
(* of deployments.                                                         *)
(***************************************************************************)
EXTENDS ServiceSync, DokployProofs

(* From its write on, a sync works on a row that exists and, unless it     *)
(* failed the check, has the credentials the service needs.                *)
Upserted == pc \in {"snapshot", "trigger", "await", "verify", "identity"}

RowExists ==
  /\ pc = "write" \/ Upserted => row # NoRow
  /\ vpc # "idle" => row # NoRow
  /\ queue > 0 => row # NoRow

CredentialsKept ==
  /\ Upserted /\ UsesAppRole => row.env.creds
  /\ vpc = "write" => venv.creds

(* While a sync follows its deployment, nobody but setup-approle writes,   *)
(* and an env that setup-approle read after the config was replaced does   *)
(* not bring it back.                                                      *)
ConfigKept ==
  /\ pc \in {"create", "write"} => env.hash = want
  /\ Upserted => row.source = want
  /\ Upserted /\ vpc = "write" /\ row.env.hash # want => venv.hash # want

(* So all the records it may take for its own are of its config, as long   *)
(* as its config is what the row has.                                      *)
Own(i) == records[i].ran.source = want /\ records[i].ran.env.hash = want

RecordsAreOwn ==
  /\ pc \in {"trigger", "await", "verify", "identity"} /\ row.env.hash = want =>
       \A i \in NewRecords : Own(i)
  /\ pc \in {"verify", "identity"} => NewRecords # {}
  /\ known <= Len(records)

AnswerIsOld == answer # "none" => pc = "idle"

IInv == /\ TypeOK
        /\ RowExists
        /\ CredentialsKept
        /\ ConfigKept
        /\ RecordsAreOwn
        /\ AnswerIsOld
        /\ DeployedMeansBegun

-----------------------------------------------------------------------------
(* The records the actions build are envs and rows.                        *)
LEMMA EnvFacts ==
  /\ NoEnv \in Env
  /\ [source |-> None, env |-> NoEnv, routed |-> FALSE] \in Rows
  /\ NoRow \notin Rows
  BY DokployAssumption DEF Env, NoEnv, Rows

LEMMA WriteFacts ==
  ASSUME TypeOK, RowExists, Write
  PROVE  row' \in Rows /\ row'.env = env /\ row'.source = want
  BY DokployAssumption DEF TypeOK, DokployTypeOK, RowExists, Write, Rows

LEMMA RecordedFacts ==
  ASSUME TypeOK, RowExists, Recorded
  PROVE  /\ row \in Rows /\ row' \in Rows
         /\ row'.env = row.env /\ row'.source = row.source
         /\ pc = "await" /\ pc' \in {"snapshot", "verify"}
         /\ retried' \in BOOLEAN
         /\ NewRecords # {}
         /\ UNCHANGED <<queue, records, running, want, force, env, known, answer, approle>>
<1>1. row \in Rows
  BY DEF TypeOK, DokployTypeOK, RowExists, Upserted, Recorded
<1>2. /\ [row EXCEPT !.routed = TRUE] \in Rows
      /\ [row EXCEPT !.routed = TRUE].env = row.env
      /\ [row EXCEPT !.routed = TRUE].source = row.source
  BY <1>1 DEF Rows
<1>3. \/ row' = [row EXCEPT !.routed = TRUE] /\ pc' = "snapshot" /\ retried' = FALSE
      \/ row' = row /\ pc' = "verify" /\ retried' = retried
  BY ServiceSyncAssumption DEF Recorded
<1> QED
  BY <1>1, <1>2, <1>3 DEF Recorded, TypeOK

LEMMA RotateFacts ==
  ASSUME TypeOK, RowExists
  PROVE  /\ RotateRead => /\ venv' \in Env
                          /\ venv'.creds = TRUE
                          /\ venv'.hash = row.env.hash
         /\ RotateWrite => /\ row' \in Rows
                           /\ row'.env = venv
                           /\ row'.source = row.source
  BY DokployAssumption
  DEF TypeOK, DokployTypeOK, RowExists, RotateRead, RotateWrite, RowEnv, Rows, Env

LEMMA PreservedFacts ==
  ASSUME TypeOK
  PROVE  /\ Preserved(RowEnv) \in Env
         /\ Preserved(RowEnv).hash = want
  BY DEF TypeOK, DokployTypeOK, Preserved, RowEnv, NoEnv, Env, Rows

(* Every step keeps the types.                                             *)
LEMMA TypeStep == TypeOK /\ RowExists /\ [Next]_vars => TypeOK'
<1> SUFFICES ASSUME TypeOK, RowExists, [Next]_vars PROVE TypeOK'
  OBVIOUS
<1> USE DEF TypeOK, DokployTypeOK, RowExists, Upserted, Answers, vars, dokploy, sync, approle
<1>1. ASSUME NEW v \in Versions, NEW f \in BOOLEAN, Start(v, f) PROVE TypeOK'
  BY <1>1, EnvFacts DEF Start
<1>2. ASSUME Fail PROVE TypeOK'
  BY <1>2, EnvFacts DEF Fail, Answer, End
<1>3. ASSUME Unreadable PROVE TypeOK'
  BY <1>3, EnvFacts DEF Unreadable, Answer, End
<1>4. ASSUME Skip PROVE TypeOK'
  BY <1>4, EnvFacts DEF Skip, Answer, End
<1>5. ASSUME Proceed PROVE TypeOK'
  BY <1>5 DEF Proceed
<1>6. ASSUME ReadEnv PROVE TypeOK'
  BY <1>6, PreservedFacts DEF ReadEnv
<1>7. ASSUME Create PROVE TypeOK'
  BY <1>7, EnvFacts DEF Create
<1>8. ASSUME Write PROVE TypeOK'
  BY <1>8, EnvFacts, WriteFacts DEF Write, End
<1>9. ASSUME Snapshot PROVE TypeOK'
  BY <1>9 DEF Snapshot
<1>10. ASSUME Trigger PROVE TypeOK'
  BY <1>10 DEF Trigger, Enqueue
<1>11. ASSUME Recorded PROVE TypeOK'
  BY <1>11, EnvFacts, RecordedFacts DEF approle
<1>12. ASSUME RecordError PROVE TypeOK'
  BY <1>12, EnvFacts DEF RecordError, Answer, End
<1>13. ASSUME NoRecord PROVE TypeOK'
  BY <1>13 DEF NoRecord
<1>14. ASSUME VerifyHash PROVE TypeOK'
  BY <1>14 DEF VerifyHash
<1>15. ASSUME VerifyIdentity PROVE TypeOK'
  BY <1>15, EnvFacts DEF VerifyIdentity, Answer, End
<1>16. ASSUME RotateRead PROVE TypeOK'
  BY <1>16, EnvFacts, RotateFacts DEF RotateRead
<1>17. ASSUME RotateWrite PROVE TypeOK'
  BY <1>17, EnvFacts, RotateFacts DEF RotateWrite
<1>18. ASSUME RotateDeploy PROVE TypeOK'
  BY <1>18 DEF RotateDeploy, Enqueue
<1>19. ASSUME RotateAwait PROVE TypeOK'
  BY <1>19 DEF RotateAwait
<1>20. ASSUME RotateFails PROVE TypeOK'
  BY <1>20, EnvFacts DEF RotateFails
<1>21. ASSUME Begin, UNCHANGED <<sync, approle>> PROVE TypeOK'
  BY <1>21, BeginFacts DEF Begin
<1>22. ASSUME Complete, UNCHANGED <<sync, approle>> PROVE TypeOK'
  BY <1>22, CompleteFacts DEF Complete
<1>23. ASSUME Vanish, UNCHANGED <<sync, approle>> PROVE TypeOK'
  BY <1>23 DEF Vanish
<1>24. ASSUME UNCHANGED vars PROVE TypeOK'
  BY <1>24
<1> QED
  BY <1>1, <1>2, <1>3, <1>4, <1>5, <1>6, <1>7, <1>8, <1>9, <1>10, <1>11, <1>12, <1>13, <1>14, <1>15, <1>16, <1>17, <1>18, <1>19, <1>20, <1>21, <1>22, <1>23, <1>24 DEF Next, Sync, SetupAppRole, Worker

(* A compose that was written or is being deployed exists.                 *)
LEMMA RowStep == TypeOK /\ RowExists /\ [Next]_vars => RowExists'
<1> SUFFICES ASSUME TypeOK, RowExists, [Next]_vars PROVE RowExists'
  OBVIOUS
<1> USE DEF TypeOK, DokployTypeOK, RowExists, Upserted, vars, dokploy, sync, approle
<1>1. ASSUME NEW v \in Versions, NEW f \in BOOLEAN, Start(v, f) PROVE RowExists'
  BY <1>1, EnvFacts DEF Start
<1>2. ASSUME Fail PROVE RowExists'
  BY <1>2, EnvFacts DEF Fail, Answer, End
<1>3. ASSUME Unreadable PROVE RowExists'
  BY <1>3, EnvFacts DEF Unreadable, Answer, End
<1>4. ASSUME Skip PROVE RowExists'
  BY <1>4, EnvFacts DEF Skip, Answer, End
<1>5. ASSUME Proceed PROVE RowExists'
  BY <1>5 DEF Proceed
<1>6. ASSUME ReadEnv PROVE RowExists'
  BY <1>6, PreservedFacts DEF ReadEnv
<1>7. ASSUME Create PROVE RowExists'
  BY <1>7, EnvFacts DEF Create
<1>8. ASSUME Write PROVE RowExists'
  BY <1>8, EnvFacts, WriteFacts DEF Write, End
<1>9. ASSUME Snapshot PROVE RowExists'
  BY <1>9 DEF Snapshot
<1>10. ASSUME Trigger PROVE RowExists'
  BY <1>10 DEF Trigger, Enqueue
<1>11. ASSUME Recorded PROVE RowExists'
  BY <1>11, EnvFacts, RecordedFacts DEF approle
<1>12. ASSUME RecordError PROVE RowExists'
  BY <1>12, EnvFacts DEF RecordError, Answer, End
<1>13. ASSUME NoRecord PROVE RowExists'
  BY <1>13 DEF NoRecord
<1>14. ASSUME VerifyHash PROVE RowExists'
  BY <1>14 DEF VerifyHash
<1>15. ASSUME VerifyIdentity PROVE RowExists'
  BY <1>15, EnvFacts DEF VerifyIdentity, Answer, End
<1>16. ASSUME RotateRead PROVE RowExists'
  BY <1>16, EnvFacts, RotateFacts DEF RotateRead
<1>17. ASSUME RotateWrite PROVE RowExists'
  BY <1>17, EnvFacts, RotateFacts DEF RotateWrite
<1>18. ASSUME RotateDeploy PROVE RowExists'
  BY <1>18 DEF RotateDeploy, Enqueue
<1>19. ASSUME RotateAwait PROVE RowExists'
  BY <1>19 DEF RotateAwait
<1>20. ASSUME RotateFails PROVE RowExists'
  BY <1>20, EnvFacts DEF RotateFails
<1>21. ASSUME Begin, UNCHANGED <<sync, approle>> PROVE RowExists'
  BY <1>21, BeginFacts DEF Begin
<1>22. ASSUME Complete, UNCHANGED <<sync, approle>> PROVE RowExists'
  BY <1>22, CompleteFacts DEF Complete
<1>23. ASSUME Vanish, UNCHANGED <<sync, approle>> PROVE RowExists'
  BY <1>23 DEF Vanish
<1>24. ASSUME UNCHANGED vars PROVE RowExists'
  BY <1>24
<1> QED
  BY <1>1, <1>2, <1>3, <1>4, <1>5, <1>6, <1>7, <1>8, <1>9, <1>10, <1>11, <1>12, <1>13, <1>14, <1>15, <1>16, <1>17, <1>18, <1>19, <1>20, <1>21, <1>22, <1>23, <1>24 DEF Next, Sync, SetupAppRole, Worker

(* The env a sync writes has the credentials of the one it read, or is      *)
(* refused.                                                                *)
LEMMA CredentialsStep == TypeOK /\ RowExists /\ CredentialsKept /\ [Next]_vars => CredentialsKept'
<1> SUFFICES ASSUME TypeOK, RowExists, CredentialsKept, [Next]_vars PROVE CredentialsKept'
  OBVIOUS
<1> USE DEF TypeOK, DokployTypeOK, RowExists, CredentialsKept, Upserted, vars, dokploy, sync, approle
<1>1. ASSUME NEW v \in Versions, NEW f \in BOOLEAN, Start(v, f) PROVE CredentialsKept'
  BY <1>1, EnvFacts, ServiceSyncAssumption DEF Start
<1>2. ASSUME Fail PROVE CredentialsKept'
  BY <1>2, EnvFacts, ServiceSyncAssumption DEF Fail, Answer, End
<1>3. ASSUME Unreadable PROVE CredentialsKept'
  BY <1>3, EnvFacts, ServiceSyncAssumption DEF Unreadable, Answer, End
<1>4. ASSUME Skip PROVE CredentialsKept'
  BY <1>4, EnvFacts, ServiceSyncAssumption DEF Skip, Answer, End
<1>5. ASSUME Proceed PROVE CredentialsKept'
  BY <1>5, ServiceSyncAssumption DEF Proceed
<1>6. ASSUME ReadEnv PROVE CredentialsKept'
  BY <1>6, PreservedFacts, ServiceSyncAssumption DEF ReadEnv
<1>7. ASSUME Create PROVE CredentialsKept'
  BY <1>7, EnvFacts, ServiceSyncAssumption DEF Create
<1>8. ASSUME Write PROVE CredentialsKept'
  BY <1>8, WriteFacts, ServiceSyncAssumption DEF Write, End, CredsOk
<1>9. ASSUME Snapshot PROVE CredentialsKept'
  BY <1>9, ServiceSyncAssumption DEF Snapshot
<1>10. ASSUME Trigger PROVE CredentialsKept'
  BY <1>10, ServiceSyncAssumption DEF Trigger, Enqueue
<1>11. ASSUME Recorded PROVE CredentialsKept'
  BY <1>11, EnvFacts, RecordedFacts, ServiceSyncAssumption DEF approle
<1>12. ASSUME RecordError PROVE CredentialsKept'
  BY <1>12, EnvFacts, ServiceSyncAssumption DEF RecordError, Answer, End
<1>13. ASSUME NoRecord PROVE CredentialsKept'
  BY <1>13, ServiceSyncAssumption DEF NoRecord
<1>14. ASSUME VerifyHash PROVE CredentialsKept'
  BY <1>14, ServiceSyncAssumption DEF VerifyHash
<1>15. ASSUME VerifyIdentity PROVE CredentialsKept'
  BY <1>15, EnvFacts, ServiceSyncAssumption DEF VerifyIdentity, Answer, End
<1>16. ASSUME RotateRead PROVE CredentialsKept'
  BY <1>16, EnvFacts, RotateFacts, ServiceSyncAssumption DEF RotateRead
<1>17. ASSUME RotateWrite PROVE CredentialsKept'
  BY <1>17, EnvFacts, RotateFacts, ServiceSyncAssumption DEF RotateWrite
<1>18. ASSUME RotateDeploy PROVE CredentialsKept'
  BY <1>18, ServiceSyncAssumption DEF RotateDeploy, Enqueue
<1>19. ASSUME RotateAwait PROVE CredentialsKept'
  BY <1>19, ServiceSyncAssumption DEF RotateAwait
<1>20. ASSUME RotateFails PROVE CredentialsKept'
  BY <1>20, EnvFacts, ServiceSyncAssumption DEF RotateFails
<1>21. ASSUME Begin, UNCHANGED <<sync, approle>> PROVE CredentialsKept'
  BY <1>21, BeginFacts, ServiceSyncAssumption DEF Begin
<1>22. ASSUME Complete, UNCHANGED <<sync, approle>> PROVE CredentialsKept'
  BY <1>22, CompleteFacts, ServiceSyncAssumption DEF Complete
<1>23. ASSUME Vanish, UNCHANGED <<sync, approle>> PROVE CredentialsKept'
  BY <1>23, ServiceSyncAssumption DEF Vanish
<1>24. ASSUME UNCHANGED vars PROVE CredentialsKept'
  BY <1>24
<1> QED
  BY <1>1, <1>2, <1>3, <1>4, <1>5, <1>6, <1>7, <1>8, <1>9, <1>10, <1>11, <1>12, <1>13, <1>14, <1>15, <1>16, <1>17, <1>18, <1>19, <1>20, <1>21, <1>22, <1>23, <1>24 DEF Next, Sync, SetupAppRole, Worker

(* setup-approle cannot bring back a config it did not read.               *)
LEMMA ConfigStep == TypeOK /\ RowExists /\ ConfigKept /\ [Next]_vars => ConfigKept'
<1> SUFFICES ASSUME TypeOK, RowExists, ConfigKept, [Next]_vars PROVE ConfigKept'
  OBVIOUS
<1> USE DEF TypeOK, DokployTypeOK, RowExists, ConfigKept, Upserted, vars, dokploy, sync, approle
<1>1. ASSUME NEW v \in Versions, NEW f \in BOOLEAN, Start(v, f) PROVE ConfigKept'
  BY <1>1, EnvFacts DEF Start
<1>2. ASSUME Fail PROVE ConfigKept'
  BY <1>2, EnvFacts DEF Fail, Answer, End
<1>3. ASSUME Unreadable PROVE ConfigKept'
  BY <1>3, EnvFacts DEF Unreadable, Answer, End
<1>4. ASSUME Skip PROVE ConfigKept'
  BY <1>4, EnvFacts DEF Skip, Answer, End
<1>5. ASSUME Proceed PROVE ConfigKept'
  BY <1>5 DEF Proceed
<1>6. ASSUME ReadEnv PROVE ConfigKept'
  BY <1>6, PreservedFacts DEF ReadEnv
<1>7. ASSUME Create PROVE ConfigKept'
  BY <1>7, EnvFacts DEF Create
<1>8. ASSUME Write PROVE ConfigKept'
  BY <1>8, EnvFacts, WriteFacts DEF Write, End
<1>9. ASSUME Snapshot PROVE ConfigKept'
  BY <1>9 DEF Snapshot
<1>10. ASSUME Trigger PROVE ConfigKept'
  BY <1>10 DEF Trigger, Enqueue
<1>11. ASSUME Recorded PROVE ConfigKept'
  BY <1>11, EnvFacts, RecordedFacts DEF approle
<1>12. ASSUME RecordError PROVE ConfigKept'
  BY <1>12, EnvFacts DEF RecordError, Answer, End
<1>13. ASSUME NoRecord PROVE ConfigKept'
  BY <1>13 DEF NoRecord
<1>14. ASSUME VerifyHash PROVE ConfigKept'
  BY <1>14 DEF VerifyHash
<1>15. ASSUME VerifyIdentity PROVE ConfigKept'
  BY <1>15, EnvFacts DEF VerifyIdentity, Answer, End
<1>16. ASSUME RotateRead PROVE ConfigKept'
  BY <1>16, EnvFacts, RotateFacts DEF RotateRead
<1>17. ASSUME RotateWrite PROVE ConfigKept'
  BY <1>17, EnvFacts, RotateFacts DEF RotateWrite
<1>18. ASSUME RotateDeploy PROVE ConfigKept'
  BY <1>18 DEF RotateDeploy, Enqueue
<1>19. ASSUME RotateAwait PROVE ConfigKept'
  BY <1>19 DEF RotateAwait
<1>20. ASSUME RotateFails PROVE ConfigKept'
  BY <1>20, EnvFacts DEF RotateFails
<1>21. ASSUME Begin, UNCHANGED <<sync, approle>> PROVE ConfigKept'
  BY <1>21, BeginFacts DEF Begin
<1>22. ASSUME Complete, UNCHANGED <<sync, approle>> PROVE ConfigKept'
  BY <1>22, CompleteFacts DEF Complete
<1>23. ASSUME Vanish, UNCHANGED <<sync, approle>> PROVE ConfigKept'
  BY <1>23 DEF Vanish
<1>24. ASSUME UNCHANGED vars PROVE ConfigKept'
  BY <1>24
<1> QED
  BY <1>1, <1>2, <1>3, <1>4, <1>5, <1>6, <1>7, <1>8, <1>9, <1>10, <1>11, <1>12, <1>13, <1>14, <1>15, <1>16, <1>17, <1>18, <1>19, <1>20, <1>21, <1>22, <1>23, <1>24 DEF Next, Sync, SetupAppRole, Worker

(* The records a sync may take for its own are of its config.              *)
LEMMA RecordsStep == TypeOK /\ RowExists /\ ConfigKept /\ RecordsAreOwn /\ [Next]_vars => RecordsAreOwn'
<1> SUFFICES ASSUME TypeOK, RowExists, ConfigKept, RecordsAreOwn, [Next]_vars PROVE RecordsAreOwn'
  OBVIOUS
<1> USE DEF TypeOK, DokployTypeOK, RowExists, ConfigKept, RecordsAreOwn, Upserted, NewRecords, Own, vars, dokploy, sync, approle
<1>1. ASSUME NEW v \in Versions, NEW f \in BOOLEAN, Start(v, f) PROVE RecordsAreOwn'
  BY <1>1, EnvFacts DEF Start
<1>2. ASSUME Fail PROVE RecordsAreOwn'
  BY <1>2, EnvFacts DEF Fail, Answer, End
<1>3. ASSUME Unreadable PROVE RecordsAreOwn'
  BY <1>3, EnvFacts DEF Unreadable, Answer, End
<1>4. ASSUME Skip PROVE RecordsAreOwn'
  BY <1>4, EnvFacts DEF Skip, Answer, End
<1>5. ASSUME Proceed PROVE RecordsAreOwn'
  BY <1>5 DEF Proceed
<1>6. ASSUME ReadEnv PROVE RecordsAreOwn'
  BY <1>6, PreservedFacts DEF ReadEnv
<1>7. ASSUME Create PROVE RecordsAreOwn'
  BY <1>7, EnvFacts DEF Create
<1>8. ASSUME Write PROVE RecordsAreOwn'
  BY <1>8, EnvFacts, WriteFacts DEF Write, End
<1>9. ASSUME Snapshot PROVE RecordsAreOwn'
  BY <1>9 DEF Snapshot
<1>10. ASSUME Trigger PROVE RecordsAreOwn'
  BY <1>10 DEF Trigger, Enqueue
<1>11. ASSUME Recorded PROVE RecordsAreOwn'
  BY <1>11, EnvFacts, RecordedFacts DEF approle
<1>12. ASSUME RecordError PROVE RecordsAreOwn'
  BY <1>12, EnvFacts DEF RecordError, Answer, End
<1>13. ASSUME NoRecord PROVE RecordsAreOwn'
  BY <1>13 DEF NoRecord
<1>14. ASSUME VerifyHash PROVE RecordsAreOwn'
  BY <1>14 DEF VerifyHash
<1>15. ASSUME VerifyIdentity PROVE RecordsAreOwn'
  BY <1>15, EnvFacts DEF VerifyIdentity, Answer, End
<1>16. ASSUME RotateRead PROVE RecordsAreOwn'
  BY <1>16, EnvFacts, RotateFacts DEF RotateRead
<1>17. ASSUME RotateWrite PROVE RecordsAreOwn'
  BY <1>17, EnvFacts, RotateFacts DEF RotateWrite
<1>18. ASSUME RotateDeploy PROVE RecordsAreOwn'
  BY <1>18 DEF RotateDeploy, Enqueue
<1>19. ASSUME RotateAwait PROVE RecordsAreOwn'
  BY <1>19 DEF RotateAwait
<1>20. ASSUME RotateFails PROVE RecordsAreOwn'
  BY <1>20, EnvFacts DEF RotateFails
<1>21. ASSUME Begin, UNCHANGED <<sync, approle>> PROVE RecordsAreOwn'
  BY <1>21, BeginFacts DEF Begin
<1>22. ASSUME Complete, UNCHANGED <<sync, approle>> PROVE RecordsAreOwn'
  <2>1. UNCHANGED <<row, queue>>
    BY <1>22 DEF Complete
  <2>2. /\ Len(records') = Len(records)
        /\ \A i \in 1..Len(records) : records'[i].ran = records[i].ran
    BY <1>22, CompleteFacts
  <2>3. Len(records) \in Nat
    OBVIOUS
  <2> QED
    BY <1>22, <2>1, <2>2, <2>3
<1>23. ASSUME Vanish, UNCHANGED <<sync, approle>> PROVE RecordsAreOwn'
  BY <1>23 DEF Vanish
<1>24. ASSUME UNCHANGED vars PROVE RecordsAreOwn'
  BY <1>24
<1> QED
  BY <1>1, <1>2, <1>3, <1>4, <1>5, <1>6, <1>7, <1>8, <1>9, <1>10, <1>11, <1>12, <1>13, <1>14, <1>15, <1>16, <1>17, <1>18, <1>19, <1>20, <1>21, <1>22, <1>23, <1>24 DEF Next, Sync, SetupAppRole, Worker

(* There is an answer only after the end of a sync.                        *)
LEMMA AnswerStep == AnswerIsOld /\ [Next]_vars => AnswerIsOld'
<1> SUFFICES ASSUME AnswerIsOld, [Next]_vars PROVE AnswerIsOld'
  OBVIOUS
<1> USE DEF AnswerIsOld, vars, dokploy, sync, approle
<1>1. ASSUME NEW v \in Versions, NEW f \in BOOLEAN, Start(v, f) PROVE AnswerIsOld'
  BY <1>1 DEF Start
<1>2. ASSUME Fail PROVE AnswerIsOld'
  BY <1>2 DEF Fail, Answer, End
<1>3. ASSUME Unreadable PROVE AnswerIsOld'
  BY <1>3 DEF Unreadable, Answer, End
<1>4. ASSUME Skip PROVE AnswerIsOld'
  BY <1>4 DEF Skip, Answer, End
<1>5. ASSUME Proceed PROVE AnswerIsOld'
  BY <1>5 DEF Proceed
<1>6. ASSUME ReadEnv PROVE AnswerIsOld'
  BY <1>6 DEF ReadEnv
<1>7. ASSUME Create PROVE AnswerIsOld'
  BY <1>7 DEF Create
<1>8. ASSUME Write PROVE AnswerIsOld'
  BY <1>8 DEF Write, End
<1>9. ASSUME Snapshot PROVE AnswerIsOld'
  BY <1>9 DEF Snapshot
<1>10. ASSUME Trigger PROVE AnswerIsOld'
  BY <1>10 DEF Trigger, Enqueue
<1>11. ASSUME Recorded PROVE AnswerIsOld'
  BY <1>11 DEF Recorded
<1>12. ASSUME RecordError PROVE AnswerIsOld'
  BY <1>12 DEF RecordError, Answer, End
<1>13. ASSUME NoRecord PROVE AnswerIsOld'
  BY <1>13 DEF NoRecord
<1>14. ASSUME VerifyHash PROVE AnswerIsOld'
  BY <1>14 DEF VerifyHash
<1>15. ASSUME VerifyIdentity PROVE AnswerIsOld'
  BY <1>15 DEF VerifyIdentity, Answer, End
<1>16. ASSUME RotateRead PROVE AnswerIsOld'
  BY <1>16 DEF RotateRead
<1>17. ASSUME RotateWrite PROVE AnswerIsOld'
  BY <1>17 DEF RotateWrite
<1>18. ASSUME RotateDeploy PROVE AnswerIsOld'
  BY <1>18 DEF RotateDeploy, Enqueue
<1>19. ASSUME RotateAwait PROVE AnswerIsOld'
  BY <1>19 DEF RotateAwait
<1>20. ASSUME RotateFails PROVE AnswerIsOld'
  BY <1>20 DEF RotateFails
<1>21. ASSUME Begin, UNCHANGED <<sync, approle>> PROVE AnswerIsOld'
  BY <1>21 DEF Begin
<1>22. ASSUME Complete, UNCHANGED <<sync, approle>> PROVE AnswerIsOld'
  BY <1>22 DEF Complete
<1>23. ASSUME Vanish, UNCHANGED <<sync, approle>> PROVE AnswerIsOld'
  BY <1>23 DEF Vanish
<1>24. ASSUME UNCHANGED vars PROVE AnswerIsOld'
  BY <1>24
<1> QED
  BY <1>1, <1>2, <1>3, <1>4, <1>5, <1>6, <1>7, <1>8, <1>9, <1>10, <1>11, <1>12, <1>13, <1>14, <1>15, <1>16, <1>17, <1>18, <1>19, <1>20, <1>21, <1>22, <1>23, <1>24 DEF Next, Sync, SetupAppRole, Worker

(* A deployment that has been answered for does not go away.               *)
LEMMA DeployedStep == TypeOK /\ RowExists /\ RecordsAreOwn /\ AnswerIsOld /\ DeployedMeansBegun /\ [Next]_vars => DeployedMeansBegun'
<1> SUFFICES ASSUME TypeOK, RowExists, RecordsAreOwn, AnswerIsOld, DeployedMeansBegun, [Next]_vars PROVE DeployedMeansBegun'
  OBVIOUS
<1> USE DEF TypeOK, DokployTypeOK, RowExists, RecordsAreOwn, AnswerIsOld, DeployedMeansBegun, NewRecords, Own, vars, dokploy, sync, approle
<1>1. ASSUME NEW v \in Versions, NEW f \in BOOLEAN, Start(v, f) PROVE DeployedMeansBegun'
  BY <1>1, EnvFacts DEF Start
<1>2. ASSUME Fail PROVE DeployedMeansBegun'
  BY <1>2, EnvFacts DEF Fail, Answer, End
<1>3. ASSUME Unreadable PROVE DeployedMeansBegun'
  BY <1>3, EnvFacts DEF Unreadable, Answer, End
<1>4. ASSUME Skip PROVE DeployedMeansBegun'
  BY <1>4, EnvFacts DEF Skip, Answer, End
<1>5. ASSUME Proceed PROVE DeployedMeansBegun'
  BY <1>5 DEF Proceed
<1>6. ASSUME ReadEnv PROVE DeployedMeansBegun'
  BY <1>6, PreservedFacts DEF ReadEnv
<1>7. ASSUME Create PROVE DeployedMeansBegun'
  BY <1>7, EnvFacts DEF Create
<1>8. ASSUME Write PROVE DeployedMeansBegun'
  BY <1>8, EnvFacts, WriteFacts DEF Write, End
<1>9. ASSUME Snapshot PROVE DeployedMeansBegun'
  BY <1>9 DEF Snapshot
<1>10. ASSUME Trigger PROVE DeployedMeansBegun'
  BY <1>10 DEF Trigger, Enqueue
<1>11. ASSUME Recorded PROVE DeployedMeansBegun'
  BY <1>11, EnvFacts, RecordedFacts DEF approle
<1>12. ASSUME RecordError PROVE DeployedMeansBegun'
  BY <1>12, EnvFacts DEF RecordError, Answer, End
<1>13. ASSUME NoRecord PROVE DeployedMeansBegun'
  BY <1>13 DEF NoRecord
<1>14. ASSUME VerifyHash PROVE DeployedMeansBegun'
  BY <1>14 DEF VerifyHash
<1>15. ASSUME VerifyIdentity PROVE DeployedMeansBegun'
  <2>1. row.env.hash = want
    BY <1>15 DEF VerifyIdentity, RowEnv, Upserted
  <2>2. NewRecords # {} /\ \A i \in NewRecords : Own(i)
    BY <1>15, <2>1 DEF VerifyIdentity
  <2>3. UNCHANGED <<records, known, want>>
    BY <1>15 DEF VerifyIdentity, Answer
  <2> QED
    BY <2>2, <2>3
<1>16. ASSUME RotateRead PROVE DeployedMeansBegun'
  BY <1>16, EnvFacts, RotateFacts DEF RotateRead
<1>17. ASSUME RotateWrite PROVE DeployedMeansBegun'
  BY <1>17, EnvFacts, RotateFacts DEF RotateWrite
<1>18. ASSUME RotateDeploy PROVE DeployedMeansBegun'
  BY <1>18 DEF RotateDeploy, Enqueue
<1>19. ASSUME RotateAwait PROVE DeployedMeansBegun'
  BY <1>19 DEF RotateAwait
<1>20. ASSUME RotateFails PROVE DeployedMeansBegun'
  BY <1>20, EnvFacts DEF RotateFails
<1>21. ASSUME Begin, UNCHANGED <<sync, approle>> PROVE DeployedMeansBegun'
  BY <1>21, BeginFacts DEF Begin
<1>22. ASSUME Complete, UNCHANGED <<sync, approle>> PROVE DeployedMeansBegun'
  BY <1>22, CompleteFacts DEF Complete
<1>23. ASSUME Vanish, UNCHANGED <<sync, approle>> PROVE DeployedMeansBegun'
  BY <1>23 DEF Vanish
<1>24. ASSUME UNCHANGED vars PROVE DeployedMeansBegun'
  BY <1>24
<1> QED
  BY <1>1, <1>2, <1>3, <1>4, <1>5, <1>6, <1>7, <1>8, <1>9, <1>10, <1>11, <1>12, <1>13, <1>14, <1>15, <1>16, <1>17, <1>18, <1>19, <1>20, <1>21, <1>22, <1>23, <1>24 DEF Next, Sync, SetupAppRole, Worker

-----------------------------------------------------------------------------
LEMMA InitStep == Init => IInv
<1> SUFFICES ASSUME Init PROVE IInv
  OBVIOUS
<1> USE DEF Init, DokployInit, Idle
<1>0. records \in Seq(Records)
  BY EmptySeq
<1>1. TypeOK
  BY <1>0, EnvFacts DEF TypeOK, DokployTypeOK, Answers
<1>2. /\ RowExists
      /\ CredentialsKept
      /\ ConfigKept
      /\ AnswerIsOld
      /\ DeployedMeansBegun
  BY DEF RowExists, CredentialsKept, ConfigKept, AnswerIsOld, DeployedMeansBegun, Upserted
<1>3. RecordsAreOwn
  BY DEF RecordsAreOwn
<1> QED
  BY <1>1, <1>2, <1>3 DEF IInv

LEMMA Inductive == Spec => []IInv
<1>1. IInv /\ [Next]_vars => IInv'
  BY TypeStep, RowStep, CredentialsStep, ConfigStep, RecordsStep, AnswerStep, DeployedStep
  DEF IInv
<1> QED
  BY InitStep, <1>1, PTL DEF Spec

(* The state of a sync, of setup-approle and of the compose they write is  *)
(* well typed.                                                             *)
THEOREM TypeCorrect == Spec => []TypeOK
<1>1. IInv => TypeOK
  BY DEF IInv
<1> QED
  BY Inductive, <1>1, PTL

(* However many revisions and deployments there are, and wherever          *)
(* setup-approle comes in, a sync that answers "updated" or "created" has  *)
(* seen a deployment start from the config it reports.                     *)
THEOREM DeployedCorrect == Spec => []DeployedMeansBegun
<1>1. IInv => DeployedMeansBegun
  BY DEF IInv
<1> QED
  BY Inductive, <1>1, PTL

(* No sync triggers a deployment of a service that uses AppRole from an    *)
(* env without its credentials.                                            *)
THEOREM CredentialsCorrect == Spec => []SyncShipsCredentials
<1>1. IInv => SyncShipsCredentials
  BY DEF IInv, CredentialsKept, Upserted, SyncShipsCredentials
<1> QED
  BY Inductive, <1>1, PTL

=============================================================================
