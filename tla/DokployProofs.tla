---------------------------- MODULE DokployProofs ----------------------------
(***************************************************************************)
(* What Dokploy's worker does to the deployment records.                   *)
(***************************************************************************)
EXTENDS Dokploy, SequenceTheorems, TLAPS

(* The worker adds a record of the row, or ends a deployment that runs.    *)
LEMMA BeginFacts ==
  ASSUME DokployTypeOK, row # NoRow, Begin
  PROVE  /\ records' \in Seq(Records)
         /\ Len(records') = Len(records) + 1
         /\ \A i \in 1..Len(records) : records'[i] = records[i]
         /\ records'[Len(records) + 1].ran = row
<1> DEFINE new == [status |-> "running", ran |-> row]
<1>1. row \in Rows
  BY DEF DokployTypeOK, Begin
<1>2. new \in Records
  BY <1>1 DEF Records
<1>3. records' = Append(records, new) /\ records \in Seq(Records)
  BY DEF Begin, DokployTypeOK
<1>4. new.ran = row
  OBVIOUS
<1> HIDE DEF new
<1> QED
  BY <1>2, <1>3, <1>4, AppendProperties

LEMMA CompleteFacts ==
  ASSUME DokployTypeOK, Complete
  PROVE  /\ records' \in Seq(Records)
         /\ Len(records') = Len(records)
         /\ \A i \in 1..Len(records) : records'[i].ran = records[i].ran
         /\ \A i \in 1..Len(records) : records[i].status = "done" => records'[i] = records[i]
         /\ running' \in Rows \cup {NoRow}
<1>1. PICK i \in DOMAIN records, status \in {"done", "error"} :
        /\ records[i].status = "running"
        /\ records' = [records EXCEPT ![i].status = status]
        /\ running' = IF status = "done" THEN records[i].ran ELSE running
  BY DEF Complete
<1> DEFINE new == [records[i] EXCEPT !.status = status]
<1>2. records \in Seq(Records) /\ i \in 1..Len(records) /\ running \in Rows \cup {NoRow}
  BY DEF DokployTypeOK
<1>3. records[i] \in Records
  BY <1>2
<1>4. new \in Records /\ new.ran = records[i].ran /\ records[i].ran \in Rows
  BY <1>3 DEF Records
<1>5. records' = [records EXCEPT ![i] = new]
  BY <1>1
<1> HIDE DEF new
<1>6. /\ records' \in Seq(Records)
      /\ Len(records') = Len(records)
      /\ \A j \in 1..Len(records) : records'[j] = IF j = i THEN new ELSE records[j]
  BY <1>2, <1>4, <1>5, ExceptSeq
<1> QED
  BY <1>1, <1>2, <1>4, <1>6
=============================================================================
