------------------------ MODULE FeedbackStorageProofs ------------------------
(***************************************************************************)
(* Theorems about FeedbackStorage, for any numbers of requests, retention  *)
(* jobs, screenshots and faults.                                           *)
(***************************************************************************)
EXTENDS FeedbackStorage, FiniteSetTheorems, TLAPS

-----------------------------------------------------------------------------
(***************************************************************************)
(* Types.                                                                  *)
(***************************************************************************)
LEMMA InitType == Init => TypeOK
BY StorageAssumption DEF Init, TypeOK, RecordState, Life!Phases, Running

\* What triage does to a record: whatever it is, no record that is withdrawn, absent,
\* due or under a withdrawal is moved.
LEMMA TriageMove ==
  ASSUME TypeOK, NEW q \in Requests, Triage(q) \/ Reopen(q)
  PROVE  /\ record' \in [Requests -> RecordState]
         /\ \A p \in Requests \ {q} : record'[p] = record[p]
         /\ record[q] \notin {"ABSENT", "WITHDRAWN"} /\ record'[q] \notin {"ABSENT", "WITHDRAWN"}
         /\ record[q] = "QUEUED" => withdrawing # q
         /\ record[q] = "TRIAGED" => ~due[q]
         /\ UNCHANGED <<requestVars, raw, due, audited, file, jobVars, historyVars>>
<1> USE DEF TypeOK, RecordState, Life!Phases, Life!Move
<1>1. CASE Triage(q)
  <2>1. CASE Life!Work(q) \/ Life!Requeue(q)
    BY <1>1, <2>1 DEF Triage, Life!Work, Life!Requeue, Life!Take, Life!GiveBack, Life!Settle, Life!Stop, Life!Resume
  <2>2. CASE record[q] = "NEEDS_ATTENTION" /\ UNCHANGED record
    BY <1>1, <2>2 DEF Triage
  <2> QED BY <1>1, <2>1, <2>2 DEF Triage
<1>2. CASE Reopen(q)
  BY <1>2 DEF Reopen, Life!Reopen
<1> QED BY <1>1, <1>2

LEMMA CreateStepType ==
  ASSUME TypeOK, NEW q \in Requests, CreateStep(q)
  PROVE  TypeOK'
<1> USE StorageAssumption DEF TypeOK, RecordState, Life!Phases, Running, Screenshots, requestVars, rowVars, jobVars,
        historyVars, Goto, SpendFault, SetFile, Unlock
<1>1. CASE Stage(q)  BY <1>1 DEF Stage
<1>2. CASE RejectScreenshot(q)  BY <1>2 DEF RejectScreenshot
<1>3. CASE OpenLaunch(q)  BY <1>3 DEF OpenLaunch
<1>4. CASE LaunchRefused(q)  BY <1>4 DEF LaunchRefused
<1>5. CASE MoveFile(q)  BY <1>5 DEF MoveFile
<1>6. CASE Commit(q)
  <2>1. record' \in [Requests -> RecordState] /\ raw' \in [Requests -> BOOLEAN]
    BY <1>6 DEF Commit
  <2>2. pc' \in [Requests -> Running \cup {"answered", "failed"}]
    BY <1>6 DEF Commit
  <2>3. lost' \in SUBSET Requests /\ faults' \in 0..MaxFaults
    BY <1>6 DEF Commit
  <2>4. launch' \in {"open", "expired", "consumed"} /\ launchLock' \in Requests \cup {None}
    BY <1>6 DEF Commit
  <2> QED BY <1>6, <2>1, <2>2, <2>3, <2>4 DEF Commit
<1>7. CASE RequestFails(q)
  <2>1. file' \in [Requests -> [Screenshots -> {"none", "staged", "stored"}]]
    <3>1. CASE UNCHANGED file  BY <3>1
    <3>2. CASE prepared[q] < MaxFiles /\ SetFile(q, prepared[q] + 1, "staged")
      <4>1. prepared[q] + 1 \in Screenshots
        BY <3>2
      <4> QED BY <3>2, <4>1
    <3> QED BY <1>7, <3>1, <3>2 DEF RequestFails
  <2>2. leaked' \in SUBSET Requests
    BY <1>7 DEF RequestFails
  <2>3. launchLock' \in Requests \cup {None} /\ pc' \in [Requests -> Running \cup {"answered", "failed"}] /\ faults' \in 0..MaxFaults
    BY <1>7 DEF RequestFails
  <2> QED BY <1>7, <2>1, <2>2, <2>3 DEF RequestFails
<1>8. CASE Cleanup(q)
  <2>1. file' \in [Requests -> [Screenshots -> {"none", "staged", "stored"}]]
    BY <1>8 DEF Cleanup
  <2>2. leaked' \in SUBSET Requests /\ faults' \in 0..MaxFaults
    BY <1>8 DEF Cleanup
  <2>3. pc' \in [Requests -> Running \cup {"answered", "failed"}]
    BY <1>8 DEF Cleanup
  <2> QED BY <1>8, <2>1, <2>2, <2>3 DEF Cleanup
<1>9. CASE CrashRequest(q)  BY <1>9 DEF CrashRequest
<1> QED BY <1>1, <1>2, <1>3, <1>4, <1>5, <1>6, <1>7, <1>8, <1>9 DEF CreateStep

LEMMA RemovalStepType ==
  ASSUME TypeOK, WithdrawStep \/ \E j \in Jobs : RetentionStep(j)
  PROVE  TypeOK'
<1> USE StorageAssumption DEF TypeOK, RecordState, Life!Phases, Running, Screenshots, requestVars, rowVars, jobVars,
        historyVars, SpendFault, SetFile, Stored, RemoveRows
<1>1. ASSUME NEW q \in Requests, WithdrawBegin(q) PROVE TypeOK'
  BY <1>1 DEF WithdrawBegin
<1>2. CASE WithdrawDelete  BY <1>2 DEF WithdrawDelete
<1>3. CASE WithdrawCommit  BY <1>3 DEF WithdrawCommit
<1>4. CASE WithdrawFails  BY <1>4 DEF WithdrawFails
<1>5. ASSUME NEW j \in Jobs, NEW q \in Requests, RetentionSelect(j, q) PROVE TypeOK'
  BY <1>5 DEF RetentionSelect
<1>6. ASSUME NEW j \in Jobs, RetentionDelete(j) PROVE TypeOK'
  BY <1>6 DEF RetentionDelete
<1>7. ASSUME NEW j \in Jobs, RetentionCommit(j) PROVE TypeOK'
  <2>1. removing' \in [Jobs -> Requests \cup {None}]
    BY <1>7 DEF RetentionCommit
  <2>2. CASE UNCHANGED <<raw, audited>>
    BY <1>7, <2>1, <2>2 DEF RetentionCommit
  <2>3. CASE RemoveRows(removing[j])
    <3>1. raw' \in [Requests -> BOOLEAN]  BY <2>3
    <3>2. audited' = [audited EXCEPT ![removing[j]] = audited[removing[j]] + 1]
      BY <2>3
    <3>3. \A q \in Requests : audited[q] + 1 \in Nat
      OBVIOUS
    <3>4. audited' \in [Requests -> Nat]
      BY <3>2, <3>3, <1>7 DEF RetentionCommit
    <3> QED BY <1>7, <2>1, <3>1, <3>4 DEF RetentionCommit
  <2> QED BY <1>7, <2>2, <2>3 DEF RetentionCommit
<1>8. ASSUME NEW j \in Jobs, RetentionFails(j) PROVE TypeOK'
  BY <1>8 DEF RetentionFails
<1> QED BY <1>1, <1>2, <1>3, <1>4, <1>5, <1>6, <1>7, <1>8 DEF WithdrawStep, RetentionStep

LEMMA NextType == TypeOK /\ [Next]_vars => TypeOK'
<1> SUFFICES ASSUME TypeOK, [Next]_vars PROVE TypeOK'
  OBVIOUS
<1>1. ASSUME NEW q \in Requests, CreateStep(q) PROVE TypeOK'
  BY <1>1, CreateStepType
<1>2. ASSUME NEW q \in Requests, FallDue(q) PROVE TypeOK'
  BY <1>2 DEF FallDue, TypeOK, requestVars, jobVars, historyVars
<1>3. ASSUME NEW q \in Requests, Triage(q) \/ Reopen(q) PROVE TypeOK'
  <2>1. rejected' \in [Requests -> BOOLEAN]
    BY <1>3 DEF TypeOK, Triage, Rejecting, Reopen
  <2>2. faults' \in 0..MaxFaults
    BY <1>3, StorageAssumption DEF TypeOK, Triage, Reopen, SpendFault
  <2> QED BY <1>3, <2>1, <2>2, TriageMove DEF TypeOK, requestVars, jobVars, historyVars
<1>4. CASE Expire
  BY <1>4 DEF Expire, TypeOK, rowVars, jobVars, historyVars
<1>5. CASE UNCHANGED vars
  BY <1>5 DEF TypeOK, vars, requestVars, rowVars, jobVars, historyVars
<1> QED BY <1>1, <1>2, <1>3, <1>4, <1>5, RemovalStepType DEF Next

\* TypeOK: every variable keeps its type; a request never prepares more screenshots
\* than a submission may have.
THEOREM TypeCorrect == Spec => []TypeOK
<1>1. Init => TypeOK  BY InitType
<1>2. TypeOK /\ [Next]_vars => TypeOK'  BY NextType
<1> QED BY <1>1, <1>2, PTL DEF Spec

-----------------------------------------------------------------------------
(***************************************************************************)
(* One launch, one record.  The launch row's lock is what makes the check  *)
(* of consumed_at at the start of the transaction hold at its end.         *)
(***************************************************************************)
Recorded == {q \in Requests : record[q] # "ABSENT"}

LaunchInv ==
  /\ \A q \in Requests : pc[q] = "move" <=> launchLock = q
  /\ \A q \in Requests : pc[q] = "move" => launch # "consumed"
  /\ \A q \in Requests : pc[q] \in {"stage", "move"} => record[q] = "ABSENT"
  /\ launch # "consumed" => \A q \in Requests : record[q] = "ABSENT"
  /\ launch = "consumed" => \E q \in Requests : record[q] # "ABSENT"
  /\ \A p, q \in Requests : record[p] # "ABSENT" /\ record[q] # "ABSENT" => p = q
  /\ withdrawing # None => record[withdrawing] = "QUEUED"

LEMMA LaunchInit == Init => LaunchInv
BY StorageAssumption DEF Init, LaunchInv

LEMMA LaunchNext == TypeOK /\ LaunchInv /\ [Next]_vars => LaunchInv'
<1> SUFFICES ASSUME TypeOK, LaunchInv, [Next]_vars PROVE LaunchInv'
  OBVIOUS
<1> USE StorageAssumption DEF TypeOK, LaunchInv
<1>1. ASSUME NEW q \in Requests, CreateStep(q) PROVE LaunchInv'
  <2> USE DEF Goto, Unlock, rowVars, jobVars
  <2>1. CASE Stage(q)  BY <2>1 DEF Stage
  <2>2. CASE RejectScreenshot(q)  BY <2>2 DEF RejectScreenshot
  <2>3. CASE OpenLaunch(q)  BY <2>3 DEF OpenLaunch
  <2>4. CASE LaunchRefused(q)  BY <2>4 DEF LaunchRefused
  <2>5. CASE MoveFile(q)  BY <2>5 DEF MoveFile, requestVars
  <2>6. CASE Commit(q)
    <3>1. launchLock = q /\ \A p \in Requests : record[p] = "ABSENT"
      BY <2>6 DEF Commit
    <3>2. pc' \in {[pc EXCEPT ![q] = "answered"], [pc EXCEPT ![q] = "cleanup"]}
      BY <2>6 DEF Commit
    <3>3. \A p \in Requests : pc'[p] # "move" /\ (pc'[p] = "stage" => p # q)
      BY <3>1, <3>2
    <3>4. record'[q] = "QUEUED" /\ \A p \in Requests \ {q} : record'[p] = "ABSENT"
      BY <2>6, <3>1 DEF Commit
    <3>5. launch' = "consumed" /\ launchLock' = None /\ withdrawing = None /\ withdrawing' = None
      BY <2>6, <3>1 DEF Commit
    <3> QED BY <3>3, <3>4, <3>5
  <2>7. CASE RequestFails(q)  BY <2>7 DEF RequestFails
  <2>8. CASE Cleanup(q)  BY <2>8 DEF Cleanup
  <2>9. CASE CrashRequest(q)  BY <2>9 DEF CrashRequest, Running
  <2> QED BY <1>1, <2>1, <2>2, <2>3, <2>4, <2>5, <2>6, <2>7, <2>8, <2>9 DEF CreateStep
<1>2. CASE WithdrawStep
  <2> USE DEF requestVars, rowVars, jobVars
  <2>1. ASSUME NEW q \in Requests, WithdrawBegin(q) PROVE LaunchInv'
    BY <2>1 DEF WithdrawBegin
  <2>2. CASE WithdrawDelete \/ WithdrawFails
    BY <2>2 DEF WithdrawDelete, WithdrawFails
  <2>3. CASE WithdrawCommit
    <3>1. record[withdrawing] # "ABSENT"
      BY <2>3 DEF WithdrawCommit
    <3>2. \A q \in Requests : record'[q] = "ABSENT" <=> record[q] = "ABSENT"
      BY <2>3, <3>1 DEF WithdrawCommit
    <3> QED BY <2>3, <3>2 DEF WithdrawCommit
  <2> QED BY <1>2, <2>1, <2>2, <2>3 DEF WithdrawStep
<1>3. ASSUME NEW j \in Jobs, RetentionStep(j) PROVE LaunchInv'
  BY <1>3 DEF RetentionStep, RetentionSelect, RetentionDelete, RetentionCommit, RetentionFails, requestVars, rowVars, jobVars
<1>4. ASSUME NEW q \in Requests, FallDue(q) \/ Triage(q) \/ Reopen(q) PROVE LaunchInv'
  <2>1. CASE FallDue(q)  BY <2>1 DEF FallDue, requestVars, jobVars
  <2>2. CASE Triage(q) \/ Reopen(q)
    <3>1. \A p \in Requests : record'[p] = "ABSENT" <=> record[p] = "ABSENT"
      BY <2>2, TriageMove
    <3>2. withdrawing # None => record'[withdrawing] = "QUEUED"
      BY <2>2, TriageMove
    <3> QED BY <2>2, <3>1, <3>2, TriageMove DEF requestVars, jobVars
  <2> QED BY <1>4, <2>1, <2>2
<1>5. CASE Expire \/ UNCHANGED vars
  BY <1>5 DEF Expire, vars, requestVars, rowVars, jobVars
<1> QED BY <1>1, <1>2, <1>3, <1>4, <1>5 DEF Next

LEMMA OneRecorded == TypeOK /\ LaunchInv => LaunchMatchesRecord
<1> SUFFICES ASSUME TypeOK, LaunchInv PROVE LaunchMatchesRecord
  OBVIOUS
<1>1. CASE launch = "consumed"
  <2>1. PICK q \in Requests : record[q] # "ABSENT"
    BY <1>1 DEF LaunchInv
  <2>2. Recorded = {q}
    BY <2>1 DEF LaunchInv, Recorded
  <2> QED BY <1>1, <2>2, FS_Singleton DEF LaunchMatchesRecord, Recorded
<1>2. CASE launch # "consumed"
  <2>1. Recorded = {}
    BY <1>2 DEF LaunchInv, Recorded
  <2> QED BY <1>2, <2>1, FS_EmptySet DEF LaunchMatchesRecord, Recorded
<1> QED BY <1>1, <1>2

\* LaunchMatchesRecord: however many requests race for a launch, it is consumed
\* exactly when one of them has left a record.
THEOREM OneRecordPerLaunch == Spec => []LaunchMatchesRecord
<1>1. Init => TypeOK /\ LaunchInv
  BY InitType, LaunchInit
<1>2. TypeOK /\ LaunchInv /\ [Next]_vars => TypeOK' /\ LaunchInv'
  BY NextType, LaunchNext
<1> QED BY <1>1, <1>2, OneRecorded, PTL DEF Spec

-----------------------------------------------------------------------------
(***************************************************************************)
(* Removal.  No file comes into storage once its record exists, and a      *)
(* removal marks its rows only when there is none left.                    *)
(***************************************************************************)
RemovalInv ==
  /\ \A q \in Requests : raw[q] => record[q] # "ABSENT"
  /\ \A q \in Requests : record[q] = "WITHDRAWN" => ~raw[q]
  /\ \A q \in Requests : ~raw[q] => record[q] \in {"ABSENT", "TRIAGED", "WITHDRAWN"}
  /\ \A q \in Requests : record[q] = "TRIAGED" /\ ~raw[q] => due[q]
  /\ RemovedMeansNoFiles
  /\ RemovalAuditedOnce

LEMMA RemovalInit == Init => RemovalInv
BY StorageAssumption DEF Init, RemovalInv, RemovedMeansNoFiles, RemovalAuditedOnce

LEMMA RemovalNext == TypeOK /\ LaunchInv /\ RemovalInv /\ [Next]_vars => RemovalInv'
<1> SUFFICES ASSUME TypeOK, LaunchInv, RemovalInv, [Next]_vars PROVE RemovalInv'
  OBVIOUS
<1> USE StorageAssumption DEF TypeOK, RemovalInv, RemovedMeansNoFiles, RemovalAuditedOnce, NoFileOf, Stored, Screenshots
<1>1. ASSUME NEW q \in Requests, CreateStep(q) PROVE RemovalInv'
  <2> USE DEF rowVars, jobVars, SetFile, LaunchInv
  <2>1. CASE Stage(q)  BY <2>1 DEF Stage
  <2>2. CASE RejectScreenshot(q)  BY <2>2 DEF RejectScreenshot
  <2>3. CASE OpenLaunch(q)  BY <2>3 DEF OpenLaunch
  <2>4. CASE LaunchRefused(q)  BY <2>4 DEF LaunchRefused
  <2>5. CASE MoveFile(q)  BY <2>5 DEF MoveFile
  <2>6. CASE Commit(q)  BY <2>6 DEF Commit
  <2>7. CASE RequestFails(q)
    <3>1. \A p \in Requests, i \in 1..MaxFiles : file'[p][i] = "stored" => file[p][i] = "stored"
      <4>1. CASE UNCHANGED file  BY <4>1
      <4>2. CASE SetFile(q, prepared[q] + 1, "staged")  BY <4>2
      <4> QED BY <2>7, <4>1, <4>2 DEF RequestFails
    <3> QED BY <2>7, <3>1 DEF RequestFails
  <2>8. CASE Cleanup(q)  BY <2>8 DEF Cleanup
  <2>9. CASE CrashRequest(q)  BY <2>9 DEF CrashRequest
  <2> QED BY <1>1, <2>1, <2>2, <2>3, <2>4, <2>5, <2>6, <2>7, <2>8, <2>9 DEF CreateStep
<1>2. CASE WithdrawStep
  <2>1. ASSUME NEW q \in Requests, WithdrawBegin(q) PROVE RemovalInv'
    BY <2>1 DEF WithdrawBegin, rowVars
  <2>2. CASE WithdrawDelete  BY <2>2 DEF WithdrawDelete, rowVars, jobVars, SetFile
  <2>3. CASE WithdrawCommit
    <3>1. withdrawing \in Requests /\ record[withdrawing] = "QUEUED" /\ raw[withdrawing]
      BY <2>3 DEF WithdrawCommit, LaunchInv
    <3>2. audited[withdrawing] = 0 /\ audited'[withdrawing] = 1
      BY <2>3, <3>1 DEF WithdrawCommit, RemoveRows
    <3> QED BY <2>3, <3>1, <3>2 DEF WithdrawCommit, RemoveRows
  <2>4. CASE WithdrawFails  BY <2>4 DEF WithdrawFails, rowVars
  <2> QED BY <1>2, <2>1, <2>2, <2>3, <2>4 DEF WithdrawStep
<1>3. ASSUME NEW j \in Jobs, RetentionStep(j) PROVE RemovalInv'
  <2>1. ASSUME NEW q \in Requests, RetentionSelect(j, q) PROVE RemovalInv'
    BY <2>1 DEF RetentionSelect, rowVars
  <2>2. CASE RetentionDelete(j)  BY <2>2 DEF RetentionDelete, rowVars, jobVars, SetFile
  <2>3. CASE RetentionCommit(j)
    <3>1. CASE Eligible(removing[j]) /\ RemoveRows(removing[j])
      <4>1. audited'[removing[j]] = 1 /\ record[removing[j]] = "TRIAGED" /\ due[removing[j]]
        BY <2>3, <3>1 DEF RetentionCommit, RemoveRows, Eligible
      <4> QED BY <2>3, <3>1, <4>1 DEF RetentionCommit, RemoveRows
    <3>2. CASE UNCHANGED <<raw, audited>>
      BY <2>3, <3>2 DEF RetentionCommit
    <3> QED BY <2>3, <3>1, <3>2 DEF RetentionCommit
  <2>4. CASE RetentionFails(j)  BY <2>4 DEF RetentionFails, rowVars
  <2> QED BY <1>3, <2>1, <2>2, <2>3, <2>4 DEF RetentionStep
<1>4. ASSUME NEW q \in Requests, Triage(q) \/ Reopen(q) PROVE RemovalInv'
  <2>1. UNCHANGED <<raw, due, file, audited>> /\ raw[q]
    BY <1>4, TriageMove
  <2>2. \A p \in Requests : /\ record'[p] = "ABSENT" <=> record[p] = "ABSENT"
                            /\ record'[p] = "WITHDRAWN" <=> record[p] = "WITHDRAWN"
                            /\ ~raw[p] => record'[p] = record[p]
    BY <1>4, <2>1, TriageMove
  <2> QED BY <2>1, <2>2
<1>5. ASSUME NEW q \in Requests, FallDue(q) PROVE RemovalInv'
  BY <1>5 DEF FallDue, jobVars
<1>6. CASE Expire \/ UNCHANGED vars
  BY <1>6 DEF Expire, vars, rowVars, jobVars
<1> QED BY <1>1, <1>2, <1>3, <1>4, <1>5, <1>6 DEF Next

LEMMA RemovalInvariant == Spec => [](TypeOK /\ LaunchInv /\ RemovalInv)
<1>1. Init => TypeOK /\ LaunchInv /\ RemovalInv
  BY InitType, LaunchInit, RemovalInit
<1>2. TypeOK /\ LaunchInv /\ RemovalInv /\ [Next]_vars => (TypeOK /\ LaunchInv /\ RemovalInv)'
  BY NextType, LaunchNext, RemovalNext
<1> QED BY <1>1, <1>2, PTL DEF Spec

\* RemovedMeansNoFiles: a record whose raw content is marked deleted has no
\* screenshot in storage, whatever failed or was killed on the way.
THEOREM RemovalIsComplete == Spec => []RemovedMeansNoFiles
<1>1. TypeOK /\ LaunchInv /\ RemovalInv => RemovedMeansNoFiles
  BY DEF RemovalInv
<1> QED BY <1>1, RemovalInvariant, PTL

\* RemovalAuditedOnce: every removal has exactly one audit event, for any number of
\* retention jobs at work on the same record.
THEOREM RemovalIsAudited == Spec => []RemovalAuditedOnce
<1>1. TypeOK /\ LaunchInv /\ RemovalInv => RemovalAuditedOnce
  BY DEF RemovalInv
<1> QED BY <1>1, RemovalInvariant, PTL

-----------------------------------------------------------------------------
(***************************************************************************)
(* Retention of what must be kept.                                         *)
(***************************************************************************)
KeepInv ==
  /\ \A q \in Requests : pc[q] = "cleanup" /\ record[q] # "ABSENT" => q \in lost
  /\ \A j \in Jobs : removing[j] # None => record[removing[j]] = "TRIAGED" /\ due[removing[j]]

LEMMA KeepInit == Init => KeepInv
BY StorageAssumption DEF Init, KeepInv

LEMMA KeepNext == TypeOK /\ LaunchInv /\ KeepInv /\ [Next]_vars => KeepInv'
<1> SUFFICES ASSUME TypeOK, LaunchInv, KeepInv, [Next]_vars PROVE KeepInv'
  OBVIOUS
<1> USE StorageAssumption DEF TypeOK, KeepInv, LaunchInv
<1>1. ASSUME NEW q \in Requests, CreateStep(q) PROVE KeepInv'
  <2> USE DEF rowVars, jobVars, historyVars, Goto
  <2>1. CASE Stage(q)  BY <2>1 DEF Stage
  <2>2. CASE RejectScreenshot(q)  BY <2>2 DEF RejectScreenshot
  <2>3. CASE OpenLaunch(q)  BY <2>3 DEF OpenLaunch
  <2>4. CASE LaunchRefused(q)  BY <2>4 DEF LaunchRefused
  <2>5. CASE MoveFile(q)  BY <2>5 DEF MoveFile, requestVars
  <2>6. CASE Commit(q)  BY <2>6 DEF Commit
  <2>7. CASE RequestFails(q)  BY <2>7 DEF RequestFails
  <2>8. CASE Cleanup(q)  BY <2>8 DEF Cleanup
  <2>9. CASE CrashRequest(q)  BY <2>9 DEF CrashRequest
  <2> QED BY <1>1, <2>1, <2>2, <2>3, <2>4, <2>5, <2>6, <2>7, <2>8, <2>9 DEF CreateStep
<1>2. CASE WithdrawStep
  BY <1>2 DEF WithdrawStep, WithdrawBegin, WithdrawDelete, WithdrawCommit, WithdrawFails,
              requestVars, rowVars, jobVars, historyVars
<1>3. ASSUME NEW j \in Jobs, RetentionStep(j) PROVE KeepInv'
  <2> USE <1>3 DEF requestVars, rowVars, jobVars, historyVars
  <2>1. ASSUME NEW q \in Requests, RetentionSelect(j, q) PROVE KeepInv'
    BY <2>1 DEF RetentionSelect, Eligible
  <2>2. CASE RetentionDelete(j)  BY <2>2 DEF RetentionDelete
  <2>3. CASE RetentionCommit(j)  BY <2>3 DEF RetentionCommit
  <2>4. CASE RetentionFails(j)  BY <2>4 DEF RetentionFails
  <2> QED BY <2>1, <2>2, <2>3, <2>4 DEF RetentionStep
<1>4. ASSUME NEW q \in Requests, Triage(q) \/ Reopen(q) PROVE KeepInv'
  BY <1>4, TriageMove DEF requestVars, jobVars, historyVars
<1>5. ASSUME NEW q \in Requests, FallDue(q) PROVE KeepInv'
  BY <1>5 DEF FallDue, requestVars, jobVars, historyVars
<1>6. CASE Expire \/ UNCHANGED vars
  BY <1>6 DEF Expire, vars, requestVars, rowVars, jobVars, historyVars
<1> QED BY <1>1, <1>2, <1>3, <1>4, <1>5, <1>6 DEF Next

\* The step of RemovedOnlyWhenDue.
Kept == \A q \in Requests, i \in Screenshots :
  record[q] # "ABSENT" /\ file[q][i] = "stored" /\ file'[q][i] # "stored" =>
    \/ record[q] = "QUEUED" /\ withdrawing = q
    \/ record[q] = "TRIAGED" /\ due[q]
    \/ q \in lost

LEMMA KeptStep == TypeOK /\ LaunchInv /\ KeepInv /\ [Next]_vars => Kept
<1> SUFFICES ASSUME TypeOK, LaunchInv, KeepInv, [Next]_vars PROVE Kept
  OBVIOUS
<1> USE StorageAssumption DEF TypeOK, Kept, Screenshots
<1>1. ASSUME NEW q \in Requests, CreateStep(q) PROVE Kept
  <2> USE DEF LaunchInv, SetFile
  <2>1. CASE Stage(q)  BY <2>1 DEF Stage
  <2>2. CASE MoveFile(q)  BY <2>2 DEF MoveFile
  <2>3. CASE RequestFails(q)  BY <2>3 DEF RequestFails
  <2>4. CASE Cleanup(q)  BY <2>4 DEF Cleanup, KeepInv
  <2>5. CASE UNCHANGED file  BY <2>5
  <2> QED BY <1>1, <2>1, <2>2, <2>3, <2>4, <2>5
        DEF CreateStep, RejectScreenshot, OpenLaunch, LaunchRefused, Commit, CrashRequest
<1>2. CASE WithdrawDelete
  BY <1>2 DEF WithdrawDelete, SetFile, Stored, LaunchInv
<1>3. ASSUME NEW j \in Jobs, RetentionDelete(j) PROVE Kept
  BY <1>3 DEF RetentionDelete, SetFile, Stored, KeepInv
<1>4. CASE UNCHANGED file
  BY <1>4
<1> QED BY <1>1, <1>2, <1>3, <1>4
      DEF Next, WithdrawStep, WithdrawBegin, WithdrawCommit, WithdrawFails, RetentionStep, RetentionSelect,
          RetentionCommit, RetentionFails, FallDue, Triage, Reopen, Expire, vars

\* RemovedOnlyWhenDue: a stored screenshot of a record disappears only under a
\* withdrawal of the queued record or after its retention, but for a submission
\* whose commit was reported as failed.
THEOREM RawContentIsKept == Spec => RemovedOnlyWhenDue
<1>1. Init => TypeOK /\ LaunchInv /\ KeepInv
  BY InitType, LaunchInit, KeepInit
<1>2. TypeOK /\ LaunchInv /\ KeepInv /\ [Next]_vars => (TypeOK /\ LaunchInv /\ KeepInv)'
  BY NextType, LaunchNext, KeepNext
<1>3. TypeOK /\ LaunchInv /\ KeepInv /\ [Next]_vars => [Kept]_vars
  BY KeptStep
<1>4. Spec => [][Kept]_vars
  BY <1>1, <1>2, <1>3, PTL DEF Spec
<1> QED BY <1>4 DEF RemovedOnlyWhenDue, Kept
-----------------------------------------------------------------------------
(***************************************************************************)
(* Nothing stays behind.  Every file of a request that neither was killed  *)
(* nor failed to unlink one is a file the request knows of, and the clean- *)
(* up takes all of those.                                                  *)
(***************************************************************************)
StrayInv ==
  \A q \in Requests : q \notin leaked /\ record[q] = "ABSENT" =>
    \A i \in Screenshots : i > prepared[q] \/ pc[q] = "failed" => file[q][i] = "none"

\* A step that brings no file, forgets none and fails no request.
LEMMA StrayStands ==
  ASSUME StrayInv,
         UNCHANGED <<prepared, pc>>, leaked \subseteq leaked',
         \A q \in Requests : record'[q] = "ABSENT" => record[q] = "ABSENT",
         \A q \in Requests, i \in Screenshots : file'[q][i] \in {file[q][i], "none"}
  PROVE  StrayInv'
BY DEF StrayInv

LEMMA StrayNext == TypeOK /\ LaunchInv /\ StrayInv /\ [Next]_vars => StrayInv'
<1> SUFFICES ASSUME TypeOK, LaunchInv, StrayInv, [Next]_vars PROVE StrayInv'
  OBVIOUS
<1> USE StorageAssumption DEF TypeOK, Screenshots
<1>1. ASSUME NEW q \in Requests, CreateStep(q) PROVE StrayInv'
  <2> USE DEF StrayInv, rowVars, jobVars, historyVars, Goto, SetFile
  <2>1. CASE Stage(q)  BY <2>1 DEF Stage
  <2>2. CASE RejectScreenshot(q)  BY <2>2 DEF RejectScreenshot
  <2>3. CASE OpenLaunch(q)  BY <2>3 DEF OpenLaunch
  <2>4. CASE LaunchRefused(q)  BY <2>4 DEF LaunchRefused
  <2>5. CASE MoveFile(q)  BY <2>5 DEF MoveFile, requestVars
  <2>6. CASE Commit(q)
    <3>1. \A p \in Requests \ {q} : pc'[p] = pc[p] /\ record'[p] = record[p]
      BY <2>6 DEF Commit
    <3>2. record'[q] # "ABSENT"  BY <2>6 DEF Commit
    <3>3. UNCHANGED <<prepared, file, leaked>>  BY <2>6 DEF Commit
    <3>4. \A p \in Requests : record'[p] = "ABSENT" => record[p] = "ABSENT" /\ pc'[p] = pc[p]
      BY <3>1, <3>2
    <3> QED BY <3>3, <3>4
  <2>7. CASE RequestFails(q)
    <3>1. pc' = [pc EXCEPT ![q] = "cleanup"] /\ pc[q] # "failed" /\ UNCHANGED <<prepared, record>>
      BY <2>7 DEF RequestFails
    <3>2. CASE UNCHANGED <<file, leaked>>  BY <3>1, <3>2
    <3>3. CASE SetFile(q, prepared[q] + 1, "staged") /\ leaked' = leaked \cup {q}
      <4>1. \A p \in Requests \ {q} : pc'[p] = pc[p] /\ file'[p] = file[p]
        BY <3>1, <3>3
      <4> QED BY <3>1, <3>3, <4>1
    <3> QED BY <2>7, <3>2, <3>3 DEF RequestFails
  <2>8. CASE Cleanup(q)
    <3>1. pc' = [pc EXCEPT ![q] = "failed"] /\ UNCHANGED <<prepared, record>>
      BY <2>8 DEF Cleanup
    <3>2. PICK kept \in SUBSET (1..prepared[q]) :
            /\ file' = [file EXCEPT ![q] = [i \in Screenshots |->
                          IF i <= prepared[q] /\ i \notin kept THEN "none" ELSE file[q][i]]]
            /\ (kept = {} /\ UNCHANGED leaked) \/ leaked' = leaked \cup {q}
      BY <2>8 DEF Cleanup
    <3>3. \A p \in Requests \ {q} : pc'[p] = pc[p] /\ file'[p] = file[p]
      BY <3>1, <3>2
    <3>4. CASE leaked' = leaked \cup {q}  BY <3>1, <3>3, <3>4
    <3>5. CASE kept = {} /\ UNCHANGED leaked
      <4>1. \A i \in Screenshots : file'[q][i] = IF i <= prepared[q] THEN "none" ELSE file[q][i]
        BY <3>2, <3>5
      <4> QED BY <3>1, <3>3, <3>5, <4>1
    <3> QED BY <3>2, <3>4, <3>5
  <2>9. CASE CrashRequest(q)  BY <2>9 DEF CrashRequest
  <2> QED BY <1>1, <2>1, <2>2, <2>3, <2>4, <2>5, <2>6, <2>7, <2>8, <2>9 DEF CreateStep
<1>2. CASE WithdrawStep
  <2> USE DEF requestVars, rowVars, jobVars, historyVars
  <2>1. CASE WithdrawDelete
    <3>1. \A q \in Requests, i \in Screenshots : file'[q][i] \in {file[q][i], "none"}
      BY <2>1 DEF WithdrawDelete, SetFile, Stored
    <3> QED BY <2>1, <3>1, StrayStands DEF WithdrawDelete
  <2>2. CASE WithdrawCommit
    BY <2>2, StrayStands DEF WithdrawCommit, LaunchInv
  <2> QED BY <1>2, <2>1, <2>2, StrayStands DEF WithdrawStep, WithdrawBegin, WithdrawFails
<1>3. ASSUME NEW j \in Jobs, RetentionStep(j) PROVE StrayInv'
  <2> USE DEF requestVars, rowVars, jobVars, historyVars
  <2>1. CASE RetentionDelete(j)
    <3>1. \A q \in Requests, i \in Screenshots : file'[q][i] \in {file[q][i], "none"}
      BY <2>1 DEF RetentionDelete, SetFile, Stored
    <3> QED BY <2>1, <3>1, StrayStands DEF RetentionDelete
  <2> QED BY <1>3, <2>1, StrayStands DEF RetentionStep, RetentionSelect, RetentionCommit, RetentionFails
<1>4. ASSUME NEW q \in Requests, FallDue(q) \/ Triage(q) \/ Reopen(q) PROVE StrayInv'
  <2>1. UNCHANGED <<prepared, pc, leaked, file>>
    BY <1>4, TriageMove DEF FallDue, requestVars, historyVars
  <2>2. \A p \in Requests : record'[p] = "ABSENT" => record[p] = "ABSENT"
    BY <1>4, TriageMove DEF FallDue
  <2> QED BY <2>1, <2>2, StrayStands
<1>5. CASE Expire \/ UNCHANGED vars
  BY <1>5, StrayStands DEF Expire, vars, requestVars, rowVars, jobVars, historyVars
<1> QED BY <1>1, <1>2, <1>3, <1>4, <1>5 DEF Next

\* NoStrayFile: a submission that is refused or fails leaves no screenshot behind,
\* unless its process was killed or a file could not be unlinked.
THEOREM NothingStays == Spec => []NoStrayFile
<1>1. Init => TypeOK /\ LaunchInv /\ StrayInv
  BY InitType, LaunchInit DEF Init, StrayInv
<1>2. TypeOK /\ LaunchInv /\ StrayInv /\ [Next]_vars => (TypeOK /\ LaunchInv /\ StrayInv)'
  BY NextType, LaunchNext, StrayNext
<1>3. StrayInv => NoStrayFile
  BY DEF StrayInv, NoStrayFile
<1> QED BY <1>1, <1>2, <1>3, PTL DEF Spec

-----------------------------------------------------------------------------
(***************************************************************************)
(* The contract of record states.  Both ends of a submission and of a      *)
(* withdrawal need an invariant: what was true when the transaction began  *)
(* is true when it commits, because it holds the row.                      *)
(***************************************************************************)
LEMMA LifeStep == TypeOK /\ LaunchInv /\ [Next]_vars => [Life!Next]_record
<1> SUFFICES ASSUME TypeOK, LaunchInv, [Next]_vars PROVE [Life!Next]_record
  OBVIOUS
<1>1. ASSUME NEW q \in Requests, CreateStep(q) PROVE [Life!Next]_record
  <2>1. CASE Commit(q)
    <3>1. Life!Submit(q) BY <2>1 DEF Commit, LaunchInv, Life!Submit, Life!Move
    <3> QED BY <3>1 DEF Life!Next
  <2>2. CASE UNCHANGED record  BY <2>2
  <2> QED BY <1>1, <2>1, <2>2 DEF CreateStep, Stage, RejectScreenshot, OpenLaunch, LaunchRefused, MoveFile,
                                RequestFails, Cleanup, CrashRequest, rowVars
<1>2. CASE WithdrawStep
  <2>1. CASE WithdrawCommit
    <3>1. withdrawing \in Requests /\ Life!Withdraw(withdrawing)
      BY <2>1 DEF WithdrawCommit, LaunchInv, TypeOK, Life!Withdraw, Life!Move
    <3> QED BY <3>1 DEF Life!Next
  <2>2. CASE UNCHANGED record  BY <2>2
  <2> QED BY <1>2, <2>1, <2>2 DEF WithdrawStep, WithdrawBegin, WithdrawDelete, WithdrawFails, rowVars
<1>3. ASSUME NEW q \in Requests, Triage(q) PROVE [Life!Next]_record
  BY <1>3 DEF Triage, Life!Next
<1>4. ASSUME NEW q \in Requests, Reopen(q) PROVE [Life!Next]_record
  BY <1>4 DEF Reopen, Life!Next
<1>5. CASE UNCHANGED record  BY <1>5
<1> QED BY <1>1, <1>2, <1>3, <1>4, <1>5
      DEF Next, RetentionStep, RetentionSelect, RetentionDelete, RetentionCommit, RetentionFails, FallDue,
          Expire, vars, rowVars

\* ImplementsLifecycle: intake, withdrawal and retention move a record only as the
\* contract with triage says.
THEOREM StorageKeepsLifecycle == Spec => ImplementsLifecycle
<1>1. Init => TypeOK /\ LaunchInv /\ Life!Init
  BY InitType, LaunchInit DEF Init, Life!Init
<1>2. TypeOK /\ LaunchInv /\ [Next]_vars => (TypeOK /\ LaunchInv)' /\ [Life!Next]_record
  BY NextType, LaunchNext, LifeStep
<1> QED BY <1>1, <1>2, PTL DEF Spec, ImplementsLifecycle, Life!Spec
=============================================================================
