--------------------------- MODULE FeedbackStorage ---------------------------
(***************************************************************************)
(* Raw feedback in two places that no transaction spans: PostgreSQL rows   *)
(* (the record, its payload and attachment rows, the launch it consumes)   *)
(* and screenshot files.  createFeedback stages the files and moves them   *)
(* into place inside its transaction, withdrawFeedback and the retention   *)
(* job remove them before theirs commits.                                  *)
(*                                                                         *)
(* Requests submit feedback from the same verified launch; a record is     *)
(* named by the request that created it.  Triage is reduced to the record  *)
(* states it moves through: the contract Lifecycle, which TriageQueue      *)
(* keeps.  Every await can fail, and a process can be killed at every      *)
(* await.                                                                  *)
(***************************************************************************)
EXTENDS Integers, FiniteSets

CONSTANTS
  Requests,   \* submissions of the form opened by one launch
  Jobs,       \* runs of the retention job: the daily one, or one by hand
  MaxFiles,   \* screenshots in one submission
  MaxFaults,  \* bound: awaits that fail and processes killed
  None

ASSUME StorageAssumption ==
  /\ None \notin Requests
  /\ MaxFiles \in Nat
  /\ MaxFaults \in Nat

VARIABLES
  launch,      \* launch_sessions: consumed_at, expires_at
  launchLock,  \* request whose transaction holds the launch row
  record,      \* feedback_records.state
  raw,         \* raw_deleted_at is null, the payload and attachment rows are live
  rejected,    \* a unit of the record is not TERMINAL and never will be
  due,         \* raw_delete_after has passed
  file,        \* where each screenshot's bytes are
  prepared,    \* number of staged screenshots the request knows of
  pc,          \* where each request is
  withdrawing, \* record whose row a withdrawal's transaction holds
  removing,    \* record each retention job is removing
  audited,     \* audit events that say the record's content was removed
  lost,        \* requests whose commit was done and reported as failed (history)
  leaked,      \* requests killed or cut short, files and all (history)
  faults

requestVars == <<launch, launchLock, prepared, pc>>
rowVars     == <<record, raw, rejected, due, audited>>
jobVars     == <<withdrawing, removing>>
historyVars == <<lost, leaked>>
vars == <<requestVars, rowVars, file, jobVars, historyVars, faults>>

Life == INSTANCE Lifecycle WITH Records <- Requests, phase <- record

Screenshots == 1..MaxFiles
RecordState == Life!Phases
Running == {"stage", "move", "cleanup"}

TypeOK ==
  /\ launch \in {"open", "expired", "consumed"}
  /\ launchLock \in Requests \cup {None}
  /\ record \in [Requests -> RecordState]
  /\ raw \in [Requests -> BOOLEAN]
  /\ rejected \in [Requests -> BOOLEAN]
  /\ due \in [Requests -> BOOLEAN]
  /\ file \in [Requests -> [Screenshots -> {"none", "staged", "stored"}]]
  /\ prepared \in [Requests -> 0..MaxFiles]
  /\ pc \in [Requests -> Running \cup {"answered", "failed"}]
  /\ withdrawing \in Requests \cup {None}
  /\ removing \in [Jobs -> Requests \cup {None}]
  /\ audited \in [Requests -> Nat]
  /\ lost \in SUBSET Requests
  /\ leaked \in SUBSET Requests
  /\ faults \in 0..MaxFaults

Init ==
  /\ launch = "open" /\ launchLock = None
  /\ record = [q \in Requests |-> "ABSENT"]
  /\ raw = [q \in Requests |-> FALSE]
  /\ rejected = [q \in Requests |-> FALSE]
  /\ due = [q \in Requests |-> FALSE]
  /\ file = [q \in Requests |-> [i \in Screenshots |-> "none"]]
  /\ prepared = [q \in Requests |-> 0]
  /\ pc = [q \in Requests |-> "stage"]
  /\ withdrawing = None
  /\ removing = [j \in Jobs |-> None]
  /\ audited = [q \in Requests |-> 0]
  /\ lost = {} /\ leaked = {}
  /\ faults = 0

-----------------------------------------------------------------------------
Goto(q, point) == pc' = [pc EXCEPT ![q] = point]
SpendFault == faults < MaxFaults /\ faults' = faults + 1
SetFile(q, i, place) == file' = [file EXCEPT ![q][i] = place]
Unlock(q) == launchLock' = IF launchLock = q THEN None ELSE launchLock
Stored(q) == {i \in Screenshots : file[q][i] = "stored"}
NoFileOf(q) == Stored(q) = {}

-----------------------------------------------------------------------------
(***************************************************************************)
(* createFeedback.                                                         *)
(***************************************************************************)

\* One more screenshot is normalized, scanned and written to the staging area.
Stage(q) ==
  /\ pc[q] = "stage"
  /\ prepared[q] < MaxFiles
  /\ prepared' = [prepared EXCEPT ![q] = @ + 1]
  /\ SetFile(q, prepared[q] + 1, "staged")
  /\ UNCHANGED <<launch, launchLock, pc, rowVars, jobVars, historyVars, faults>>

\* A screenshot is invalid or rejected by the scanner.
RejectScreenshot(q) ==
  /\ pc[q] = "stage" /\ prepared[q] < MaxFiles
  /\ Goto(q, "cleanup")
  /\ UNCHANGED <<launch, launchLock, prepared, rowVars, file, jobVars, historyVars, faults>>

\* select .. for update of ls, and the inserts nobody else can see yet.
OpenLaunch(q) ==
  /\ pc[q] = "stage"
  /\ launchLock = None /\ launch = "open"
  /\ launchLock' = q
  /\ Goto(q, "move")
  /\ UNCHANGED <<launch, prepared, rowVars, file, jobVars, historyVars, faults>>

LaunchRefused(q) ==
  /\ pc[q] = "stage"
  /\ launchLock = None /\ launch # "open"
  /\ Goto(q, "cleanup")
  /\ UNCHANGED <<launch, launchLock, prepared, rowVars, file, jobVars, historyVars, faults>>

\* staged.commit, one file after the other.
MoveFile(q) ==
  /\ pc[q] = "move"
  /\ \E i \in 1..prepared[q] :
       /\ file[q][i] = "staged"
       /\ \A j \in 1..prepared[q] : j < i => file[q][j] = "stored"
       /\ SetFile(q, i, "stored")
  /\ UNCHANGED <<requestVars, rowVars, jobVars, historyVars, faults>>

\* Variant: the launch is consumed by a statement of its own, later.
CommitUnconsumed(q) ==
  /\ pc[q] = "move"
  /\ \A i \in 1..prepared[q] : file[q][i] = "stored"
  /\ record' = [record EXCEPT ![q] = "QUEUED"]
  /\ raw' = [raw EXCEPT ![q] = TRUE]
  /\ Unlock(q)
  /\ Goto(q, "answered")
  /\ UNCHANGED <<launch, prepared, rejected, due, audited, file, jobVars, historyVars, faults>>

\* The transaction commits; if that is not what the client library reports, the
\* catch block cleans up all the same.
Commit(q) ==
  /\ pc[q] = "move"
  /\ \A i \in 1..prepared[q] : file[q][i] = "stored"
  /\ launch' = "consumed"
  /\ record' = [record EXCEPT ![q] = "QUEUED"]
  /\ raw' = [raw EXCEPT ![q] = TRUE]
  /\ Unlock(q)
  /\ \/ Goto(q, "answered") /\ UNCHANGED <<lost, faults>>
     \/ Goto(q, "cleanup") /\ lost' = lost \cup {q} /\ SpendFault
  /\ UNCHANGED <<prepared, rejected, due, audited, file, jobVars, leaked>>

\* An await throws and the transaction, if it is open, rolls back.  A write to the
\* staging area that fails halfway leaves a file the request does not know of.
RequestFails(q) ==
  /\ pc[q] \in {"stage", "move"}
  /\ SpendFault
  /\ \/ UNCHANGED <<file, leaked>>
     \/ /\ pc[q] = "stage" /\ prepared[q] < MaxFiles
        /\ SetFile(q, prepared[q] + 1, "staged")
        /\ leaked' = leaked \cup {q}
  /\ Unlock(q)
  /\ Goto(q, "cleanup")
  /\ UNCHANGED <<launch, prepared, rowVars, jobVars, lost>>

\* Variant: staged files are aborted, files already moved are forgotten.
CleanupStaged(q) ==
  /\ pc[q] = "cleanup"
  /\ file' = [file EXCEPT ![q] = [i \in Screenshots |->
                IF i <= prepared[q] /\ @[i] = "staged" THEN "none" ELSE @[i]]]
  /\ Goto(q, "failed")
  /\ UNCHANGED <<launch, launchLock, prepared, rowVars, jobVars, historyVars, faults>>

\* abort and delete of every prepared file, settled whatever they return: some
\* may fail.
Cleanup(q) ==
  /\ pc[q] = "cleanup"
  /\ \E kept \in SUBSET (1..prepared[q]) :
       /\ file' = [file EXCEPT ![q] = [i \in Screenshots |->
                     IF i <= prepared[q] /\ i \notin kept THEN "none" ELSE @[i]]]
       /\ \/ kept = {} /\ UNCHANGED <<leaked, faults>>
          \/ kept # {} /\ leaked' = leaked \cup {q} /\ SpendFault
  /\ Goto(q, "failed")
  /\ UNCHANGED <<launch, launchLock, prepared, rowVars, jobVars, lost>>

\* The web process is killed: the transaction rolls back, the files stay.
CrashRequest(q) ==
  /\ pc[q] \in Running
  /\ SpendFault
  /\ leaked' = leaked \cup {q}
  /\ Unlock(q)
  /\ Goto(q, "failed")
  /\ UNCHANGED <<launch, prepared, rowVars, file, jobVars, lost>>

-----------------------------------------------------------------------------
(***************************************************************************)
(* withdrawFeedback: one transaction that holds the record's row.          *)
(***************************************************************************)
WithdrawBegin(q) ==
  /\ withdrawing = None
  /\ record[q] = "QUEUED"
  /\ withdrawing' = q
  /\ UNCHANGED <<requestVars, rowVars, file, removing, historyVars, faults>>

\* delete, and the check that the file is gone.
WithdrawDelete ==
  /\ withdrawing # None
  /\ \E i \in Stored(withdrawing) : SetFile(withdrawing, i, "none")
  /\ UNCHANGED <<requestVars, rowVars, jobVars, historyVars, faults>>

RemoveRows(q) ==
  /\ raw' = [raw EXCEPT ![q] = FALSE]
  /\ audited' = [audited EXCEPT ![q] = @ + 1]

\* Variant: the rows are deleted before the files.
WithdrawBeforeDelete ==
  /\ withdrawing # None
  /\ record' = [record EXCEPT ![withdrawing] = "WITHDRAWN"]
  /\ RemoveRows(withdrawing)
  /\ withdrawing' = None
  /\ UNCHANGED <<requestVars, rejected, due, file, removing, historyVars, faults>>

WithdrawCommit ==
  /\ withdrawing # None
  /\ NoFileOf(withdrawing)
  /\ record' = [record EXCEPT ![withdrawing] = "WITHDRAWN"]
  /\ RemoveRows(withdrawing)
  /\ withdrawing' = None
  /\ UNCHANGED <<requestVars, rejected, due, file, removing, historyVars, faults>>

\* A delete or a statement fails, or the process is killed: the rows roll back.
WithdrawFails ==
  /\ withdrawing # None
  /\ SpendFault
  /\ withdrawing' = None
  /\ UNCHANGED <<requestVars, rowVars, file, removing, historyVars>>

-----------------------------------------------------------------------------
(***************************************************************************)
(* runRetention, for one candidate at a time.                              *)
(***************************************************************************)

\* Variant: every TRIAGED record is eligible.
EligibleAnyTime(q) == record[q] = "TRIAGED" /\ raw[q]

\* What the locked re-check repeats of the selection.
Eligible(q) == record[q] = "TRIAGED" /\ raw[q] /\ due[q]

\* Variant: deleting a file that is already missing is an error.
RetentionSelectWhole(j, q) ==
  /\ removing[j] = None
  /\ Eligible(q) /\ ~rejected[q]
  /\ Cardinality(Stored(q)) = prepared[q]
  /\ removing' = [removing EXCEPT ![j] = q]
  /\ UNCHANGED <<requestVars, rowVars, file, withdrawing, historyVars, faults>>

RetentionSelect(j, q) ==
  /\ removing[j] = None
  /\ Eligible(q) /\ ~rejected[q]
  /\ removing' = [removing EXCEPT ![j] = q]
  /\ UNCHANGED <<requestVars, rowVars, file, withdrawing, historyVars, faults>>

\* In the order of their ordinals; a file that is missing already is skipped.
RetentionDelete(j) ==
  /\ removing[j] # None
  /\ \E i \in Stored(removing[j]) :
       /\ \A k \in Stored(removing[j]) : i <= k
       /\ SetFile(removing[j], i, "none")
  /\ UNCHANGED <<requestVars, rowVars, jobVars, historyVars, faults>>

\* Variant: the selection is not repeated under the row lock.
RetentionCommitUnchecked(j) ==
  /\ removing[j] # None
  /\ NoFileOf(removing[j])
  /\ RemoveRows(removing[j])
  /\ removing' = [removing EXCEPT ![j] = None]
  /\ UNCHANGED <<requestVars, record, rejected, due, file, withdrawing, historyVars, faults>>

RetentionCommit(j) ==
  /\ removing[j] # None
  /\ NoFileOf(removing[j])
  /\ \/ Eligible(removing[j]) /\ RemoveRows(removing[j])
     \/ ~Eligible(removing[j]) /\ UNCHANGED <<raw, audited>>
  /\ removing' = [removing EXCEPT ![j] = None]
  /\ UNCHANGED <<requestVars, record, rejected, due, file, withdrawing, historyVars, faults>>

\* Caught per candidate; a killed job leaves the rest for the next day.
RetentionFails(j) ==
  /\ removing[j] # None
  /\ SpendFault
  /\ removing' = [removing EXCEPT ![j] = None]
  /\ UNCHANGED <<requestVars, rowVars, file, withdrawing, historyVars>>

-----------------------------------------------------------------------------
(***************************************************************************)
(* The clock and triage.                                                   *)
(***************************************************************************)
Expire ==
  /\ launch = "open"
  /\ launch' = "expired"
  /\ UNCHANGED <<launchLock, prepared, pc, rowVars, file, jobVars, historyVars, faults>>

\* 180 days after the first completeLease.  Only of a TRIAGED record is it ever asked.
FallDue(q) ==
  /\ record[q] = "TRIAGED" /\ ~due[q]
  /\ due' = [due EXCEPT ![q] = TRUE]
  /\ UNCHANGED <<requestVars, record, raw, rejected, audited, file, jobVars, historyVars, faults>>

\* A unit that is kept for a human leaves the record in need of attention.
Rejecting(q) ==
  rejected' \in {rejected} \cup
    (IF record'[q] = "NEEDS_ATTENTION" THEN {[rejected EXCEPT ![q] = TRUE]} ELSE {})

\* Variant: triage takes the row although a withdrawal holds it.
TriageUnlocked(q) ==
  /\ Life!Work(q) \/ Life!Requeue(q)
  /\ Rejecting(q)
  /\ UNCHANGED <<requestVars, raw, due, audited, file, jobVars, historyVars, faults>>

\* Only a queued record is held by a withdrawal: leaseOldest skips the locked row,
\* and a runner that has lost its lease waits for it and then fails.  A plan for a
\* human can also be stored while the record is given up already.
Triage(q) ==
  /\ record[q] = "QUEUED" => withdrawing # q
  /\ \/ Life!Work(q) \/ Life!Requeue(q)
     \/ record[q] = "NEEDS_ATTENTION" /\ UNCHANGED record
  /\ Rejecting(q)
  /\ UNCHANGED <<requestVars, raw, due, audited, file, jobVars, historyVars, faults>>

\* The reply of completeLease is lost and retryLease follows at once, months before
\* raw_delete_after, which stays as it is.
Reopen(q) ==
  /\ Life!Reopen(q)
  /\ ~due[q]
  /\ SpendFault
  /\ UNCHANGED <<requestVars, raw, rejected, due, audited, file, jobVars, historyVars>>

-----------------------------------------------------------------------------
CreateStep(q) ==
  \/ Stage(q) \/ RejectScreenshot(q) \/ OpenLaunch(q) \/ LaunchRefused(q)
  \/ MoveFile(q) \/ Commit(q) \/ RequestFails(q) \/ Cleanup(q) \/ CrashRequest(q)

WithdrawStep == \/ \E q \in Requests : WithdrawBegin(q)
                \/ WithdrawDelete \/ WithdrawCommit \/ WithdrawFails

RetentionStep(j) == \/ \E q \in Requests : RetentionSelect(j, q)
                    \/ RetentionDelete(j) \/ RetentionCommit(j) \/ RetentionFails(j)

Next == \/ \E q \in Requests : CreateStep(q) \/ FallDue(q) \/ Triage(q) \/ Reopen(q)
        \/ \E j \in Jobs : RetentionStep(j)
        \/ WithdrawStep \/ Expire

Spec == Init /\ [][Next]_vars

\* The retention job runs every day, and days pass.
FairSpec == /\ Spec
            /\ \A j \in Jobs : WF_vars(RetentionStep(j))
            /\ \A q \in Requests : WF_vars(FallDue(q))

-----------------------------------------------------------------------------
(***************************************************************************)
(* Properties.                                                             *)
(***************************************************************************)

\* A launch is consumed exactly when one of the requests made from it has left a
\* record: a submission that fails does not burn the launch, and two that race
\* never leave two records.
LaunchMatchesRecord ==
  Cardinality({q \in Requests : record[q] # "ABSENT"}) = IF launch = "consumed" THEN 1 ELSE 0

\* FR-012, privacy guide: a record whose raw content is marked deleted --
\* withdrawn or past its retention -- has no screenshot left in storage.
RemovedMeansNoFiles ==
  \A q \in Requests : record[q] # "ABSENT" /\ ~raw[q] => NoFileOf(q)

\* FR-012: a removal is audited exactly once, in the transaction that marks it,
\* even if two runs of the job remove the same record.
RemovalAuditedOnce ==
  \A q \in Requests : audited[q] = IF record[q] # "ABSENT" /\ ~raw[q] THEN 1 ELSE 0

\* Screenshots of a submission that was refused or failed do not stay behind,
\* unless the process was killed or a file could not be unlinked.
NoStrayFile ==
  \A q \in Requests : pc[q] = "failed" /\ q \notin leaked /\ record[q] = "ABSENT" =>
    \A i \in Screenshots : file[q][i] = "none"

\* FR-011, FR-012: a stored screenshot of a record disappears only under a
\* withdrawal of the queued record or once its retention has run out.  The one
\* exception is a submission whose commit was reported as failed.
RemovedOnlyWhenDue ==
  [][\A q \in Requests, i \in Screenshots :
       record[q] # "ABSENT" /\ file[q][i] = "stored" /\ file'[q][i] # "stored" =>
         \/ record[q] = "QUEUED" /\ withdrawing = q
         \/ record[q] = "TRIAGED" /\ due[q]
         \/ q \in lost]_vars

\* FR-012: the raw content of every TRIAGED record all of whose units are TERMINAL
\* is removed in the end, whatever an earlier run of the job left half done, unless
\* a lost reply of completeLease puts the record back in the queue.
RetentionCompletes ==
  \A q \in Requests :
    record[q] = "TRIAGED" /\ ~rejected[q] ~>
      (~raw[q] /\ NoFileOf(q)) \/ record[q] = "QUEUED"

\* Intake, withdrawal and retention keep their part of the contract: a record is
\* created once, and withdrawn only from the queue, although the withdrawal has
\* looked at its state long before it commits.
ImplementsLifecycle == Life!Spec
=============================================================================
