------------------------- MODULE TriageQueueProofs -------------------------
(***************************************************************************)
(* Proofs about the triage drain, for any number of records, runners,      *)
(* attempts, units, requeues, crashes and faults.                          *)
(***************************************************************************)
EXTENDS TriageQueue, FiniteSetTheorems, TLAPS

\* The attempt leaseOldest computes is a positive number; within the budget it
\* makes a lease key.
LEMMA AttemptType ==
  ASSUME TypeOK, NEW r \in Records
  PROVE  /\ Attempt(r) \in Nat \ {0}
         /\ Attempt(r) <= MaxAttempts => <<r, generation[r], Attempt(r)>> \in LeaseId
<1> DEFINE A == {a \in 1..MaxAttempts+1 : lease[<<r, generation[r], a>>] # "NONE"}
<1>1. MaxAttempts \in Nat BY BoundsAssumption
<1>2. IsFiniteSet(1..MaxAttempts+1) BY <1>1, FS_Interval
<1>3. Cardinality(A) \in Nat BY <1>2, FS_Subset, FS_CardinalityType
<1>4. Attempt(r) = Cardinality(A) + 1 BY DEF Attempt
<1>5. generation[r] \in Generations BY DEF TypeOK
<1> HIDE DEF A
<1> QED BY <1>1, <1>3, <1>4, <1>5 DEF LeaseId

-----------------------------------------------------------------------------
(***************************************************************************)
(* Type correctness.                                                       *)
(***************************************************************************)
LEMMA InitType == Init => TypeOK
<1> SUFFICES ASSUME Init PROVE TypeOK
  OBVIOUS
<1> USE DEF Init
<1>1. state \in [Records -> Unsettled \cup Settled \cup {"ABSENT"}]
  OBVIOUS
<1>2. generation \in [Records -> Generations]
  BY BoundsAssumption DEF Generations
<1>3. lease \in [LeaseId -> LeaseState] /\ decision \in [DecisionId -> DecisionState]
  BY DEF LeaseState, DecisionState
<1>4. pc \in [Runners -> ProgramPoint] /\ stop \in [Runners -> StopReason]
  BY DEF ProgramPoint, StopReason
<1>5. crashes \in 0..MaxCrashes /\ faults \in 0..MaxFaults
  BY BoundsAssumption
<1> QED BY <1>1, <1>2, <1>3, <1>4, <1>5 DEF TypeOK

LEMMA SpendFaultType ==
  ASSUME TypeOK, SpendFault
  PROVE  faults' \in 0..MaxFaults
BY BoundsAssumption DEF TypeOK, SpendFault

LEMMA BatchStepType ==
  ASSUME TypeOK, NEW p \in Runners, BatchStep(p)
  PROVE  TypeOK'
<1> USE DEF TypeOK, Goto, recordVars, planVars, faultVars, ProgramPoint, Draining
<1>1. CASE StartRun(p) BY <1>1 DEF StartRun
<1>2. CASE RecoverExpired(p)
  <2>1. lease' \in [LeaseId -> LeaseState]
    BY <1>2 DEF RecoverExpired, LeaseState
  <2>2. state' \in [Records -> Unsettled \cup Settled \cup {"ABSENT"}]
    BY <1>2 DEF RecoverExpired, Unsettled, Settled
  <2> QED BY <1>2, <2>1, <2>2 DEF RecoverExpired
<1>3. CASE StartBatch(p)
  <2>1. faults' \in 0..MaxFaults BY <1>3, SpendFaultType DEF StartBatch
  <2> QED BY <1>3, <2>1 DEF StartBatch
<1>4. CASE AlreadyRunning(p) BY <1>4 DEF AlreadyRunning
<1>5. CASE CheckPause(p) BY <1>5 DEF CheckPause, StopReason
<1>6. CASE FinishBatch(p) BY <1>6 DEF FinishBatch, StopReason
<1> QED BY <1>1, <1>2, <1>3, <1>4, <1>5, <1>6 DEF BatchStep

LEMMA LeaseStepType ==
  ASSUME TypeOK, NEW p \in Runners, LeaseStep(p)
  PROVE  TypeOK'
<1> USE DEF TypeOK, Goto, recordVars, planVars, faultVars, ProgramPoint, Draining, Working, Processing
<1>1. CASE NothingToLease(p) BY <1>1 DEF NothingToLease
<1>2. CASE LeaseExhausted(p) BY <1>2 DEF LeaseExhausted, SetState, Settled, Queued
<1>3. CASE LeaseConflict(p) BY <1>3 DEF LeaseConflict
<1>4. CASE LeaseOldest(p)
  <2>1. PICK r \in Records :
          /\ Attempt(r) <= MaxAttempts
          /\ lease' = [lease EXCEPT ![<<r, generation[r], Attempt(r)>>] = "HELD"]
          /\ SetState(r, "LEASED")
          /\ \/ /\ held' = [held EXCEPT ![p] = <<r, generation[r], Attempt(r)>>]
                /\ Goto(p, "resume")
                /\ UNCHANGED faults
             \/ /\ SpendFault
                /\ Goto(p, "close")
                /\ UNCHANGED held
    BY <1>4 DEF LeaseOldest, Queued
  <2> DEFINE l == <<r, generation[r], Attempt(r)>>
  <2>2. l \in LeaseId BY <2>1, AttemptType
  <2> HIDE DEF l
  <2>3. lease' \in [LeaseId -> LeaseState]
    BY <2>1 DEF LeaseState, Unreleased, l
  <2>4. state' \in [Records -> Unsettled \cup Settled \cup {"ABSENT"}]
    BY <2>1 DEF SetState, Unsettled
  <2>5. held' \in [Runners -> LeaseId \cup {NoLease}]
    BY <2>1, <2>2 DEF l
  <2>6. faults' \in 0..MaxFaults
    BY <2>1, BoundsAssumption DEF SpendFault
  <2>7. pc' \in [Runners -> ProgramPoint]
    BY <2>1
  <2> QED BY <1>4, <2>3, <2>4, <2>5, <2>6, <2>7 DEF LeaseOldest
<1> QED BY <1>1, <1>2, <1>3, <1>4 DEF LeaseStep

LEMMA ProcessStepType ==
  ASSUME TypeOK, NEW p \in Runners, ProcessStep(p)
  PROVE  TypeOK'
<1> USE DEF TypeOK, Goto, Proceed, recordVars, planVars, faultVars, SetState,
            ProgramPoint, Draining, Working, Processing
<1>1. CASE ReadOutcomes(p)
  <2>1. todo' \in [Runners -> SUBSET DecisionId]
    BY <1>1 DEF ReadOutcomes, ActiveOf, DecisionsOf
  <2> QED BY <1>1, <2>1 DEF ReadOutcomes
<1>2. CASE MarkApplying(p) BY <1>2 DEF MarkApplying, Unsettled, AfterApplying
<1>3. CASE ClaimRecord(p) BY <1>3 DEF ClaimRecord, Unsettled
<1>4. CASE RecordUnavailable(p) BY <1>4 DEF RecordUnavailable
<1>5. CASE Research(p) BY <1>5 DEF Research, Unsettled
<1>6. ASSUME NEW u \in {"VALID", "INVALID"}, NEW s \in {"APPLYING", "NEEDS_ATTENTION"},
             Persist(p, u, s)
      PROVE  /\ decision' \in [DecisionId -> DecisionState]
             /\ active' \in SUBSET DecisionId
             /\ todo' \in [Runners -> SUBSET DecisionId]
             /\ state' \in [Records -> Unsettled \cup Settled \cup {"ABSENT"}]
  <2>1. PICK n \in 1..MaxRequeues+2, k \in 1..MaxUnits :
          LET r == HeldRecord(p)
              plan == {d \in DecisionId : d[1] = r /\ d[2] = n /\ d[3] <= k}
          IN  /\ decision' = [d \in DecisionId |-> IF d \in plan THEN u ELSE decision[d]]
              /\ active' = active \cup plan
              /\ todo' = [todo EXCEPT ![p] = IF u = "VALID" THEN plan ELSE @]
              /\ SetState(r, s)
    BY <1>6 DEF Persist
  <2> DEFINE plan == {d \in DecisionId : d[1] = HeldRecord(p) /\ d[2] = n /\ d[3] <= k}
  <2>2. plan \in SUBSET DecisionId OBVIOUS
  <2> HIDE DEF plan
  <2>3. /\ decision' = [d \in DecisionId |-> IF d \in plan THEN u ELSE decision[d]]
        /\ active' = active \cup plan
        /\ todo' = [todo EXCEPT ![p] = IF u = "VALID" THEN plan ELSE @]
        /\ SetState(HeldRecord(p), s)
    BY <2>1 DEF plan
  <2>4. decision' \in [DecisionId -> DecisionState] BY <2>3 DEF DecisionState
  <2>5. todo' \in [Runners -> SUBSET DecisionId] BY <2>2, <2>3
  <2>6. state' \in [Records -> Unsettled \cup Settled \cup {"ABSENT"}]
    BY <2>3 DEF Unsettled, Settled
  <2> QED BY <2>2, <2>3, <2>4, <2>5, <2>6
<1>7. CASE DecideReady(p) BY <1>6, <1>7 DEF DecideReady
<1>8. CASE DecideAttention(p) BY <1>6, <1>8 DEF DecideAttention
<1>9. CASE ApplyStart(p) BY <1>9 DEF ApplyStart, DecisionState
<1>10. CASE InvokeOutcome(p) BY <1>10 DEF InvokeOutcome
<1>11. CASE ApplyTerminal(p) BY <1>11 DEF ApplyTerminal, DecisionState, AfterApplying
<1>12. CASE RejectRecord(p) BY <1>12 DEF RejectRecord
<1>13. CASE ProcessThrows(p) BY <1>13 DEF ProcessThrows
<1> QED BY <1>1, <1>2, <1>3, <1>4, <1>5, <1>7, <1>8, <1>9, <1>10, <1>11, <1>12, <1>13
        DEF ProcessStep

LEMMA ReleasedType ==
  ASSUME TypeOK, NEW l, NEW result \in LeaseState
  PROVE  Released(l, result) \in [LeaseId -> LeaseState]
BY DEF TypeOK, Released

LEMMA ReleaseStepType ==
  ASSUME TypeOK, NEW p \in Runners, ReleaseStep(p)
  PROVE  TypeOK'
<1> USE DEF TypeOK, Goto, recordVars, planVars, faultVars, SetState, DropLease,
            ProgramPoint, Draining, Working
<1>a. {"COMPLETED", "RETRYABLE", "NEEDS_ATTENTION"} \subseteq LeaseState BY DEF LeaseState
<1>1. CASE HeartbeatLost(p) BY <1>1 DEF HeartbeatLost
<1>2. CASE CompleteLease(p)
  <2>1. lease' \in [LeaseId -> LeaseState] BY <1>2, <1>a, ReleasedType DEF CompleteLease
  <2>2. faults' \in 0..MaxFaults BY <1>2, SpendFaultType DEF CompleteLease
  <2> QED BY <1>2, <2>1, <2>2 DEF CompleteLease, Settled
<1>3. CASE FailLease(p)
  <2>1. lease' \in [LeaseId -> LeaseState] BY <1>3, <1>a, ReleasedType DEF FailLease
  <2>2. faults' \in 0..MaxFaults BY <1>3, SpendFaultType DEF FailLease
  <2> QED BY <1>3, <2>1, <2>2 DEF FailLease, Settled
<1>4. CASE RetryLease(p)
  <2>1. lease' \in [LeaseId -> LeaseState] BY <1>4, <1>a, ReleasedType DEF RetryLease
  <2>2. faults' \in 0..MaxFaults BY <1>4, SpendFaultType DEF RetryLease
  <2> QED BY <1>4, <2>1, <2>2 DEF RetryLease, Unsettled, StopReason
<1>5. CASE ReleaseRejected(p) BY <1>5 DEF ReleaseRejected
<1> QED BY <1>1, <1>2, <1>3, <1>4, <1>5 DEF ReleaseStep

LEMMA OtherStepType ==
  ASSUME TypeOK,
         \/ \E p \in Runners : DrainThrows(p) \/ HeartbeatMissed(p) \/ Crash(p)
         \/ \E l \in LeaseId : Lapse(l)
         \/ WebStep
  PROVE  TypeOK'
<1> USE DEF TypeOK, Goto, recordVars, planVars, runnerVars, faultVars, SetState, DropLease,
            ProgramPoint, Draining, Working
<1>1. ASSUME NEW p \in Runners, DrainThrows(p) PROVE TypeOK'
  BY <1>1, SpendFaultType DEF DrainThrows, StopReason
<1>2. ASSUME NEW p \in Runners, HeartbeatMissed(p) PROVE TypeOK'
  BY <1>2, SpendFaultType DEF HeartbeatMissed
<1>3. ASSUME NEW p \in Runners, Crash(p) PROVE TypeOK'
  BY <1>3, BoundsAssumption DEF Crash, StopReason
<1>4. ASSUME NEW l \in LeaseId, Lapse(l) PROVE TypeOK'
  BY <1>4 DEF Lapse, LeaseState, Unreleased
<1>5. ASSUME NEW r \in Records, Submit(r) PROVE TypeOK'
  BY <1>5 DEF Submit, Unsettled
<1>6. ASSUME NEW r \in Records, Withdraw(r) PROVE TypeOK'
  BY <1>6 DEF Withdraw, Settled
<1>7. ASSUME NEW r \in Records, Requeue(r) PROVE TypeOK'
  <2>1. generation' \in [Records -> Generations]
    BY <1>7, BoundsAssumption DEF Requeue, Generations
  <2>2. active' \in SUBSET DecisionId BY <1>7 DEF Requeue
  <2> QED BY <1>7, <2>1, <2>2 DEF Requeue, Unsettled
<1>8. CASE TogglePause \/ Reconfigure BY <1>8 DEF TogglePause, Reconfigure
<1> QED BY <1>1, <1>2, <1>3, <1>4, <1>5, <1>6, <1>7, <1>8 DEF WebStep

LEMMA NextType == TypeOK /\ [Next]_vars => TypeOK'
<1> SUFFICES ASSUME TypeOK, [Next]_vars PROVE TypeOK'
  OBVIOUS
<1>1. CASE \E p \in Runners : RunnerStep(p)
  BY <1>1, BatchStepType, LeaseStepType, ProcessStepType, ReleaseStepType, OtherStepType
  DEF RunnerStep
<1>2. CASE \/ \E p \in Runners : HeartbeatMissed(p) \/ Crash(p)
           \/ \E l \in LeaseId : Lapse(l)
           \/ WebStep
  BY <1>2, OtherStepType
<1>3. CASE UNCHANGED vars
  BY <1>3 DEF TypeOK, vars, recordVars, planVars, runnerVars, faultVars
<1> QED BY <1>1, <1>2, <1>3 DEF Next

\* Every variable keeps its type in every reachable state.
THEOREM TypeCorrect == Spec => []TypeOK
BY InitType, NextType, PTL DEF Spec

-----------------------------------------------------------------------------
(***************************************************************************)
(* Mutual exclusion of the drain loop.  The database only promises one     *)
(* RUNNING row; that at most one process is in the loop follows because a  *)
(* process in the loop owns that row, and keeps it until it leaves.        *)
(***************************************************************************)
DrainerOwnsBatch == \A p \in Runners : pc[p] \in Draining => running = p

LEMMA OwnerType == TypeOK /\ DrainerOwnsBatch => OneDrainer
BY DEF DrainerOwnsBatch, OneDrainer

LEMMA DrainerInit == Init => DrainerOwnsBatch
BY DEF Init, DrainerOwnsBatch, Draining, Working, Processing

LEMMA DrainerNext == TypeOK /\ DrainerOwnsBatch /\ [Next]_vars => DrainerOwnsBatch'
<1> SUFFICES ASSUME TypeOK, DrainerOwnsBatch, [Next]_vars,
                    NEW q \in Runners, pc'[q] \in Draining
             PROVE  running' = q
  BY DEF DrainerOwnsBatch
<1> USE DEF DrainerOwnsBatch, TypeOK, Draining, Working, Processing, Goto, Proceed,
            recordVars, planVars, runnerVars, faultVars
<1>1. ASSUME NEW p \in Runners, BatchStep(p) PROVE running' = q
  <2>1. CASE StartRun(p) BY <2>1 DEF StartRun
  <2>2. CASE RecoverExpired(p) BY <2>2 DEF RecoverExpired
  <2>3. CASE StartBatch(p) BY <2>3, NullAssumption DEF StartBatch
  <2>4. CASE AlreadyRunning(p) BY <2>4 DEF AlreadyRunning
  <2>5. CASE CheckPause(p) BY <2>5 DEF CheckPause
  <2>6. CASE FinishBatch(p) BY <2>6 DEF FinishBatch
  <2> QED BY <1>1, <2>1, <2>2, <2>3, <2>4, <2>5, <2>6 DEF BatchStep
<1>2. ASSUME NEW p \in Runners, LeaseStep(p) PROVE running' = q
  <2>1. pc[p] = "lease" /\ running' = running /\ \E t \in ProgramPoint : Goto(p, t)
    BY <1>2 DEF LeaseStep, NothingToLease, LeaseExhausted, LeaseConflict, LeaseOldest, ProgramPoint
  <2> QED BY <2>1
<1>3. ASSUME NEW p \in Runners, ProcessStep(p) PROVE running' = q
  <2>1. pc[p] \in Processing /\ running' = running /\ \E t \in ProgramPoint : Goto(p, t)
    BY <1>3 DEF ProcessStep, ReadOutcomes, MarkApplying, ClaimRecord, RecordUnavailable,
                Research, DecideReady, DecideAttention, ApplyStart, InvokeOutcome,
                ApplyTerminal, RejectRecord, ProcessThrows, AfterApplying, ProgramPoint
  <2> QED BY <2>1
<1>4. ASSUME NEW p \in Runners, ReleaseStep(p) PROVE running' = q
  <2>1. pc[p] \in Working /\ running' = running /\ \E t \in ProgramPoint : Goto(p, t)
    BY <1>4 DEF ReleaseStep, HeartbeatLost, CompleteLease, FailLease, RetryLease,
                ReleaseRejected, ProgramPoint
  <2> QED BY <2>1
<1>5. ASSUME NEW p \in Runners, DrainThrows(p) PROVE running' = q
  BY <1>5 DEF DrainThrows
<1>6. ASSUME NEW p \in Runners, HeartbeatMissed(p) PROVE running' = q
  BY <1>6 DEF HeartbeatMissed
<1>7. ASSUME NEW p \in Runners, Crash(p) PROVE running' = q
  BY <1>7 DEF Crash
<1>8. ASSUME NEW l \in LeaseId, Lapse(l) PROVE running' = q
  BY <1>8 DEF Lapse
<1>9. CASE WebStep
  BY <1>9 DEF WebStep, Submit, Withdraw, Requeue, TogglePause, Reconfigure
<1>10. CASE UNCHANGED vars
  BY <1>10 DEF vars
<1> QED BY <1>1, <1>2, <1>3, <1>4, <1>5, <1>6, <1>7, <1>8, <1>9, <1>10
        DEF Next, RunnerStep

\* No two runners are ever inside the drain loop together.
THEOREM DrainExclusion == Spec => []OneDrainer
<1>1. Init => TypeOK /\ DrainerOwnsBatch
  BY InitType, DrainerInit
<1>2. TypeOK /\ DrainerOwnsBatch /\ [Next]_vars => TypeOK' /\ DrainerOwnsBatch'
  BY NextType, DrainerNext
<1> QED BY <1>1, <1>2, OwnerType, PTL DEF Spec

-----------------------------------------------------------------------------
(***************************************************************************)
(* Leases.  LeaseHoldsRecord is not inductive: completeLease and           *)
(* retryLease put the record back although they release one lease only, so *)
(* the runner's lease must be the only unreleased one there is.            *)
(***************************************************************************)
WorkerHoldsLease ==
  \A p \in Runners : pc[p] \in Working =>
    /\ held[p] \in LeaseId
    /\ \A l \in LeaseId : lease[l] \in Unreleased => l = held[p]

OneUnreleased ==
  \A l, m \in LeaseId : lease[l] \in Unreleased /\ lease[m] \in Unreleased => l = m

LeaseInv == /\ TypeOK
            /\ DrainerOwnsBatch
            /\ WorkerHoldsLease
            /\ OneUnreleased
            /\ LeaseHoldsRecord

LEMMA LeaseInit == Init => WorkerHoldsLease /\ OneUnreleased /\ LeaseHoldsRecord
BY DEF Init, WorkerHoldsLease, OneUnreleased, LeaseHoldsRecord, Working, Processing, Unreleased

\* Only leaseOldest makes a lease unreleased.
LEMMA NoNewLease ==
  ASSUME LeaseInv, lease' \in [LeaseId -> LeaseState],
         \A l \in LeaseId : lease'[l] \in Unreleased => lease[l] \in Unreleased
  PROVE  OneUnreleased'
BY DEF LeaseInv, OneUnreleased

\* A step that takes no lease and leaves every working runner the lease it had
\* preserves the runners' part of the invariant.
LEMMA WorkerUnchanged ==
  ASSUME LeaseInv,
         \A l \in LeaseId : lease'[l] \in Unreleased => lease[l] \in Unreleased,
         \A q \in Runners : pc'[q] \in Working => pc[q] \in Working /\ held'[q] = held[q]
  PROVE  WorkerHoldsLease'
BY DEF LeaseInv, WorkerHoldsLease

\* The state of a record whose lease is unreleased may only move inside
\* InProgress \cup {"NEEDS_ATTENTION"}.
LEMMA RecordUnchanged ==
  ASSUME LeaseInv,
         \A l \in LeaseId : lease'[l] \in Unreleased => lease[l] \in Unreleased,
         \A l \in LeaseId : lease'[l] \in Unreleased =>
            \/ state'[l[1]] = state[l[1]]
            \/ state'[l[1]] \in InProgress \cup {"NEEDS_ATTENTION"}
  PROVE  LeaseHoldsRecord'
BY DEF LeaseInv, LeaseHoldsRecord

Kept == /\ WorkerHoldsLease'
        /\ OneUnreleased'
        /\ LeaseHoldsRecord'

\* The three lemmas together, in the form the cases below need.
LEMMA NoLeaseTaken ==
  ASSUME LeaseInv, TypeOK',
         \A l \in LeaseId : lease'[l] \in Unreleased => lease[l] \in Unreleased,
         \A q \in Runners : pc'[q] \in Working => pc[q] \in Working /\ held'[q] = held[q],
         \A l \in LeaseId : lease'[l] \in Unreleased =>
            \/ state'[l[1]] = state[l[1]]
            \/ state'[l[1]] \in InProgress \cup {"NEEDS_ATTENTION"}
  PROVE  Kept
<1>1. lease' \in [LeaseId -> LeaseState] BY DEF TypeOK
<1> QED BY <1>1, NoNewLease, WorkerUnchanged, RecordUnchanged DEF Kept

LEMMA BatchStepKeeps ==
  ASSUME LeaseInv, TypeOK', NEW p \in Runners, BatchStep(p)
  PROVE  Kept
<1> USE DEF LeaseInv, TypeOK, Goto, Working, Processing, recordVars
<1>1. CASE RecoverExpired(p)
  <2>1. \A l \in LeaseId : lease'[l] = IF lease[l] = "LAPSED" THEN "EXPIRED" ELSE lease[l]
    BY <1>1 DEF RecoverExpired
  <2>2. \A l \in LeaseId : lease'[l] \in Unreleased => lease'[l] = lease[l] /\ lease[l] = "HELD"
    BY <2>1 DEF Unreleased
  <2>3. ASSUME NEW l \in LeaseId, lease'[l] \in Unreleased
        PROVE  state'[l[1]] = state[l[1]]
    <3>1. ~ \E m \in LeaseId : m[1] = l[1] /\ lease[m] = "LAPSED"
      BY <2>2, <2>3 DEF OneUnreleased, Unreleased
    <3>2. l[1] \in Records BY DEF LeaseId
    <3> QED BY <1>1, <3>1, <3>2 DEF RecoverExpired
  <2> QED BY <1>1, <2>2, <2>3, NoLeaseTaken DEF RecoverExpired
<1>2. CASE StartRun(p) \/ StartBatch(p) \/ AlreadyRunning(p) \/ CheckPause(p) \/ FinishBatch(p)
  BY <1>2, NoLeaseTaken
  DEF StartRun, StartBatch, AlreadyRunning, CheckPause, FinishBatch
<1> QED BY <1>1, <1>2 DEF BatchStep

LEMMA LeaseStepKeeps ==
  ASSUME LeaseInv, TypeOK', NEW p \in Runners, LeaseStep(p)
  PROVE  Kept
<1> USE DEF LeaseInv, TypeOK, Goto, Working, Processing, recordVars, SetState
<1>1. CASE NothingToLease(p) \/ LeaseConflict(p)
  BY <1>1, NoLeaseTaken DEF NothingToLease, LeaseConflict
<1>2. CASE LeaseExhausted(p)
  BY <1>2, NoLeaseTaken DEF LeaseExhausted, Queued
<1>3. CASE LeaseOldest(p)
  <2>1. PICK r \in Records :
          /\ Attempt(r) <= MaxAttempts
          /\ lease' = [lease EXCEPT ![<<r, generation[r], Attempt(r)>>] = "HELD"]
          /\ SetState(r, "LEASED")
          /\ \/ /\ held' = [held EXCEPT ![p] = <<r, generation[r], Attempt(r)>>]
                /\ Goto(p, "resume")
             \/ /\ Goto(p, "close")
                /\ UNCHANGED held
    BY <1>3 DEF LeaseOldest, Queued
  <2> DEFINE n == <<r, generation[r], Attempt(r)>>
  <2>2. n \in LeaseId /\ n[1] = r BY <2>1, AttemptType
  <2> HIDE DEF n
  <2>3. \A l \in LeaseId : lease'[l] \in Unreleased <=> l = n
    BY <1>3, <2>1, <2>2 DEF LeaseOldest, n, Unreleased
  <2>4. OneUnreleased' BY <2>3 DEF OneUnreleased
  <2>5. LeaseHoldsRecord' BY <2>1, <2>2, <2>3 DEF LeaseHoldsRecord, InProgress
  <2>6. ASSUME NEW q \in Runners, pc'[q] \in Working
        PROVE  q = p /\ held'[q] = n
    <3>1. q = p
      BY <1>3, <2>1, <2>6 DEF DrainerOwnsBatch, Draining, LeaseOldest
    <3> QED BY <2>1, <2>6, <3>1 DEF n
  <2>7. WorkerHoldsLease' BY <2>2, <2>3, <2>6 DEF WorkerHoldsLease
  <2> QED BY <2>4, <2>5, <2>7 DEF Kept
<1> QED BY <1>1, <1>2, <1>3 DEF LeaseStep

LEMMA ProcessStepKeeps ==
  ASSUME LeaseInv, TypeOK', NEW p \in Runners, ProcessStep(p)
  PROVE  Kept
<1> USE DEF LeaseInv, TypeOK
<1>1. /\ pc[p] \in Processing
      /\ UNCHANGED <<lease, held>>
      /\ \E t \in ProgramPoint : Goto(p, t)
      /\ \/ UNCHANGED state
         \/ \E s \in InProgress \cup {"NEEDS_ATTENTION"} : SetState(HeldRecord(p), s)
  BY DEF ProcessStep, ReadOutcomes, MarkApplying, ClaimRecord, RecordUnavailable,
         Research, DecideReady, DecideAttention, Persist, ApplyStart, InvokeOutcome,
         ApplyTerminal, RejectRecord, ProcessThrows, AfterApplying, Proceed, SetState,
         ProgramPoint, Draining, Working, Processing, InProgress, recordVars, planVars
<1>2. \A q \in Runners : pc'[q] \in Working => pc[q] \in Working /\ held'[q] = held[q]
  BY <1>1 DEF Goto, Working
<1>3. ASSUME NEW l \in LeaseId
      PROVE  \/ state'[l[1]] = state[l[1]]
             \/ state'[l[1]] \in InProgress \cup {"NEEDS_ATTENTION"}
  <2>1. l[1] \in Records BY DEF LeaseId
  <2> QED BY <1>1, <2>1 DEF SetState
<1> QED BY <1>1, <1>2, <1>3, NoLeaseTaken

\* The lease a runner works on is the only unreleased one: releasing it leaves none.
LEMMA ReleaseLeavesNone ==
  ASSUME LeaseInv, NEW p \in Runners, pc[p] \in Working, NEW result \in LeaseState \ Unreleased,
         lease' = Released(held[p], result)
  PROVE  \A l \in LeaseId : lease'[l] \notin Unreleased
BY DEF LeaseInv, TypeOK, WorkerHoldsLease, Released

LEMMA ReleaseStepKeeps ==
  ASSUME LeaseInv, TypeOK', NEW p \in Runners, ReleaseStep(p)
  PROVE  Kept
<1> USE DEF LeaseInv, TypeOK, Goto, Working
<1>1. CASE HeartbeatLost(p)
  BY <1>1, NoLeaseTaken DEF HeartbeatLost, recordVars
<1>2. CASE ReleaseRejected(p)
  BY <1>2, NoLeaseTaken DEF ReleaseRejected, recordVars, DropLease, Processing
<1>3. CASE CompleteLease(p) \/ FailLease(p) \/ RetryLease(p)
  <2>1. pc[p] \in Working /\ \E result \in LeaseState \ Unreleased : lease' = Released(held[p], result)
    BY <1>3 DEF CompleteLease, FailLease, RetryLease, LeaseState, Unreleased
  <2>2. \A l \in LeaseId : lease'[l] \notin Unreleased
    BY <2>1, ReleaseLeavesNone
  <2>3. \A q \in Runners : pc'[q] \in Working => pc[q] \in Working /\ held'[q] = held[q]
    BY <1>3 DEF CompleteLease, FailLease, RetryLease, DropLease, Processing
  <2> QED BY <2>2, <2>3, NoLeaseTaken
<1> QED BY <1>1, <1>2, <1>3 DEF ReleaseStep

LEMMA OtherStepKeeps ==
  ASSUME LeaseInv, TypeOK',
         \/ \E p \in Runners : DrainThrows(p) \/ HeartbeatMissed(p) \/ Crash(p)
         \/ \E l \in LeaseId : Lapse(l)
         \/ WebStep
         \/ UNCHANGED vars
  PROVE  Kept
<1> USE DEF LeaseInv, TypeOK, Goto, recordVars, runnerVars
<1>1. ASSUME NEW p \in Runners, DrainThrows(p) PROVE Kept
  BY <1>1, NoLeaseTaken DEF DrainThrows, DropLease, Working, Processing
<1>2. ASSUME NEW p \in Runners, HeartbeatMissed(p) PROVE Kept
  BY <1>2, NoLeaseTaken DEF HeartbeatMissed
<1>3. ASSUME NEW p \in Runners, Crash(p) PROVE Kept
  BY <1>3, NoLeaseTaken DEF Crash, DropLease, Working, Processing
<1>4. ASSUME NEW l \in LeaseId, Lapse(l) PROVE Kept
  BY <1>4, NoLeaseTaken DEF Lapse, Unreleased
<1>5. ASSUME NEW r \in Records, Submit(r) \/ Withdraw(r) \/ Requeue(r) PROVE Kept
  <2>1. state[r] \in {"ABSENT", "QUEUED"} \/ UnreleasedOn(r) = {}
    BY <1>5 DEF Submit, Withdraw, Requeue
  <2>2. \A l \in LeaseId : lease[l] \in Unreleased => l[1] # r
    BY <2>1 DEF UnreleasedOn, LeaseHoldsRecord, InProgress
  <2>3. /\ UNCHANGED <<lease, pc, held>>
        /\ \A l \in LeaseId : l[1] # r => state'[l[1]] = state[l[1]]
    <3>1. /\ UNCHANGED <<lease, pc, held>>
          /\ \E s \in {"QUEUED", "WITHDRAWN"} : state' = [state EXCEPT ![r] = s]
      BY <1>5 DEF Submit, Withdraw, Requeue, SetState
    <3>2. \A l \in LeaseId : l[1] \in Records BY DEF LeaseId
    <3> QED BY <3>1, <3>2
  <2> QED BY <2>2, <2>3, NoLeaseTaken
<1>6. CASE TogglePause \/ Reconfigure
  BY <1>6, NoLeaseTaken DEF TogglePause, Reconfigure
<1>7. CASE UNCHANGED vars
  BY <1>7, NoLeaseTaken DEF vars
<1> QED BY <1>1, <1>2, <1>3, <1>4, <1>5, <1>6, <1>7 DEF WebStep

LEMMA LeaseNext == LeaseInv /\ [Next]_vars => LeaseInv'
<1> SUFFICES ASSUME LeaseInv, [Next]_vars PROVE LeaseInv'
  OBVIOUS
<1>1. TypeOK' /\ DrainerOwnsBatch' BY NextType, DrainerNext DEF LeaseInv
<1>2. Kept
  BY <1>1, BatchStepKeeps, LeaseStepKeeps, ProcessStepKeeps, ReleaseStepKeeps, OtherStepKeeps
  DEF Next, RunnerStep
<1> QED BY <1>1, <1>2 DEF LeaseInv, Kept

LEMMA LeaseInvariant == Spec => []LeaseInv
<1>1. Init => LeaseInv BY InitType, DrainerInit, LeaseInit DEF LeaseInv
<1> QED BY <1>1, LeaseNext, PTL DEF Spec

\* The record of an unreleased lease is out of reach of every other lease, of
\* withdrawal and of requeue.
THEOREM LeaseProtectsRecord == Spec => []LeaseHoldsRecord
BY LeaseInvariant, PTL DEF LeaseInv

-----------------------------------------------------------------------------
(***************************************************************************)
(* Withdrawal.  Most writes of feedback_records.state have no condition;   *)
(* what protects a tombstone is the row check, and for recovery, which     *)
(* writes without looking, that it only meets records of unreleased leases. *)
(***************************************************************************)
LEMMA WithdrawnStep ==
  ASSUME LeaseInv, [Next]_vars, NEW r \in Records, state[r] = "WITHDRAWN"
  PROVE  state'[r] = "WITHDRAWN"
<1> USE DEF LeaseInv, TypeOK, SetState, Writable, recordVars
<1>1. ASSUME NEW p \in Runners, RecoverExpired(p) PROVE state'[r] = "WITHDRAWN"
  <2>1. \A l \in LeaseId : l[1] = r => lease[l] # "LAPSED"
    BY DEF LeaseHoldsRecord, Unreleased, InProgress
  <2> QED BY <1>1, <2>1 DEF RecoverExpired
<1>2. ASSUME NEW p \in Runners, BatchStep(p), ~RecoverExpired(p) PROVE state'[r] = "WITHDRAWN"
  BY <1>2 DEF BatchStep, StartRun, StartBatch, AlreadyRunning, CheckPause, FinishBatch
<1>3. ASSUME NEW p \in Runners, LeaseStep(p) PROVE state'[r] = "WITHDRAWN"
  BY <1>3 DEF LeaseStep, NothingToLease, LeaseExhausted, LeaseConflict, LeaseOldest, Queued
<1>4. ASSUME NEW p \in Runners, ProcessStep(p) PROVE state'[r] = "WITHDRAWN"
  BY <1>4 DEF ProcessStep, ReadOutcomes, MarkApplying, ClaimRecord, RecordUnavailable,
              Research, DecideReady, DecideAttention, Persist, ApplyStart, InvokeOutcome,
              ApplyTerminal, RejectRecord, ProcessThrows
<1>5. ASSUME NEW p \in Runners, ReleaseStep(p) PROVE state'[r] = "WITHDRAWN"
  BY <1>5 DEF ReleaseStep, HeartbeatLost, CompleteLease, FailLease, RetryLease,
              ReleaseRejected, InProgress
<1>6. ASSUME NEW p \in Runners, DrainThrows(p) \/ HeartbeatMissed(p) \/ Crash(p)
      PROVE  state'[r] = "WITHDRAWN"
  BY <1>6 DEF DrainThrows, HeartbeatMissed, Crash
<1>7. ASSUME NEW l \in LeaseId, Lapse(l) PROVE state'[r] = "WITHDRAWN"
  BY <1>7 DEF Lapse
<1>8. CASE WebStep
  BY <1>8 DEF WebStep, Submit, Withdraw, Requeue, TogglePause, Reconfigure
<1>9. CASE UNCHANGED vars
  BY <1>9 DEF vars
<1> QED BY <1>1, <1>2, <1>3, <1>4, <1>5, <1>6, <1>7, <1>8, <1>9 DEF Next, RunnerStep

\* A withdrawn record stays withdrawn.
THEOREM WithdrawalIsFinal == Spec => WithdrawnIsFinal
<1>1. LeaseInv /\ [Next]_vars =>
        [\A r \in Records : state[r] = "WITHDRAWN" => state'[r] = "WITHDRAWN"]_vars
  BY WithdrawnStep
<1> QED BY <1>1, LeaseInvariant, PTL DEF Spec, WithdrawnIsFinal

-----------------------------------------------------------------------------
(***************************************************************************)
(* The retry budget.  leaseOldest counts leases to number the next one;    *)
(* the count is the next free number because the numbers have no gaps.     *)
(***************************************************************************)
LEMMA CountOfPrefix ==
  ASSUME NEW n \in Nat, NEW A \in SUBSET (1..n),
         \A a \in A : \A b \in 1..a : b \in A
  PROVE  /\ Cardinality(A) \in Nat
         /\ \A b \in 1..Cardinality(A) : b \in A
         /\ Cardinality(A) + 1 \notin A
<1>1. IsFiniteSet(1..n) BY FS_Interval
<1>2. IsFiniteSet(A) /\ Cardinality(A) \in Nat BY <1>1, FS_Subset, FS_CardinalityType
<1>3. ASSUME NEW b \in 1..Cardinality(A), b \notin A PROVE FALSE
  <2>1. A \in SUBSET (1..(b-1)) BY <1>2, <1>3
  <2> DEFINE c == b - 1
  <2>a. c \in Nat /\ c \in Int /\ 1 \in Int BY <1>2, <1>3
  <2>b. IsFiniteSet(1..c) /\ Cardinality(1..c) = IF 1 > c THEN 0 ELSE c - 1 + 1
    <3> HIDE DEF c
    <3> QED BY <2>a, FS_Interval
  <2>2. IsFiniteSet(1..(b-1)) /\ Cardinality(1..(b-1)) = b - 1
    BY <2>a, <2>b
  <2>3. Cardinality(A) <= b - 1 BY <2>1, <2>2, FS_Subset
  <2> QED BY <1>2, <2>3
<1>4. ASSUME Cardinality(A) + 1 \in A PROVE FALSE
  <2> DEFINE c == Cardinality(A) + 1
  <2>1. c \in Nat /\ 1..c \in SUBSET A BY <1>2, <1>4
  <2>2. Cardinality(1..c) = c BY <2>1, FS_Interval
  <2>3. Cardinality(1..c) <= Cardinality(A) BY <1>2, <2>1, FS_Subset
  <2> QED BY <1>2, <2>2, <2>3
<1> QED BY <1>2, <1>3, <1>4

\* The lease leaseOldest inserts is the successor of those the record has had in
\* this generation, and its key is free.
LEMMA NewLeaseIsNext ==
  ASSUME TypeOK, AttemptsAreSequential, NEW r \in Records, Attempt(r) <= MaxAttempts
  PROVE  /\ lease[<<r, generation[r], Attempt(r)>>] = "NONE"
         /\ \A a \in 1..(Attempt(r)-1) : lease[<<r, generation[r], a>>] # "NONE"
<1> DEFINE g == generation[r]
           A == {a \in 1..MaxAttempts+1 : lease[<<r, g, a>>] # "NONE"}
<1>1. MaxAttempts + 1 \in Nat BY BoundsAssumption
<1>2. g \in Generations BY DEF TypeOK
<1>3. \A a \in 1..MaxAttempts+1 : <<r, g, a>> \in LeaseId BY <1>2 DEF LeaseId
<1>4. ASSUME NEW a \in A, NEW b \in 1..a PROVE b \in A
  <2>1. lease[<<r, g, a>>] # "NONE" /\ a \in 1..MaxAttempts+1 OBVIOUS
  <2>2. lease[<<r, g, b>>] # "NONE" BY <1>3, <2>1 DEF AttemptsAreSequential
  <2> QED BY <1>1, <2>1, <2>2
<1>5. A \in SUBSET (1..MaxAttempts+1) OBVIOUS
<1> HIDE DEF A
<1>6. /\ Cardinality(A) \in Nat
      /\ \A b \in 1..Cardinality(A) : b \in A
      /\ Cardinality(A) + 1 \notin A
  BY <1>1, <1>4, <1>5, CountOfPrefix
<1>7. Attempt(r) = Cardinality(A) + 1 BY DEF Attempt, A
<1>8. Attempt(r) \in 1..MaxAttempts+1
  <2> HIDE DEF Attempt
  <2>1. Attempt(r) \in Nat /\ Attempt(r) >= 1 BY <1>6, <1>7
  <2>2. Attempt(r) <= MaxAttempts OBVIOUS
  <2> QED BY <2>1, <2>2, BoundsAssumption
<1>9. lease[<<r, g, Attempt(r)>>] = "NONE" BY <1>6, <1>7, <1>8 DEF A
<1>10. \A a \in 1..(Attempt(r)-1) : lease[<<r, g, a>>] # "NONE" BY <1>6, <1>7 DEF A
<1> QED BY <1>9, <1>10

\* What any step does to the lease rows: leaseOldest fills one free row, every
\* other step leaves a row as it is or changes an unreleased one.
RowsKept == \A l \in LeaseId : \/ lease'[l] = lease[l]
                               \/ lease[l] \in Unreleased /\ lease'[l] # "NONE"

LEMMA LeaseRows ==
  ASSUME TypeOK, [Next]_vars, \A p \in Runners : ~LeaseOldest(p)
  PROVE  RowsKept
<1> USE DEF TypeOK, RowsKept, Unreleased, recordVars, planVars, runnerVars
<1>1. ASSUME NEW p \in Runners, BatchStep(p) PROVE RowsKept
  BY <1>1 DEF BatchStep, StartRun, RecoverExpired, StartBatch, AlreadyRunning,
              CheckPause, FinishBatch
<1>2. ASSUME NEW p \in Runners, LeaseStep(p) PROVE RowsKept
  BY <1>2 DEF LeaseStep, NothingToLease, LeaseExhausted, LeaseConflict
<1>3. ASSUME NEW p \in Runners, ProcessStep(p) PROVE RowsKept
  BY <1>3 DEF ProcessStep, ReadOutcomes, MarkApplying, ClaimRecord, RecordUnavailable,
              Research, DecideReady, DecideAttention, ApplyStart, InvokeOutcome,
              ApplyTerminal, RejectRecord, ProcessThrows
<1>4. ASSUME NEW p \in Runners, ReleaseStep(p) PROVE RowsKept
  BY <1>4 DEF ReleaseStep, HeartbeatLost, CompleteLease, FailLease, RetryLease,
              ReleaseRejected, Released
<1>5. ASSUME NEW p \in Runners, DrainThrows(p) \/ HeartbeatMissed(p) \/ Crash(p)
      PROVE  RowsKept
  BY <1>5 DEF DrainThrows, HeartbeatMissed, Crash
<1>6. ASSUME NEW l \in LeaseId, Lapse(l) PROVE RowsKept
  BY <1>6 DEF Lapse
<1>7. CASE WebStep
  BY <1>7 DEF WebStep, Submit, Withdraw, Requeue, TogglePause, Reconfigure
<1>8. CASE UNCHANGED vars
  BY <1>8 DEF vars
<1> QED BY <1>1, <1>2, <1>3, <1>4, <1>5, <1>6, <1>7, <1>8 DEF Next, RunnerStep

LEMMA AttemptsNext ==
  ASSUME TypeOK, TypeOK', AttemptsAreSequential, [Next]_vars
  PROVE  AttemptsAreSequential'
<1>1. CASE \A p \in Runners : ~LeaseOldest(p)
  <2>1. RowsKept BY <1>1, LeaseRows
  <2>2. \A l \in LeaseId : lease'[l] # "NONE" <=> lease[l] # "NONE"
    BY <2>1 DEF RowsKept, Unreleased
  <2>3. ASSUME NEW l \in LeaseId, lease'[l] # "NONE"
        PROVE  /\ l[3] <= MaxAttempts
               /\ \A a \in 1..l[3] : lease'[<<l[1], l[2], a>>] # "NONE"
    <3>1. lease[l] # "NONE" BY <2>2, <2>3
    <3>2. l[3] <= MaxAttempts /\ \A a \in 1..l[3] : lease[<<l[1], l[2], a>>] # "NONE"
      BY <3>1 DEF AttemptsAreSequential
    <3>3. \A a \in 1..l[3] : <<l[1], l[2], a>> \in LeaseId
      BY BoundsAssumption, <3>2 DEF LeaseId
    <3> QED BY <2>2, <3>2, <3>3
  <2> QED BY <2>3 DEF AttemptsAreSequential
<1>2. ASSUME NEW p \in Runners, LeaseOldest(p) PROVE AttemptsAreSequential'
  <2>1. PICK r \in Records :
          /\ Attempt(r) <= MaxAttempts
          /\ lease' = [lease EXCEPT ![<<r, generation[r], Attempt(r)>>] = "HELD"]
    BY <1>2 DEF LeaseOldest, Queued
  <2> DEFINE k == Attempt(r)
             g == generation[r]
  <2>2. k \in Nat \ {0} /\ <<r, g, k>> \in LeaseId BY <2>1, AttemptType
  <2>3. \A a \in 1..(k-1) : lease[<<r, g, a>>] # "NONE" BY <2>1, NewLeaseIsNext
  <2> HIDE DEF k, g
  <2>4. lease' = [lease EXCEPT ![<<r, g, k>>] = "HELD"] BY <2>1 DEF k, g
  <2>5. \A l \in LeaseId : lease[l] # "NONE" => lease'[l] # "NONE"
    BY <2>4 DEF TypeOK
  <2>6. ASSUME NEW l \in LeaseId, lease'[l] # "NONE"
        PROVE  /\ l[3] <= MaxAttempts
               /\ \A a \in 1..l[3] : lease'[<<l[1], l[2], a>>] # "NONE"
    <3>1. CASE l = <<r, g, k>>
      <4>1. l[1] = r /\ l[2] = g /\ l[3] = k BY <3>1
      <4>2. k <= MaxAttempts BY <2>1 DEF k
      <4>3. ASSUME NEW a \in 1..k PROVE lease'[<<r, g, a>>] # "NONE"
        <5>1. <<r, g, a>> \in LeaseId
          BY <2>2, <4>2, BoundsAssumption DEF LeaseId
        <5>2. CASE a = k BY <5>2, <5>1, <2>4 DEF TypeOK
        <5>3. CASE a # k
          <6>1. a \in 1..(k-1) BY <2>2, <5>3
          <6> QED BY <2>3, <2>5, <5>1, <6>1
        <5> QED BY <5>2, <5>3
      <4> QED BY <4>1, <4>2, <4>3
    <3>2. CASE l # <<r, g, k>>
      <4>1. lease[l] # "NONE" BY <2>4, <2>6, <3>2 DEF TypeOK
      <4>2. l[3] <= MaxAttempts /\ \A a \in 1..l[3] : lease[<<l[1], l[2], a>>] # "NONE"
        BY <4>1 DEF AttemptsAreSequential
      <4>3. \A a \in 1..l[3] : <<l[1], l[2], a>> \in LeaseId
        BY BoundsAssumption, <4>2 DEF LeaseId
      <4> QED BY <2>5, <4>2, <4>3
    <3> QED BY <3>1, <3>2
  <2> QED BY <2>6 DEF AttemptsAreSequential
<1> QED BY <1>1, <1>2

LEMMA AttemptsInvariant == Spec => [](TypeOK /\ AttemptsAreSequential)
<1>1. Init => TypeOK /\ AttemptsAreSequential
  <2>1. Init => AttemptsAreSequential BY DEF Init, AttemptsAreSequential
  <2> QED BY <2>1, InitType
<1>2. TypeOK /\ AttemptsAreSequential /\ [Next]_vars => TypeOK' /\ AttemptsAreSequential'
  BY NextType, AttemptsNext
<1> QED BY <1>1, <1>2, PTL DEF Spec

\* Within a generation the attempts are 1, 2, .. up to the budget at most.
THEOREM BoundedRetries == Spec => []AttemptsAreSequential
BY AttemptsInvariant, PTL

LEMMA ResultStep ==
  ASSUME TypeOK, AttemptsAreSequential, [Next]_vars,
         NEW l \in LeaseId, lease[l] \notin Unreleased \cup {"NONE"}
  PROVE  lease'[l] = lease[l]
<1>1. CASE \A p \in Runners : ~LeaseOldest(p)
  BY <1>1, LeaseRows DEF RowsKept
<1>2. ASSUME NEW p \in Runners, LeaseOldest(p) PROVE lease'[l] = lease[l]
  <2>1. PICK r \in Records :
          /\ Attempt(r) <= MaxAttempts
          /\ lease' = [lease EXCEPT ![<<r, generation[r], Attempt(r)>>] = "HELD"]
    BY <1>2 DEF LeaseOldest, Queued
  <2>2. lease[<<r, generation[r], Attempt(r)>>] = "NONE" BY <2>1, NewLeaseIsNext
  <2> QED BY <2>1, <2>2 DEF TypeOK
<1> QED BY <1>1, <1>2

\* A released lease row keeps its result.
THEOREM LeaseHistoryIsFinal == Spec => LeaseResultIsFinal
<1>1. TypeOK /\ AttemptsAreSequential /\ [Next]_vars =>
        [\A l \in LeaseId :
           lease[l] \notin Unreleased \cup {"NONE"} => lease'[l] = lease[l]]_vars
  BY ResultStep
<1> QED BY <1>1, AttemptsInvariant, PTL DEF Spec, LeaseResultIsFinal

-----------------------------------------------------------------------------
(***************************************************************************)
(* Plans.  None of the four properties of plans is inductive: what the      *)
(* runner in the drain loop holds must be tied to the rows of its record,   *)
(* which the web application requeues and a second runner recovers while it *)
(* is at work.  A plan is active as a whole or not at all (WholePlans), so   *)
(* the outcomes still to apply and the TERMINAL ones make up the active     *)
(* plan (Applies); and a record without an active plan has been requeued    *)
(* since its last one (SpentPlans), so it may be planned again.             *)
(***************************************************************************)
PlannedOnly == \A d \in active : decision[d] # "NONE"

WholePlans ==
  \A d \in active, e \in DecisionId :
    decision[e] # "NONE" /\ e[1] = d[1] /\ e[2] = d[2] => e \in active

SpentPlans ==
  \A r \in Records : ActiveOf(r) = {} => \A d \in DecisionsOf(r) : d[2] < generation[r]

\* Before persistPlan, between the plan and its last outcome, and behind it.
Deciding == {"claim", "research", "decide"}
Applying == {"mark", "apply", "invoke", "terminal"}

Applies(outcomes, r) ==
  /\ DecisionsOf(r) # {}
  /\ outcomes \subseteq ActiveOf(r)
  /\ \A d \in outcomes : decision[d] \in Resumable
  /\ \A d \in ActiveOf(r) : d \in outcomes \/ decision[d] = "TERMINAL"

RunnerPlan(p) ==
  /\ pc[p] \in Deciding => ActiveOf(HeldRecord(p)) = {}
  /\ pc[p] \in Applying => Applies(todo[p], HeldRecord(p))
  /\ pc[p] = "terminal" => \A d \in todo[p] : IsFirst(d, todo[p]) => d \in effects
  /\ pc[p] = "complete" => Applies({}, HeldRecord(p))
  /\ pc[p] \in Processing \cup {"complete"} => state[HeldRecord(p)] # "TRIAGED"

RowsInv ==
  /\ PlannedOnly /\ WholePlans /\ SpentPlans
  /\ TerminalIsApplied /\ OnePlanPerRequeue /\ AppliedInOrder /\ TriagedIsApplied

PlanInv == RowsInv /\ \A p \in Runners : RunnerPlan(p)

LEMMA PlanInit == Init => PlanInv
<1> SUFFICES ASSUME Init PROVE PlanInv
  OBVIOUS
<1>1. PlannedOnly /\ WholePlans
  BY DEF Init, PlannedOnly, WholePlans
<1>2. SpentPlans
  BY DEF Init, SpentPlans, DecisionsOf
<1>3. TerminalIsApplied /\ OnePlanPerRequeue /\ AppliedInOrder /\ TriagedIsApplied
  BY DEF Init, TerminalIsApplied, OnePlanPerRequeue, AppliedInOrder, TriagedIsApplied
<1>4. \A p \in Runners : RunnerPlan(p)
  BY DEF Init, RunnerPlan, Deciding, Applying, Processing
<1> QED BY <1>1, <1>2, <1>3, <1>4 DEF PlanInv, RowsInv

\* The decisions of a record read nothing but decision and active.
LEMMA SamePlans ==
  ASSUME UNCHANGED planVars, NEW r
  PROVE  DecisionsOf(r)' = DecisionsOf(r) /\ ActiveOf(r)' = ActiveOf(r)
BY DEF planVars, DecisionsOf, ActiveOf

\* A step that leaves plans and generations alone and triages no record.
LEMMA RowsStand ==
  ASSUME RowsInv, UNCHANGED <<planVars, generation>>,
         \A r \in Records : state'[r] = "TRIAGED" => state[r] = "TRIAGED"
  PROVE  RowsInv'
<1> USE SamePlans DEF RowsInv, planVars
<1>1. PlannedOnly' /\ WholePlans'
  BY DEF PlannedOnly, WholePlans
<1>2. SpentPlans'
  BY DEF SpentPlans
<1>3. TerminalIsApplied' /\ OnePlanPerRequeue' /\ AppliedInOrder'
  BY DEF TerminalIsApplied, OnePlanPerRequeue, AppliedInOrder
<1>4. TriagedIsApplied'
  BY DEF TriagedIsApplied
<1> QED BY <1>1, <1>2, <1>3, <1>4

\* A runner that stays where it is, or goes where nothing of its plan matters.
LEMMA RunnerStands ==
  ASSUME NEW p \in Runners, RunnerPlan(p), UNCHANGED planVars,
         \/ pc'[p] \notin Processing \cup {"complete"}
         \/ /\ pc'[p] = pc[p] /\ held'[p] = held[p] /\ todo'[p] = todo[p]
            /\ state'[HeldRecord(p)] = "TRIAGED" => state[HeldRecord(p)] = "TRIAGED"
  PROVE  RunnerPlan(p)'
<1>1. CASE pc'[p] \notin Processing \cup {"complete"}
  BY <1>1 DEF RunnerPlan, Processing, Deciding, Applying
<1>2. CASE /\ pc'[p] = pc[p] /\ held'[p] = held[p] /\ todo'[p] = todo[p]
           /\ state'[HeldRecord(p)] = "TRIAGED" => state[HeldRecord(p)] = "TRIAGED"
  <2>1. HeldRecord(p)' = HeldRecord(p)
    BY <1>2 DEF HeldRecord
  <2>2. UNCHANGED planVars /\ ActiveOf(HeldRecord(p))' = ActiveOf(HeldRecord(p))
    BY <2>1 DEF planVars, ActiveOf, DecisionsOf
  <2>3. \A s : Applies(s, HeldRecord(p)) => Applies(s, HeldRecord(p))'
    BY <2>1, <2>2 DEF planVars, Applies, ActiveOf, DecisionsOf
  <2> QED BY <1>2, <2>1, <2>2, <2>3 DEF RunnerPlan, planVars, IsFirst
<1> QED BY <1>1, <1>2

\* While one runner is in the drain loop, the others are not.
LEMMA OthersOutside ==
  ASSUME LeaseInv, NEW p \in Runners, pc[p] \in Draining, NEW q \in Runners \ {p}
  PROVE  pc[q] \notin Processing \cup {"complete"}
BY DEF LeaseInv, DrainerOwnsBatch, Draining, Working

\* What a working runner holds.
LEMMA HeldIsRecord ==
  ASSUME LeaseInv, NEW p \in Runners, pc[p] \in Working
  PROVE  HeldRecord(p) \in Records
BY DEF LeaseInv, WorkerHoldsLease, HeldRecord, LeaseId

NoneTriaged == \A r \in Records : state'[r] = "TRIAGED" => state[r] = "TRIAGED"

\* A step in which no runner moves inside processRecord.
LEMMA QuietKeepsPlans ==
  ASSUME LeaseInv, PlanInv, UNCHANGED <<planVars, generation>>, NoneTriaged,
         \A p \in Runners : \/ pc'[p] \notin Processing \cup {"complete"}
                            \/ pc'[p] = pc[p] /\ held'[p] = held[p] /\ todo'[p] = todo[p]
  PROVE  PlanInv'
<1>1. RowsInv' BY RowsStand DEF PlanInv, NoneTriaged
<1>2. ASSUME NEW p \in Runners PROVE RunnerPlan(p)'
  <2>1. CASE pc'[p] \notin Processing \cup {"complete"}
    BY <2>1, RunnerStands DEF PlanInv
  <2>2. CASE /\ pc'[p] \in Processing \cup {"complete"}
             /\ pc'[p] = pc[p] /\ held'[p] = held[p] /\ todo'[p] = todo[p]
    <3>1. HeldRecord(p) \in Records BY <2>2, HeldIsRecord DEF Working
    <3> QED BY <2>2, <3>1, RunnerStands DEF PlanInv, NoneTriaged
  <2> QED BY <2>1, <2>2
<1> QED BY <1>1, <1>2 DEF PlanInv

\* A step of the runner in the drain loop: the others have no plan.
LEMMA DrainerKeepsPlans ==
  ASSUME LeaseInv, PlanInv, NEW p \in Runners, pc[p] \in Draining,
         \A q \in Runners \ {p} : pc'[q] = pc[q],
         RowsInv', RunnerPlan(p)'
  PROVE  PlanInv'
<1>1. ASSUME NEW q \in Runners \ {p} PROVE RunnerPlan(q)'
  <2>1. pc'[q] \notin Processing \cup {"complete"} BY OthersOutside
  <2> QED BY <2>1 DEF RunnerPlan, Processing, Deciding, Applying
<1> QED BY <1>1 DEF PlanInv

LEMMA OutsideKeepsPlans ==
  ASSUME LeaseInv, PlanInv, TypeOK', NEW p \in Runners,
         \/ BatchStep(p) \/ NothingToLease(p) \/ LeaseExhausted(p) \/ LeaseConflict(p)
         \/ RecordUnavailable(p) \/ RejectRecord(p) \/ ProcessThrows(p)
         \/ HeartbeatLost(p) \/ FailLease(p) \/ RetryLease(p) \/ ReleaseRejected(p)
         \/ DrainThrows(p) \/ HeartbeatMissed(p) \/ Crash(p)
  PROVE  PlanInv'
<1> USE DEF LeaseInv, TypeOK
<1>1. UNCHANGED <<planVars, generation>>
  BY DEF BatchStep, StartRun, RecoverExpired, StartBatch, AlreadyRunning, CheckPause, FinishBatch, NothingToLease,
         LeaseExhausted, LeaseConflict, RecordUnavailable, RejectRecord, ProcessThrows, HeartbeatLost, FailLease,
         RetryLease, ReleaseRejected, DrainThrows, HeartbeatMissed, Crash, planVars, recordVars
<1>2. NoneTriaged
  <2>1. CASE BatchStep(p)
    BY <2>1 DEF BatchStep, StartRun, RecoverExpired, StartBatch, AlreadyRunning, CheckPause, FinishBatch,
                NoneTriaged, recordVars
  <2>2. CASE LeaseExhausted(p) \/ FailLease(p) \/ RetryLease(p)
    BY <2>2 DEF LeaseExhausted, FailLease, RetryLease, SetState, NoneTriaged, Queued
  <2>3. CASE \/ NothingToLease(p) \/ LeaseConflict(p) \/ RecordUnavailable(p) \/ RejectRecord(p)
             \/ ProcessThrows(p) \/ HeartbeatLost(p) \/ ReleaseRejected(p) \/ DrainThrows(p)
             \/ HeartbeatMissed(p) \/ Crash(p)
    BY <2>3 DEF NothingToLease, LeaseConflict, RecordUnavailable, RejectRecord, ProcessThrows, HeartbeatLost,
                ReleaseRejected, DrainThrows, HeartbeatMissed, Crash, NoneTriaged, recordVars
  <2> QED BY <2>1, <2>2, <2>3
<1>3. ASSUME NEW q \in Runners
      PROVE  \/ pc'[q] \notin Processing \cup {"complete"}
             \/ pc'[q] = pc[q] /\ held'[q] = held[q] /\ todo'[q] = todo[q]
  <2> USE DEF Goto, Processing, DropLease
  <2>1. CASE BatchStep(p)
    BY <2>1 DEF BatchStep, StartRun, RecoverExpired, StartBatch, AlreadyRunning, CheckPause, FinishBatch
  <2>2. CASE NothingToLease(p) \/ LeaseExhausted(p) \/ LeaseConflict(p)
    BY <2>2 DEF NothingToLease, LeaseExhausted, LeaseConflict
  <2>3. CASE RecordUnavailable(p) \/ RejectRecord(p) \/ ProcessThrows(p)
    BY <2>3 DEF RecordUnavailable, RejectRecord, ProcessThrows
  <2>4. CASE HeartbeatLost(p) \/ ReleaseRejected(p)
    BY <2>4 DEF HeartbeatLost, ReleaseRejected
  <2>5. CASE FailLease(p)
    BY <2>5 DEF FailLease
  <2>6. CASE RetryLease(p)
    BY <2>6 DEF RetryLease
  <2>7. CASE DrainThrows(p)
    BY <2>7 DEF DrainThrows
  <2>8. CASE HeartbeatMissed(p)
    BY <2>8 DEF HeartbeatMissed
  <2>9. CASE Crash(p)
    BY <2>9 DEF Crash
  <2> QED BY <2>1, <2>2, <2>3, <2>4, <2>5, <2>6, <2>7, <2>8, <2>9
<1> QED BY <1>1, <1>2, <1>3, QuietKeepsPlans

\* leaseOldest and the statements of processRecord before the plan.
LEMMA PrepareKeepsPlans ==
  ASSUME LeaseInv, PlanInv, NEW p \in Runners,
         LeaseOldest(p) \/ ReadOutcomes(p) \/ MarkApplying(p) \/ ClaimRecord(p) \/ Research(p)
  PROVE  PlanInv'
<1> DEFINE r == HeldRecord(p)
<1> USE DEF LeaseInv, TypeOK, Goto, Proceed, SetState, planVars, recordVars
<1>1. pc[p] \in Draining /\ \A q \in Runners \ {p} : pc'[q] = pc[q]
  BY DEF LeaseOldest, ReadOutcomes, MarkApplying, ClaimRecord, Research, Draining, Working, Processing
<1>2. UNCHANGED <<planVars, generation>>
  BY DEF LeaseOldest, ReadOutcomes, MarkApplying, ClaimRecord, Research
<1>3. NoneTriaged
  BY DEF LeaseOldest, ReadOutcomes, MarkApplying, ClaimRecord, Research, NoneTriaged, Queued
<1>4. RowsInv' BY <1>2, <1>3, RowsStand DEF PlanInv, NoneTriaged
<1>5. RunnerPlan(p)'
  <2>1. CASE LeaseOldest(p)
    <3>1. PICK s \in Records :
            /\ SetState(s, "LEASED")
            /\ \/ held' = [held EXCEPT ![p] = <<s, generation[s], Attempt(s)>>] /\ Goto(p, "resume")
               \/ Goto(p, "close")
      BY <2>1 DEF LeaseOldest, Queued
    <3>2. CASE Goto(p, "close")
      BY <3>2 DEF RunnerPlan, Processing, Deciding, Applying
    <3>3. CASE held' = [held EXCEPT ![p] = <<s, generation[s], Attempt(s)>>] /\ Goto(p, "resume")
      <4>1. pc'[p] = "resume" /\ HeldRecord(p)' = s /\ state'[s] = "LEASED"
        BY <3>1, <3>3 DEF HeldRecord
      <4> QED BY <4>1 DEF RunnerPlan, Deciding, Applying
    <3> QED BY <3>1, <3>2, <3>3
  <2>2. ASSUME pc[p] \in Processing, held' = held
        PROVE  /\ HeldRecord(p)' = r /\ r \in Records
               /\ DecisionsOf(r)' = DecisionsOf(r) /\ ActiveOf(r)' = ActiveOf(r)
               /\ state'[r] # "TRIAGED"
    <3>1. HeldRecord(p)' = r BY <2>2 DEF HeldRecord
    <3>2. r \in Records BY <2>2, HeldIsRecord DEF Working
    <3>3. state[r] # "TRIAGED" BY <2>2 DEF PlanInv, RunnerPlan
    <3>4. DecisionsOf(r)' = DecisionsOf(r) /\ ActiveOf(r)' = ActiveOf(r)
      BY <1>2, <3>1 DEF DecisionsOf, ActiveOf
    <3> QED BY <1>3, <3>1, <3>2, <3>3, <3>4 DEF NoneTriaged
  <2>3. \A s : Applies(s, r) => Applies(s, HeldRecord(p))' \/ held' # held \/ pc[p] \notin Processing
    <3>1. SUFFICES ASSUME NEW s, Applies(s, r), held' = held, pc[p] \in Processing
                   PROVE  Applies(s, HeldRecord(p))'
      OBVIOUS
    <3>2. HeldRecord(p)' = r BY <3>1, <2>2
    <3>3. DecisionsOf(HeldRecord(p))' = DecisionsOf(r) /\ ActiveOf(HeldRecord(p))' = ActiveOf(r)
      BY <1>2, <3>2 DEF DecisionsOf, ActiveOf
    <3> QED BY <1>2, <3>1, <3>3 DEF Applies
  <2>4. ActiveOf(r) = {} /\ held' = held /\ pc[p] \in Processing => ActiveOf(HeldRecord(p))' = {}
    <3>1. SUFFICES ASSUME ActiveOf(r) = {}, held' = held, pc[p] \in Processing
                   PROVE  ActiveOf(HeldRecord(p))' = {}
      OBVIOUS
    <3>2. HeldRecord(p)' = r BY <3>1, <2>2
    <3> QED BY <1>2, <3>1, <3>2 DEF DecisionsOf, ActiveOf
  <2>5. CASE ReadOutcomes(p)
    <3>1. pc[p] \in Processing /\ held' = held /\ pc'[p] \in {"fail", "mark", "claim"}
      BY <2>5 DEF ReadOutcomes, Processing
    <3>2. pc'[p] = "claim" => ActiveOf(r) = {}
      BY <2>5 DEF ReadOutcomes
    <3>3. ASSUME pc'[p] = "mark" PROVE Applies(todo'[p], r)
      <4>1. /\ ActiveOf(r) # {} /\ \A d \in ActiveOf(r) : decision[d] # "INVALID"
            /\ todo'[p] = {d \in ActiveOf(r) : decision[d] \in Resumable}
        BY <2>5, <3>3 DEF ReadOutcomes
      <4>2. \A d \in ActiveOf(r) : d \in DecisionId /\ decision[d] # "NONE" /\ d \in DecisionsOf(r)
        BY DEF ActiveOf, DecisionsOf
      <4>3. \A d \in ActiveOf(r) : decision[d] \in Resumable \cup {"TERMINAL"}
        BY <4>1, <4>2 DEF DecisionState, Resumable
      <4> QED BY <4>1, <4>2, <4>3 DEF Applies
    <3>4. (todo[p])' = todo'[p] OBVIOUS
    <3>5. pc'[p] = "mark" => Applies(todo[p], HeldRecord(p))'
      <4>1. SUFFICES ASSUME pc'[p] = "mark" PROVE Applies(todo[p], HeldRecord(p))'
        OBVIOUS
      <4>2. HeldRecord(p)' = r BY <2>2, <3>1
      <4>3. DecisionsOf(HeldRecord(p))' = DecisionsOf(r) /\ ActiveOf(HeldRecord(p))' = ActiveOf(r)
        BY <1>2, <4>2 DEF DecisionsOf, ActiveOf
      <4> QED BY <1>2, <3>3, <4>1, <4>3 DEF Applies
    <3> QED BY <2>2, <2>4, <3>1, <3>2, <3>5 DEF RunnerPlan, Deciding, Applying
  <2>6. CASE MarkApplying(p)
    <3>1. pc[p] \in Processing /\ held' = held /\ todo' = todo /\ Applies(todo[p], r)
      BY <2>6 DEF MarkApplying, Processing, PlanInv, RunnerPlan, Applying
    <3>2. /\ pc'[p] \in {"apply", "complete", "giveUp"}
          /\ pc'[p] = "complete" => todo[p] = {}
      BY <2>6 DEF MarkApplying, AfterApplying
    <3>3. Applies(todo[p], HeldRecord(p))'
      <4>1. HeldRecord(p)' = r BY <2>2, <3>1
      <4>2. DecisionsOf(HeldRecord(p))' = DecisionsOf(r) /\ ActiveOf(HeldRecord(p))' = ActiveOf(r)
        BY <1>2, <4>1 DEF DecisionsOf, ActiveOf
      <4> QED BY <1>2, <3>1, <4>2 DEF Applies
    <3>4. pc'[p] = "complete" => Applies({}, HeldRecord(p))'
      BY <2>3, <3>1, <3>2
    <3> QED BY <2>2, <3>1, <3>2, <3>3, <3>4 DEF RunnerPlan, Deciding, Applying
  <2>7. CASE ClaimRecord(p) \/ Research(p)
    <3>1. pc[p] \in Processing /\ held' = held /\ ActiveOf(r) = {}
      BY <2>7 DEF ClaimRecord, Research, Processing, PlanInv, RunnerPlan, Deciding
    <3>2. pc'[p] \in {"research", "decide", "giveUp"}
      BY <2>7 DEF ClaimRecord, Research
    <3> QED BY <2>2, <2>4, <3>1, <3>2 DEF RunnerPlan, Deciding, Applying
  <2> QED BY <2>1, <2>5, <2>6, <2>7
<1> QED BY <1>1, <1>4, <1>5, DrainerKeepsPlans

-----------------------------------------------------------------------------
\* The steps that write plans: persistPlan, applyOutcomes, completeLease, requeueFeedback.
LEMMA DecisionKey ==
  ASSUME NEW d \in DecisionId, NEW e \in DecisionId, d[1] = e[1], d[2] = e[2], d[3] = e[3]
  PROVE  d = e
BY DEF DecisionId

\* The outcomes still to apply are of one plan, so only one of them is the first.
LEMMA OneFirst ==
  ASSUME RowsInv, NEW r, NEW outcomes, Applies(outcomes, r),
         NEW d \in outcomes, NEW e \in outcomes, IsFirst(d, outcomes), IsFirst(e, outcomes)
  PROVE  d = e
<1>1. d \in active /\ e \in active /\ d \in DecisionId /\ e \in DecisionId /\ d[1] = r /\ e[1] = r
  BY DEF Applies, ActiveOf, DecisionsOf
<1>2. d[2] = e[2] BY <1>1 DEF RowsInv, OnePlanPerRequeue
<1>3. d[3] <= e[3] /\ e[3] <= d[3] /\ d[3] \in Int /\ e[3] \in Int
  BY <1>1, BoundsAssumption DEF IsFirst, DecisionId
<1> QED BY <1>1, <1>2, <1>3, DecisionKey

LEMMA PersistKeepsPlans ==
  ASSUME LeaseInv, PlanInv, NEW p \in Runners, DecideReady(p) \/ DecideAttention(p)
  PROVE  PlanInv'
<1> DEFINE r == HeldRecord(p)
<1> USE DEF LeaseInv, TypeOK
<1>1. /\ pc[p] = "decide" /\ \A q \in Runners \ {p} : pc'[q] = pc[q]
      /\ UNCHANGED <<generation, effects, held>>
  BY DEF DecideReady, DecideAttention, Proceed, Goto
<1>2. PICK u \in {"VALID", "INVALID"}, n \in 1..MaxRequeues+2, k \in 1..MaxUnits,
           s \in {"APPLYING", "NEEDS_ATTENTION"} :
        /\ IsNextPlan(r, n)
        /\ decision' = [d \in DecisionId |->
                         IF d \in {e \in DecisionId : e[1] = r /\ e[2] = n /\ e[3] <= k} THEN u ELSE decision[d]]
        /\ active' = active \cup {e \in DecisionId : e[1] = r /\ e[2] = n /\ e[3] <= k}
        /\ u = "VALID" => todo' = [todo EXCEPT ![p] = {e \in DecisionId : e[1] = r /\ e[2] = n /\ e[3] <= k}]
        /\ state' = [state EXCEPT ![r] = s]
        /\ IF u = "VALID" THEN pc'[p] \in {"apply", "giveUp"} ELSE pc'[p] \in {"fail", "giveUp"}
  <2>1. CASE DecideReady(p)
    BY <2>1 DEF DecideReady, Persist, SetState, Proceed, Goto
  <2>2. CASE DecideAttention(p)
    BY <2>2 DEF DecideAttention, Persist, SetState, Proceed, Goto
  <2> QED BY <2>1, <2>2
<1> DEFINE plan == {e \in DecisionId : e[1] = r /\ e[2] = n /\ e[3] <= k}
<1>3. r \in Records /\ ActiveOf(r) = {} /\ state[r] # "TRIAGED" /\ HeldRecord(p)' = r
  BY <1>1, HeldIsRecord DEF Working, Processing, PlanInv, RunnerPlan, Deciding, HeldRecord
<1>4. \A d \in DecisionsOf(r) : d[2] < n /\ d[2] < generation[r]
  BY <1>2, <1>3 DEF IsNextPlan, PlanInv, RowsInv, SpentPlans
<1>5. n <= generation[r] /\ n \in Nat
  <2>1. generation[r] \in Nat /\ generation[r] >= 1
    BY <1>3, BoundsAssumption DEF Generations
  <2>2. n = 1 \/ \E d \in DecisionsOf(r) : d[2] = n - 1
    BY <1>2 DEF IsNextPlan
  <2> QED BY <1>4, <2>1, <2>2, BoundsAssumption
<1>6. \A d \in plan : d \in DecisionId /\ d[1] = r /\ d[2] = n
  OBVIOUS
<1>7. \A d \in plan : decision[d] = "NONE" /\ d \notin effects /\ d \notin active
  <2> SUFFICES ASSUME NEW d \in plan PROVE decision[d] = "NONE" /\ d \notin effects /\ d \notin active
    OBVIOUS
  <2>1. decision[d] = "NONE"
    <3>1. d \notin DecisionsOf(r) BY <1>4, <1>5, <1>6
    <3> QED BY <1>6, <3>1 DEF DecisionsOf
  <2> QED BY <1>6, <2>1 DEF PlanInv, RowsInv, TerminalIsApplied, PlannedOnly
<1>8. /\ \A d \in DecisionId : decision'[d] = IF d \in plan THEN u ELSE decision[d]
      /\ active' = active \cup plan /\ u \in {"VALID", "INVALID"}
  BY <1>2
<1>9. <<r, n, 1>> \in plan
  <2>1. <<r, n, 1>> \in DecisionId BY <1>3, BoundsAssumption DEF DecisionId
  <2> QED BY <2>1, BoundsAssumption
<1>10. /\ DecisionsOf(r)' = DecisionsOf(r) \cup plan /\ ActiveOf(r)' = plan
       /\ \A q \in Records \ {r} : /\ {d \in DecisionId : d[1] = q /\ decision'[d] # "NONE"} = DecisionsOf(q)
                                   /\ {d \in DecisionId : d[1] = q /\ decision'[d] # "NONE"} \cap active' = ActiveOf(q)
  <2>1. {d \in DecisionId : d[1] = r /\ decision'[d] # "NONE"} = DecisionsOf(r) \cup plan
    BY <1>6, <1>8 DEF DecisionsOf
  <2>2. DecisionsOf(r)' = {d \in DecisionId : d[1] = r /\ decision'[d] # "NONE"}
    BY <1>3 DEF DecisionsOf
  <2>3. (DecisionsOf(r) \cup plan) \cap active' = plan
    BY <1>3, <1>8 DEF ActiveOf
  <2>4. ActiveOf(r)' = DecisionsOf(r)' \cap active'
    BY <1>3 DEF ActiveOf
  <2>5. ASSUME NEW q \in Records \ {r}
        PROVE  /\ {d \in DecisionId : d[1] = q /\ decision'[d] # "NONE"} = DecisionsOf(q)
               /\ {d \in DecisionId : d[1] = q /\ decision'[d] # "NONE"} \cap active' = ActiveOf(q)
    BY <1>6, <1>8 DEF DecisionsOf, ActiveOf
  <2> QED BY <2>1, <2>2, <2>3, <2>4, <2>5
<1> HIDE DEF plan
<1>11. RowsInv'
  <2> USE DEF PlanInv, RowsInv
  <2>1. PlannedOnly'
    BY <1>6, <1>8 DEF PlannedOnly
  <2>2. WholePlans'
    <3> SUFFICES ASSUME NEW d \in active', NEW e \in DecisionId, decision'[e] # "NONE", e[1] = d[1], e[2] = d[2]
                 PROVE  e \in active'
      BY DEF WholePlans
    <3>1. CASE e \in plan BY <1>8, <3>1
    <3>2. CASE e \notin plan
      <4>1. decision[e] # "NONE" BY <1>8, <3>2
      <4>2. CASE d \in plan
        <5>1. e \in DecisionsOf(r) /\ e[2] = n BY <1>6, <4>1, <4>2 DEF DecisionsOf
        <5> QED BY <1>4, <1>5, <5>1
      <4>3. CASE d \in active BY <1>8, <4>1, <4>3 DEF WholePlans
      <4> QED BY <1>8, <4>2, <4>3
    <3> QED BY <3>1, <3>2
  <2>3. SpentPlans'
    <3> SUFFICES ASSUME NEW q \in Records, ActiveOf(q)' = {}, NEW d \in DecisionsOf(q)' PROVE d[2] < generation'[q]
      BY DEF SpentPlans
    <3>1. q # r BY <1>9, <1>10 DEF ActiveOf, DecisionsOf
    <3>2. DecisionsOf(q)' = DecisionsOf(q) /\ ActiveOf(q)' = ActiveOf(q)
      BY <1>10, <3>1 DEF DecisionsOf, ActiveOf
    <3> QED BY <1>1, <3>2 DEF SpentPlans
  <2>4. TerminalIsApplied'
    BY <1>1, <1>7, <1>8 DEF TerminalIsApplied
  <2>5. OnePlanPerRequeue'
    <3>1. \A d \in DecisionId : decision'[d] # "NONE" => d[2] <= generation'[d[1]]
      BY <1>1, <1>5, <1>6, <1>8 DEF OnePlanPerRequeue
    <3>2. ASSUME NEW d \in active', NEW e \in active', d[1] = e[1] PROVE d[2] = e[2]
      <4>1. \A x \in active : x[1] # r
        BY <1>3 DEF ActiveOf, DecisionsOf, PlannedOnly
      <4>2. CASE d[1] = r
        BY <1>6, <1>8, <3>2, <4>1, <4>2
      <4>3. CASE d[1] # r
        BY <1>6, <1>8, <3>2, <4>3 DEF OnePlanPerRequeue
      <4> QED BY <4>2, <4>3
    <3> QED BY <3>1, <3>2 DEF OnePlanPerRequeue
  <2>6. AppliedInOrder'
    <3> SUFFICES ASSUME NEW d \in effects, NEW e \in DecisionId, e[1] = d[1], decision'[e] # "NONE",
                        e[2] = d[2], e[3] < d[3]
                 PROVE  decision'[e] = "TERMINAL"
      BY <1>1 DEF AppliedInOrder, DecisionsOf
    <3>1. d \in DecisionId /\ decision[d] # "NONE" BY DEF TerminalIsApplied
    <3>2. e \notin plan
      <4> SUFFICES ASSUME e \in plan PROVE FALSE
        OBVIOUS
      <4>1. d \in DecisionsOf(r) /\ d[2] = n BY <1>6, <3>1 DEF DecisionsOf
      <4> QED BY <1>4, <1>5, <4>1
    <3>3. e \in DecisionsOf(d[1]) BY <1>8, <3>2 DEF DecisionsOf
    <3>4. decision[e] = "TERMINAL" BY <3>3 DEF AppliedInOrder
    <3> QED BY <1>8, <3>2, <3>4
  <2>7. TriagedIsApplied'
    <3> SUFFICES ASSUME NEW q \in Records, state'[q] = "TRIAGED"
                 PROVE  DecisionsOf(q)' # {} /\ \A d \in ActiveOf(q)' : decision'[d] = "TERMINAL"
      BY DEF TriagedIsApplied
    <3>1. q # r /\ state[q] = "TRIAGED" BY <1>2, <1>3
    <3>2. DecisionsOf(q)' = DecisionsOf(q) /\ ActiveOf(q)' = ActiveOf(q)
      BY <1>10, <3>1 DEF DecisionsOf, ActiveOf
    <3>3. \A d \in ActiveOf(q) : d \notin plan /\ d \in DecisionId
      BY <1>6, <3>1 DEF ActiveOf, DecisionsOf
    <3> QED BY <1>8, <3>1, <3>2, <3>3 DEF TriagedIsApplied
  <2> QED BY <2>1, <2>2, <2>3, <2>4, <2>5, <2>6, <2>7
<1>12. RunnerPlan(p)'
  <2>1. CASE pc'[p] # "apply"
    BY <1>2, <2>1 DEF RunnerPlan, Processing, Deciding, Applying
  <2>2. CASE pc'[p] = "apply"
    <3>1. u = "VALID" /\ todo'[p] = plan
      BY <1>2, <2>2 DEF plan
    <3>2. Applies(todo[p], HeldRecord(p))'
      <4>1. DecisionsOf(HeldRecord(p))' = DecisionsOf(r)' /\ ActiveOf(HeldRecord(p))' = ActiveOf(r)'
        OBVIOUS
      <4>2. DecisionsOf(r)' # {} /\ ActiveOf(r)' = plan
        BY <1>9, <1>10
      <4>3. \A d \in plan : decision'[d] = "VALID"
        BY <1>6, <1>8, <3>1
      <4> QED BY <3>1, <4>1, <4>2, <4>3 DEF Applies, Resumable
    <3>3. state'[HeldRecord(p)'] # "TRIAGED"
      BY <1>2, <1>3
    <3> QED BY <2>2, <3>2, <3>3 DEF RunnerPlan, Deciding, Applying
  <2> QED BY <2>1, <2>2
<1> QED BY <1>1, <1>11, <1>12, DrainerKeepsPlans DEF Draining, Working, Processing

LEMMA ApplyKeepsPlans ==
  ASSUME LeaseInv, PlanInv, NEW p \in Runners, ApplyStart(p) \/ InvokeOutcome(p) \/ ApplyTerminal(p)
  PROVE  PlanInv'
<1> DEFINE r == HeldRecord(p)
<1> USE DEF LeaseInv, TypeOK
<1>1. /\ pc[p] \in {"apply", "invoke", "terminal"} /\ \A q \in Runners \ {p} : pc'[q] = pc[q]
      /\ UNCHANGED <<state, generation, active, held>>
  BY DEF ApplyStart, InvokeOutcome, ApplyTerminal, Proceed, Goto, recordVars
<1>2. /\ r \in Records /\ HeldRecord(p)' = r
      /\ Applies(todo[p], r) /\ state[r] # "TRIAGED"
  BY <1>1, HeldIsRecord DEF Working, Processing, PlanInv, RunnerPlan, Applying, HeldRecord
<1>3. PICK d \in todo[p] :
        /\ IsFirst(d, todo[p])
        /\ \/ /\ ApplyStart(p) /\ effects' = effects /\ todo' = todo
              /\ decision' = IF decision[d] = "VALID" THEN [decision EXCEPT ![d] = "APPLYING"] ELSE decision
              /\ pc'[p] \in {"invoke", "giveUp"}
           \/ /\ InvokeOutcome(p) /\ decision' = decision /\ todo' = todo
              /\ effects' \in {effects, effects \cup {d}}
              /\ pc'[p] \in {"fail", "backoff", "giveUp"} \/ (pc'[p] = "terminal" /\ effects' = effects \cup {d})
           \/ /\ ApplyTerminal(p) /\ pc[p] = "terminal" /\ effects' = effects
              /\ decision' = [decision EXCEPT ![d] = "TERMINAL"]
              /\ todo' = [todo EXCEPT ![p] = @ \ {d}]
              /\ pc'[p] \in {"apply", "complete", "giveUp"}
              /\ pc'[p] = "complete" => todo[p] \ {d} = {}
  BY DEF ApplyStart, InvokeOutcome, ApplyTerminal, Proceed, Goto, AfterApplying
<1>4. /\ d \in ActiveOf(r) /\ d \in active /\ d \in DecisionId /\ d[1] = r
      /\ decision[d] \in Resumable /\ decision[d] \notin {"NONE", "TERMINAL"}
  BY <1>2 DEF Applies, ActiveOf, DecisionsOf, Resumable
<1>5. \A e \in DecisionId : /\ decision'[e] # "NONE" <=> decision[e] # "NONE"
                            /\ decision[e] = "TERMINAL" => decision'[e] = "TERMINAL"
                            /\ e # d => decision'[e] = decision[e]
  BY <1>3, <1>4
<1>6. \A q : DecisionsOf(q)' = DecisionsOf(q) /\ ActiveOf(q)' = ActiveOf(q)
  BY <1>1, <1>5 DEF DecisionsOf, ActiveOf
<1>7. decision'[d] = "TERMINAL" => d \in effects'
  <2>1. CASE ApplyTerminal(p) /\ pc[p] = "terminal"
    BY <1>3, <2>1 DEF PlanInv, RunnerPlan
  <2>2. CASE ~(ApplyTerminal(p) /\ pc[p] = "terminal")
    BY <1>3, <1>4, <2>2
  <2> QED BY <2>1, <2>2
<1>8. RowsInv'
  <2> USE DEF PlanInv, RowsInv
  <2>1. PlannedOnly' /\ WholePlans'
    BY <1>1, <1>5 DEF PlannedOnly, WholePlans
  <2>2. SpentPlans'
    BY <1>1, <1>6 DEF SpentPlans
  <2>3. TerminalIsApplied'
    <3> SUFFICES ASSUME NEW e \in DecisionId
                 PROVE  /\ decision'[e] = "TERMINAL" => e \in effects'
                        /\ e \in effects' => decision'[e] # "NONE"
      BY DEF TerminalIsApplied
    <3>1. effects \subseteq effects' /\ effects' \subseteq effects \cup {d}
      BY <1>3
    <3>2. CASE e = d
      BY <1>4, <1>5, <1>7, <3>2
    <3>3. CASE e # d
      BY <1>5, <3>1, <3>3 DEF TerminalIsApplied
    <3> QED BY <3>2, <3>3
  <2>4. OnePlanPerRequeue'
    BY <1>1, <1>5 DEF OnePlanPerRequeue
  <2>5. AppliedInOrder'
    <3> SUFFICES ASSUME NEW x \in effects', NEW e \in DecisionsOf(x[1]), e[2] = x[2], e[3] < x[3]
                 PROVE  decision'[e] = "TERMINAL"
      BY <1>6 DEF AppliedInOrder
    <3>1. e \in DecisionId /\ e[1] = x[1] /\ decision[e] # "NONE" BY DEF DecisionsOf
    <3>2. CASE x \in effects
      BY <1>5, <3>1, <3>2 DEF AppliedInOrder
    <3>3. CASE x = d
      <4>1. e \in active BY <1>4, <3>1, <3>3 DEF WholePlans
      <4>2. e \in ActiveOf(r) BY <1>4, <3>1, <3>3, <4>1 DEF ActiveOf, DecisionsOf
      <4>3. e \notin todo[p]
        <5>1. e[3] \in Int /\ d[3] \in Int BY <1>4, <3>1, BoundsAssumption DEF DecisionId
        <5> QED BY <1>3, <3>3, <5>1 DEF IsFirst
      <4>4. decision[e] = "TERMINAL" BY <1>2, <4>2, <4>3 DEF Applies
      <4> QED BY <1>5, <3>1, <4>4
    <3> QED BY <1>3, <3>2, <3>3
  <2>6. TriagedIsApplied'
    <3> SUFFICES ASSUME NEW q \in Records, state[q] = "TRIAGED"
                 PROVE  DecisionsOf(q) # {} /\ \A e \in ActiveOf(q) : decision'[e] = "TERMINAL"
      BY <1>1, <1>6 DEF TriagedIsApplied
    <3>1. \A e \in ActiveOf(q) : e \in DecisionId /\ decision[e] = "TERMINAL"
      BY DEF TriagedIsApplied, ActiveOf, DecisionsOf
    <3> QED BY <1>5, <3>1 DEF TriagedIsApplied
  <2> QED BY <2>1, <2>2, <2>3, <2>4, <2>5, <2>6
<1>9. RunnerPlan(p)'
  <2>1. DecisionsOf(HeldRecord(p))' = DecisionsOf(r) /\ ActiveOf(HeldRecord(p))' = ActiveOf(r)
    BY <1>2, <1>6 DEF DecisionsOf, ActiveOf
  <2>2. state'[HeldRecord(p)'] # "TRIAGED" BY <1>1, <1>2
  <2>3. CASE pc'[p] \notin Applying \cup {"complete"}
    <3>1. pc'[p] \in {"giveUp", "fail", "backoff"} BY <1>3, <2>3 DEF Applying
    <3> QED BY <3>1 DEF RunnerPlan, Processing, Deciding, Applying
  <2>4. CASE ApplyStart(p) /\ pc'[p] \in Applying \cup {"complete"}
    <3>1. todo' = todo /\ pc'[p] = "invoke" /\ \A e \in DecisionId : decision[e] \in Resumable => decision'[e] \in Resumable
      BY <1>3, <2>4 DEF ApplyStart, InvokeOutcome, ApplyTerminal, Applying, Resumable
    <3>2. todo[p] \subseteq DecisionId BY <1>2 DEF Applies, ActiveOf, DecisionsOf
    <3>3. \A e \in ActiveOf(r) : e \in DecisionId BY DEF ActiveOf, DecisionsOf
    <3>4. Applies(todo[p], HeldRecord(p))'
      BY <1>2, <1>5, <2>1, <3>1, <3>2, <3>3 DEF Applies
    <3> QED BY <2>2, <3>1, <3>4 DEF RunnerPlan, Deciding, Applying
  <2>5. CASE InvokeOutcome(p) /\ pc'[p] \in Applying \cup {"complete"}
    <3>1. todo' = todo /\ pc'[p] = "terminal" /\ decision' = decision /\ effects' = effects \cup {d}
      BY <1>3, <2>5 DEF ApplyStart, InvokeOutcome, ApplyTerminal, Applying
    <3>2. Applies(todo[p], HeldRecord(p))'
      BY <1>2, <2>1, <3>1 DEF Applies
    <3>3. \A e \in todo[p] : IsFirst(e, todo[p]) => e = d
      BY <1>2, <1>3, OneFirst DEF PlanInv
    <3>4. \A e \in todo'[p] : IsFirst(e, todo'[p]) => e \in effects'
      BY <3>1, <3>3 DEF IsFirst
    <3> QED BY <2>2, <3>1, <3>2, <3>4 DEF RunnerPlan, Deciding, Applying, IsFirst
  <2>6. CASE ApplyTerminal(p) /\ pc'[p] \in Applying \cup {"complete"}
    <3>1. /\ todo'[p] = todo[p] \ {d} /\ pc'[p] \in {"apply", "complete"} /\ decision'[d] = "TERMINAL"
          /\ pc'[p] = "complete" => todo'[p] = {}
      BY <1>3, <1>4, <2>6 DEF ApplyStart, InvokeOutcome, ApplyTerminal, Applying
    <3>2. todo[p] \subseteq DecisionId BY <1>2 DEF Applies, ActiveOf, DecisionsOf
    <3>3. \A e \in ActiveOf(r) : e \in DecisionId BY DEF ActiveOf, DecisionsOf
    <3>4. Applies(todo[p], HeldRecord(p))'
      BY <1>2, <1>5, <2>1, <3>1, <3>2, <3>3 DEF Applies
    <3>5. pc'[p] = "complete" => Applies({}, HeldRecord(p))'
      BY <3>1, <3>4 DEF Applies
    <3> QED BY <2>2, <3>1, <3>4, <3>5 DEF RunnerPlan, Deciding, Applying
  <2> QED BY <2>3, <2>4, <2>5, <2>6
<1> QED BY <1>1, <1>8, <1>9, DrainerKeepsPlans DEF Draining, Working, Processing

\* completeLease triages the record only behind its last outcome.
LEMMA CompleteKeepsPlans ==
  ASSUME LeaseInv, PlanInv, NEW p \in Runners, CompleteLease(p)
  PROVE  PlanInv'
<1> DEFINE r == HeldRecord(p)
<1> USE DEF LeaseInv, TypeOK
<1>1. /\ pc[p] = "complete" /\ \A q \in Runners \ {p} : pc'[q] = pc[q]
      /\ UNCHANGED planVars /\ generation' = generation
      /\ pc'[p] \in {"loop", "giveUp"}
  BY DEF CompleteLease, Goto
<1>2. Applies({}, r) /\ r \in Records
  BY <1>1, HeldIsRecord DEF PlanInv, RunnerPlan, Working
<1>3. \A q \in Records : state'[q] = "TRIAGED" => q = r \/ state[q] = "TRIAGED"
  BY DEF CompleteLease
<1>4. RowsInv'
  <2> USE SamePlans DEF PlanInv, RowsInv
  <2>1. PlannedOnly' /\ WholePlans'
    BY <1>1 DEF PlannedOnly, WholePlans, planVars
  <2>2. SpentPlans'
    BY <1>1 DEF SpentPlans
  <2>3. TerminalIsApplied' /\ OnePlanPerRequeue' /\ AppliedInOrder'
    BY <1>1 DEF TerminalIsApplied, OnePlanPerRequeue, AppliedInOrder, planVars
  <2>4. TriagedIsApplied'
    BY <1>1, <1>2, <1>3 DEF TriagedIsApplied, Applies, planVars
  <2> QED BY <2>1, <2>2, <2>3, <2>4
<1>5. RunnerPlan(p)'
  BY <1>1 DEF RunnerPlan, Processing, Deciding, Applying
<1> QED BY <1>1, <1>4, <1>5, DrainerKeepsPlans DEF Draining, Working

\* requeueFeedback deactivates a plan only when none of it can be resumed, and then the new
\* generation is beyond it.
LEMMA RequeueKeepsPlans ==
  ASSUME LeaseInv, PlanInv, NEW r \in Records, Requeue(r)
  PROVE  PlanInv'
<1> USE DEF LeaseInv, TypeOK
<1>1. /\ UNCHANGED <<decision, effects, pc, held, todo>>
      /\ generation' = [generation EXCEPT ![r] = @ + 1] /\ state' = [state EXCEPT ![r] = "QUEUED"]
      /\ generation[r] \in Nat
      /\ \/ active' = active
         \/ active' = active \ ActiveOf(r) /\ \A d \in ActiveOf(r) : decision[d] \notin Resumable
  BY DEF Requeue, SetState, runnerVars, Generations
<1>2. /\ \A q : DecisionsOf(q)' = DecisionsOf(q)
      /\ \A q : ActiveOf(q)' \subseteq ActiveOf(q)
      /\ \A q \in Records \ {r} : ActiveOf(q)' = ActiveOf(q)
      /\ active' = active => \A q : ActiveOf(q)' = ActiveOf(q)
  BY <1>1 DEF DecisionsOf, ActiveOf
<1>3. RowsInv'
  <2> USE DEF PlanInv, RowsInv
  <2>1. PlannedOnly' BY <1>1 DEF PlannedOnly
  <2>2. WholePlans'
    <3> SUFFICES ASSUME NEW d \in active', NEW e \in DecisionId, decision[e] # "NONE", e[1] = d[1], e[2] = d[2]
                 PROVE  e \in active'
      BY <1>1 DEF WholePlans
    <3>1. d \in active /\ e \in active BY <1>1 DEF WholePlans
    <3>2. e \in ActiveOf(r) => d \in ActiveOf(r)
      BY <3>1 DEF ActiveOf, DecisionsOf, PlannedOnly
    <3> QED BY <1>1, <3>1, <3>2
  <2>3. SpentPlans'
    <3> SUFFICES ASSUME NEW q \in Records, ActiveOf(q)' = {}, NEW d \in DecisionsOf(q) PROVE d[2] < generation'[q]
      BY <1>2 DEF SpentPlans
    <3>1. CASE q # r BY <1>1, <1>2, <3>1 DEF SpentPlans
    <3>2. CASE q = r
      <4>1. d[2] <= generation[r] /\ d[2] \in Int
        BY <3>2, BoundsAssumption DEF OnePlanPerRequeue, DecisionsOf, DecisionId
      <4> QED BY <1>1, <3>2, <4>1
    <3> QED BY <3>1, <3>2
  <2>4. TerminalIsApplied' BY <1>1 DEF TerminalIsApplied
  <2>5. OnePlanPerRequeue'
    <3>1. \A d \in DecisionId : decision[d] # "NONE" => d[2] <= generation'[d[1]]
      <4> SUFFICES ASSUME NEW d \in DecisionId, decision[d] # "NONE" PROVE d[2] <= generation'[d[1]]
        OBVIOUS
      <4>1. d[2] <= generation[d[1]] /\ d[2] \in Int /\ d[1] \in Records
        BY BoundsAssumption DEF OnePlanPerRequeue, DecisionId
      <4>2. generation'[d[1]] = IF d[1] = r THEN generation[r] + 1 ELSE generation[d[1]]
        BY <1>1, <4>1
      <4> QED BY <1>1, <4>1, <4>2
    <3> QED BY <1>1, <3>1 DEF OnePlanPerRequeue
  <2>6. AppliedInOrder' BY <1>1, <1>2 DEF AppliedInOrder
  <2>7. TriagedIsApplied' BY <1>1, <1>2 DEF TriagedIsApplied
  <2> QED BY <2>1, <2>2, <2>3, <2>4, <2>5, <2>6, <2>7
<1>4. ASSUME NEW p \in Runners PROVE RunnerPlan(p)'
  <2> DEFINE h == HeldRecord(p)
  <2>1. h' = h BY <1>1 DEF HeldRecord
  <2>2. /\ DecisionsOf(h)' = DecisionsOf(h) /\ ActiveOf(h)' \subseteq ActiveOf(h)
        /\ h # r \/ active' = active => ActiveOf(h)' = ActiveOf(h)
        /\ h = r => ActiveOf(h)' = ActiveOf(h) \/ \A d \in ActiveOf(h) : decision[d] \notin Resumable
    BY <1>1, <2>1 DEF DecisionsOf, ActiveOf
  <2>3. pc[p] \in Applying => Applies(todo[p], h)'
    <3>1. SUFFICES ASSUME Applies(todo[p], h) PROVE Applies(todo[p], h)'
      BY DEF PlanInv, RunnerPlan
    <3>2. todo[p] \subseteq ActiveOf(h)'
      BY <2>2, <3>1 DEF Applies
    <3> QED BY <1>1, <2>2, <3>1, <3>2 DEF Applies
  <2>4. pc[p] = "complete" => Applies({}, h)'
    BY <1>1, <2>2 DEF Applies, PlanInv, RunnerPlan
  <2>5. pc[p] \in Deciding => ActiveOf(h)' = {}
    BY <2>2 DEF PlanInv, RunnerPlan
  <2>6. pc[p] \in Processing \cup {"complete"} => state'[h] # "TRIAGED"
    BY <1>1 DEF PlanInv, RunnerPlan
  <2> QED BY <1>1, <2>1, <2>3, <2>4, <2>5, <2>6 DEF PlanInv, RunnerPlan, IsFirst
<1> QED BY <1>3, <1>4 DEF PlanInv

LEMMA WebKeepsPlans ==
  ASSUME LeaseInv, PlanInv,
         \/ \E l \in LeaseId : Lapse(l)
         \/ \E r \in Records : Submit(r) \/ Withdraw(r)
         \/ TogglePause \/ Reconfigure \/ UNCHANGED vars
  PROVE  PlanInv'
<1> USE DEF LeaseInv, TypeOK
<1>1. UNCHANGED <<planVars, generation, pc, held, todo>>
  BY DEF Lapse, Submit, Withdraw, TogglePause, Reconfigure, vars, recordVars, runnerVars, planVars
<1>2. NoneTriaged
  BY DEF Lapse, Submit, Withdraw, TogglePause, Reconfigure, vars, recordVars, SetState, NoneTriaged
<1> QED BY <1>1, <1>2, QuietKeepsPlans

LEMMA PlanNext == LeaseInv /\ LeaseInv' /\ PlanInv /\ [Next]_vars => PlanInv'
<1> SUFFICES ASSUME LeaseInv, TypeOK', PlanInv, [Next]_vars PROVE PlanInv'
  BY DEF LeaseInv
<1>1. ASSUME NEW p \in Runners, RunnerStep(p) \/ HeartbeatMissed(p) \/ Crash(p) PROVE PlanInv'
  BY <1>1, OutsideKeepsPlans, PrepareKeepsPlans, PersistKeepsPlans, ApplyKeepsPlans, CompleteKeepsPlans
  DEF RunnerStep, LeaseStep, ProcessStep, ReleaseStep
<1>2. ASSUME NEW r \in Records, Requeue(r) PROVE PlanInv'
  BY <1>2, RequeueKeepsPlans
<1> QED BY <1>1, <1>2, WebKeepsPlans DEF Next, WebStep

LEMMA PlanInvariant == Spec => []PlanInv
BY PlanInit, PlanNext, LeaseInvariant, PTL DEF Spec

\* No TERMINAL decision without its GitHub mutation, and none of a decision that is not stored.
THEOREM NothingLost == Spec => []TerminalIsApplied
<1>1. PlanInv => TerminalIsApplied BY DEF PlanInv, RowsInv
<1> QED BY <1>1, PlanInvariant, PTL

\* Attempts, recoveries and retries share one plan; only a requeue makes room for another.
THEOREM OnePlan == Spec => []OnePlanPerRequeue
<1>1. PlanInv => OnePlanPerRequeue BY DEF PlanInv, RowsInv
<1> QED BY <1>1, PlanInvariant, PTL

\* Mutations reach GitHub in ordinal order, each behind TERMINAL predecessors.
THEOREM InOrder == Spec => []AppliedInOrder
<1>1. PlanInv => AppliedInOrder BY DEF PlanInv, RowsInv
<1> QED BY <1>1, PlanInvariant, PTL

\* A TRIAGED record has a plan of which nothing that counts is left.
THEOREM TriagedIsDone == Spec => []TriagedIsApplied
<1>1. PlanInv => TriagedIsApplied BY DEF PlanInv, RowsInv
<1> QED BY <1>1, PlanInvariant, PTL

-----------------------------------------------------------------------------
(***************************************************************************)
(* Ownership.  As long as no call of the drain loop is lost and no process  *)
(* is killed, a step that gives up the lease of a record, or the work on it, *)
(* takes the record out of the states in progress.                          *)
(***************************************************************************)
WorkedOn(r) == \E p \in Runners : pc[p] \in Working /\ HeldRecord(p) = r

OwnerKept(p) ==
  \/ pc'[p] \in Working /\ held'[p] = held[p]
  \/ state'[HeldRecord(p)] \notin InProgress

LeaseKept(l) == lease'[l] \in Unreleased \/ state'[l[1]] \notin InProgress

StillOwned(r) == UnreleasedOn(r)' # {} \/ WorkedOn(r)'

LEMMA OwnedStands ==
  ASSUME LeaseInv, InProgressIsOwned,
         faults' = 0 /\ crashes' = 0 => /\ faults = 0 /\ crashes = 0
                                        /\ \A p \in Runners : pc[p] \in Working => OwnerKept(p)
                                        /\ \A l \in LeaseId : lease[l] \in Unreleased => LeaseKept(l)
                                        /\ \A r \in Records : state'[r] \in InProgress =>
                                             state[r] \in InProgress \/ StillOwned(r)
  PROVE  InProgressIsOwned'
<1> SUFFICES ASSUME faults' = 0, crashes' = 0, NEW r \in Records, state'[r] \in InProgress
             PROVE  StillOwned(r)
  BY DEF InProgressIsOwned, StillOwned, WorkedOn
<1>1. CASE state[r] \notin InProgress BY <1>1
<1>2. CASE state[r] \in InProgress
  <2>1. UnreleasedOn(r) # {} \/ WorkedOn(r) BY <1>2 DEF InProgressIsOwned, WorkedOn
  <2>2. CASE UnreleasedOn(r) # {}
    <3>1. PICK l \in LeaseId : l[1] = r /\ lease[l] \in Unreleased BY <2>2 DEF UnreleasedOn
    <3>2. lease'[l] \in Unreleased BY <3>1 DEF LeaseKept
    <3> QED BY <3>1, <3>2 DEF StillOwned, UnreleasedOn
  <2>3. CASE WorkedOn(r)
    <3>1. PICK p \in Runners : pc[p] \in Working /\ HeldRecord(p) = r BY <2>3 DEF WorkedOn
    <3>2. pc'[p] \in Working /\ held'[p] = held[p] BY <3>1 DEF OwnerKept
    <3>3. HeldRecord(p)' = r BY <3>1, <3>2 DEF HeldRecord
    <3> QED BY <3>2, <3>3 DEF StillOwned, WorkedOn
  <2> QED BY <2>1, <2>2, <2>3
<1> QED BY <1>1, <1>2

\* A runner that works on a record is the only one that does.
LEMMA OnlyWorker ==
  ASSUME LeaseInv, NEW p \in Runners, pc[p] \in Draining, NEW q \in Runners, pc[q] \in Working
  PROVE  q = p
BY DEF LeaseInv, DrainerOwnsBatch, Draining

LEMMA BatchKeepsOwners ==
  ASSUME LeaseInv, InProgressIsOwned, NEW p \in Runners, BatchStep(p) \/ LeaseStep(p)
  PROVE  InProgressIsOwned'
<1> USE DEF LeaseInv, TypeOK, Goto, recordVars, planVars, faultVars
<1>1. faults' = 0 /\ crashes' = 0 => faults = 0 /\ crashes = 0
  <2>1. UNCHANGED faultVars \/ (SpendFault /\ UNCHANGED crashes)
    BY DEF BatchStep, StartRun, RecoverExpired, StartBatch, AlreadyRunning, CheckPause, FinishBatch,
           LeaseStep, NothingToLease, LeaseExhausted, LeaseConflict, LeaseOldest, SpendFault
  <2>2. faults \in Nat BY BoundsAssumption
  <2> QED BY <2>1, <2>2 DEF SpendFault
<1>2. pc[p] \notin Working
  BY DEF BatchStep, StartRun, RecoverExpired, StartBatch, AlreadyRunning, CheckPause, FinishBatch,
         LeaseStep, NothingToLease, LeaseExhausted, LeaseConflict, LeaseOldest, Working, Processing
<1>3. \A q \in Runners : pc[q] \in Working => pc'[q] = pc[q] /\ held'[q] = held[q]
  BY <1>2 DEF BatchStep, StartRun, RecoverExpired, StartBatch, AlreadyRunning, CheckPause, FinishBatch,
         LeaseStep, NothingToLease, LeaseExhausted, LeaseConflict, LeaseOldest
<1>4. CASE RecoverExpired(p)
  <2>1. \A l \in LeaseId : l[1] \in Records BY DEF LeaseId
  <2>2. \A l \in LeaseId : lease[l] \in Unreleased => LeaseKept(l)
    <3> SUFFICES ASSUME NEW l \in LeaseId, lease[l] \in Unreleased PROVE LeaseKept(l)
      OBVIOUS
    <3>1. CASE lease[l] = "HELD" BY <1>4, <3>1 DEF RecoverExpired, LeaseKept, Unreleased
    <3>2. CASE lease[l] = "LAPSED"
      <4>1. state'[l[1]] \in {"NEEDS_ATTENTION", "QUEUED"}
        BY <1>4, <2>1, <3>2 DEF RecoverExpired
      <4> QED BY <4>1 DEF LeaseKept, InProgress
    <3> QED BY <3>1, <3>2 DEF Unreleased
  <2>3. \A r \in Records : state'[r] \in InProgress => state[r] \in InProgress
    BY <1>4 DEF RecoverExpired, InProgress
  <2> QED BY <1>1, <1>3, <2>2, <2>3, OwnedStands DEF OwnerKept
<1>5. CASE BatchStep(p) /\ ~RecoverExpired(p)
  <2>1. UNCHANGED <<state, lease>>
    BY <1>5 DEF BatchStep, StartRun, StartBatch, AlreadyRunning, CheckPause, FinishBatch
  <2> QED BY <1>1, <1>3, <2>1, OwnedStands DEF OwnerKept, LeaseKept
<1>6. CASE NothingToLease(p) \/ LeaseConflict(p)
  BY <1>1, <1>3, <1>6, OwnedStands DEF NothingToLease, LeaseConflict, OwnerKept, LeaseKept
<1>7. CASE LeaseExhausted(p)
  <2>1. \A r \in Records : state'[r] \in InProgress => state[r] \in InProgress
    BY <1>7 DEF LeaseExhausted, SetState, Queued, InProgress
  <2>2. lease' = lease BY <1>7 DEF LeaseExhausted
  <2> QED BY <1>1, <1>3, <2>1, <2>2, OwnedStands DEF OwnerKept, LeaseKept
<1>8. CASE LeaseOldest(p)
  <2>1. PICK r \in Records :
          /\ Attempt(r) <= MaxAttempts
          /\ lease' = [lease EXCEPT ![<<r, generation[r], Attempt(r)>>] = "HELD"]
          /\ SetState(r, "LEASED")
    BY <1>8 DEF LeaseOldest, Queued
  <2> DEFINE n == <<r, generation[r], Attempt(r)>>
  <2>2. n \in LeaseId /\ n[1] = r BY <2>1, AttemptType
  <2> HIDE DEF n
  <2>3. lease' = [lease EXCEPT ![n] = "HELD"] BY <2>1 DEF n
  <2>4. \A l \in LeaseId : lease[l] \in Unreleased => LeaseKept(l)
    BY <2>3 DEF LeaseKept, Unreleased
  <2>5. StillOwned(r) BY <2>2, <2>3 DEF StillOwned, UnreleasedOn, Unreleased
  <2>6. \A q \in Records : state'[q] \in InProgress => state[q] \in InProgress \/ StillOwned(q)
    BY <2>1, <2>5 DEF SetState
  <2> QED BY <1>1, <1>3, <2>4, <2>6, OwnedStands DEF OwnerKept
<1> QED BY <1>4, <1>5, <1>6, <1>7, <1>8 DEF LeaseStep

LEMMA WorkKeepsOwners ==
  ASSUME LeaseInv, InProgressIsOwned, NEW p \in Runners, ProcessStep(p) \/ HeartbeatLost(p) \/ HeartbeatMissed(p)
  PROVE  InProgressIsOwned'
<1> USE DEF LeaseInv, TypeOK
<1>1. /\ pc[p] \in Working /\ pc'[p] \in Working
      /\ UNCHANGED <<lease, held>>
      /\ \A q \in Runners \ {p} : pc'[q] = pc[q]
      /\ faults' = 0 /\ crashes' = 0 => faults = 0 /\ crashes = 0
      /\ \/ UNCHANGED state
         \/ \E s \in InProgress \cup {"NEEDS_ATTENTION"} : SetState(HeldRecord(p), s)
  BY DEF ProcessStep, ReadOutcomes, MarkApplying, ClaimRecord, RecordUnavailable,
         Research, DecideReady, DecideAttention, Persist, ApplyStart, InvokeOutcome,
         ApplyTerminal, RejectRecord, ProcessThrows, AfterApplying, Proceed, SetState, Goto,
         Working, Processing, InProgress, recordVars, planVars, faultVars, HeartbeatLost, HeartbeatMissed, SpendFault
<1>2. HeldRecord(p)' = HeldRecord(p) BY <1>1 DEF HeldRecord
<1>3. ASSUME NEW r \in Records, state'[r] \in InProgress PROVE state[r] \in InProgress \/ StillOwned(r)
  <2>1. CASE r = HeldRecord(p) BY <1>1, <1>2, <2>1 DEF StillOwned, WorkedOn
  <2>2. CASE r # HeldRecord(p) BY <1>1, <1>3, <2>2 DEF SetState
  <2> QED BY <2>1, <2>2
<1> QED BY <1>1, <1>3, OwnedStands DEF OwnerKept, LeaseKept

LEMMA ReleaseKeepsOwners ==
  ASSUME LeaseInv, InProgressIsOwned, NEW p \in Runners,
         CompleteLease(p) \/ FailLease(p) \/ RetryLease(p) \/ ReleaseRejected(p)
  PROVE  InProgressIsOwned'
<1> USE DEF LeaseInv, TypeOK
<1>1. /\ pc[p] \in Working
      /\ faults' = 0 /\ crashes' = 0 => faults = 0 /\ crashes = 0
  BY DEF CompleteLease, FailLease, RetryLease, ReleaseRejected, Working, Processing, SpendFault, faultVars
<1>2. HeldRecord(p) \in Records BY <1>1, HeldIsRecord
<1>3. state'[HeldRecord(p)] \notin InProgress
  BY <1>2 DEF CompleteLease, FailLease, RetryLease, ReleaseRejected, SetState, Writable, InProgress, recordVars
<1>4. \A r \in Records : r # HeldRecord(p) => state'[r] = state[r]
  BY <1>2 DEF CompleteLease, FailLease, RetryLease, ReleaseRejected, SetState, recordVars
<1>5. \A l \in LeaseId : lease'[l] = lease[l] \/ l = held[p]
  BY DEF CompleteLease, FailLease, RetryLease, ReleaseRejected, Released
<1>6. \A l \in LeaseId : lease[l] \in Unreleased => LeaseKept(l)
  BY <1>3, <1>5 DEF LeaseKept, HeldRecord
<1>7. \A q \in Runners : pc[q] \in Working => OwnerKept(q)
  BY <1>1, <1>3, OnlyWorker DEF OwnerKept, Draining
<1>8. \A r \in Records : state'[r] \in InProgress => state[r] \in InProgress
  BY <1>3, <1>4
<1> QED BY <1>1, <1>6, <1>7, <1>8, OwnedStands

LEMMA OwnedNext == LeaseInv /\ InProgressIsOwned /\ [Next]_vars => InProgressIsOwned'
<1> SUFFICES ASSUME LeaseInv, InProgressIsOwned, [Next]_vars PROVE InProgressIsOwned'
  OBVIOUS
<1> USE DEF LeaseInv, TypeOK
<1>1. ASSUME NEW p \in Runners, RunnerStep(p) \/ HeartbeatMissed(p), ~DrainThrows(p) PROVE InProgressIsOwned'
  BY <1>1, BatchKeepsOwners, WorkKeepsOwners, ReleaseKeepsOwners DEF RunnerStep, ReleaseStep
<1>2. ASSUME NEW p \in Runners, DrainThrows(p) \/ Crash(p) PROVE InProgressIsOwned'
  <2>1. faults' # 0 \/ crashes' # 0
    BY <1>2 DEF DrainThrows, Crash, SpendFault
  <2> QED BY <2>1 DEF InProgressIsOwned
<1>3. ASSUME NEW l \in LeaseId, Lapse(l) PROVE InProgressIsOwned'
  <2>1. UNCHANGED <<state, pc, held, faults, crashes>>
    BY <1>3 DEF Lapse, recordVars, runnerVars, faultVars
  <2>2. \A m \in LeaseId : lease[m] \in Unreleased => LeaseKept(m)
    BY <1>3 DEF Lapse, LeaseKept, Unreleased
  <2> QED BY <2>1, <2>2, OwnedStands DEF OwnerKept
<1>4. CASE WebStep
  <2>1. UNCHANGED <<lease, pc, held, faults, crashes>>
    BY <1>4 DEF WebStep, Submit, Withdraw, Requeue, TogglePause, Reconfigure, runnerVars, faultVars
  <2>2. \A r \in Records : state'[r] \in InProgress => state[r] \in InProgress
    BY <1>4 DEF WebStep, Submit, Withdraw, Requeue, TogglePause, Reconfigure, SetState, InProgress, recordVars
  <2> QED BY <2>1, <2>2, OwnedStands DEF OwnerKept, LeaseKept
<1>5. CASE UNCHANGED vars
  BY <1>5, OwnedStands DEF vars, recordVars, runnerVars, faultVars, OwnerKept, LeaseKept
<1> QED BY <1>1, <1>2, <1>3, <1>4, <1>5 DEF Next

\* Until a call of the drain loop fails or a process is killed, a record in progress is under an
\* unreleased lease or in the hands of a runner (postgres-queue.ts, batch.ts).
THEOREM OwnedInProgress == Spec => []InProgressIsOwned
<1>1. Init => InProgressIsOwned
  BY DEF Init, InProgressIsOwned, InProgress
<1> QED BY <1>1, OwnedNext, LeaseInvariant, PTL DEF Spec

-----------------------------------------------------------------------------
(***************************************************************************)
(* The states of records.  Most writes of feedback_records.state have no   *)
(* condition, so what moves a record can make depends on where its runner  *)
(* is: Parting says what a runner knows of the record when it comes to     *)
(* release it, StateMoves lists the moves there are.                        *)
(***************************************************************************)
Parting(p) ==
  /\ pc[p] \in {"fail", "backoff"} => state[HeldRecord(p)] # "TRIAGED"
  /\ pc[p] = "giveUp" /\ state[HeldRecord(p)] = "TRIAGED" => faults > 0
  /\ pc[p] \in Working => state[HeldRecord(p)] # "ABSENT"

PartingInv == LeaseInv /\ PlanInv /\ \A p \in Runners : Parting(p)

\* What triage works on, or may work on again.
Pending == InProgress \cup {"QUEUED", "NEEDS_ATTENTION"}

Legal(r, s) ==
  \/ s = state[r]
  \/ state[r] = "ABSENT" /\ s = "QUEUED"
  \/ state[r] = "QUEUED" /\ s = "WITHDRAWN"
  \/ state[r] \in Pending /\ s \in Pending
  \/ state[r] \in InProgress /\ s = "TRIAGED"
  \/ state[r] = "TRIAGED" /\ s = "QUEUED" /\ faults > 0

OneMove == \E r \in Records, s \in Unsettled \cup Settled : Legal(r, s) /\ SetState(r, s)

\* Inside processRecord, and until completeLease, the record is not TRIAGED.
LEMMA WorkedRecord ==
  ASSUME PartingInv, NEW p \in Runners, pc[p] \in Working
  PROVE  /\ HeldRecord(p) \in Records
         /\ state[HeldRecord(p)] \in Unsettled \cup Settled
         /\ state[HeldRecord(p)] = "TRIAGED" => pc[p] = "giveUp" /\ faults > 0
<1>1. HeldRecord(p) \in Records /\ TypeOK BY HeldIsRecord DEF PartingInv, LeaseInv
<1>2. state[HeldRecord(p)] = "TRIAGED" => pc[p] = "giveUp" /\ faults > 0
  BY DEF PartingInv, Parting, PlanInv, RunnerPlan, Working
<1>3. state[HeldRecord(p)] # "ABSENT"
  BY DEF PartingInv, Parting
<1> QED BY <1>1, <1>2, <1>3 DEF TypeOK

\* Only the records of unreleased leases are recovered, and there is at most one of them.
LEMMA RecoveryMove ==
  ASSUME PartingInv, NEW p \in Runners, RecoverExpired(p)
  PROVE  UNCHANGED state \/ OneMove
<1> USE DEF PartingInv, LeaseInv, TypeOK
<1>1. CASE \A l \in LeaseId : lease[l] # "LAPSED"
  <2>1. state' = [r \in Records |-> state[r]]
    BY <1>1 DEF RecoverExpired
  <2> QED BY <2>1
<1>2. CASE \E l \in LeaseId : lease[l] = "LAPSED"
  <2>1. PICK l \in LeaseId : lease[l] = "LAPSED" BY <1>2
  <2>2. l[1] \in Records /\ \A m \in LeaseId : lease[m] = "LAPSED" => m = l
    BY <2>1 DEF LeaseId, OneUnreleased, Unreleased
  <2>3. PICK s \in {"NEEDS_ATTENTION", "QUEUED"} : state' = [state EXCEPT ![l[1]] = s]
    <3> DEFINE s == IF l[3] >= MaxAttempts THEN "NEEDS_ATTENTION" ELSE "QUEUED"
    <3>1. \A r \in Records : state'[r] = IF r = l[1] THEN s ELSE state[r]
      BY <2>1, <2>2 DEF RecoverExpired
    <3>2. state' = [r \in Records |-> state'[r]]
      BY DEF RecoverExpired
    <3>3. state' = [state EXCEPT ![l[1]] = s] BY <3>1, <3>2
    <3> QED BY <3>3
  <2>4. state[l[1]] \in Pending
    BY <2>1 DEF LeaseHoldsRecord, Unreleased, Pending
  <2> QED BY <2>2, <2>3, <2>4 DEF OneMove, Legal, SetState, Pending, Unsettled, Settled
<1> QED BY <1>1, <1>2

LEMMA StateMoves == PartingInv /\ [Next]_vars => UNCHANGED state \/ OneMove
<1> SUFFICES ASSUME PartingInv, [Next]_vars PROVE UNCHANGED state \/ OneMove
  OBVIOUS
<1> USE DEF recordVars
<1>1. ASSUME NEW p \in Runners, BatchStep(p) PROVE UNCHANGED state \/ OneMove
  BY <1>1, RecoveryMove DEF BatchStep, StartRun, StartBatch, AlreadyRunning, CheckPause, FinishBatch
<1>2. ASSUME NEW p \in Runners, LeaseStep(p) PROVE UNCHANGED state \/ OneMove
  BY <1>2 DEF LeaseStep, NothingToLease, LeaseExhausted, LeaseConflict, LeaseOldest, Queued,
              OneMove, Legal, Pending, InProgress, Unsettled, Settled
<1>3. ASSUME NEW p \in Runners, ProcessStep(p) PROVE UNCHANGED state \/ OneMove
  <2>1. /\ pc[p] \in Processing
        /\ \/ UNCHANGED state
           \/ \E s \in InProgress \cup {"NEEDS_ATTENTION"} : SetState(HeldRecord(p), s) /\ Writable(HeldRecord(p))
    BY <1>3 DEF ProcessStep, ReadOutcomes, MarkApplying, ClaimRecord, RecordUnavailable,
           Research, DecideReady, DecideAttention, Persist, ApplyStart, InvokeOutcome,
           ApplyTerminal, RejectRecord, ProcessThrows, SetState, Writable, Processing, InProgress
  <2>2. pc[p] \in Working /\ pc[p] # "giveUp" BY <2>1 DEF Working, Processing
  <2>3. HeldRecord(p) \in Records /\ (Writable(HeldRecord(p)) => state[HeldRecord(p)] \in Pending)
    BY <2>2, WorkedRecord DEF Writable, Pending, InProgress, Unsettled, Settled
  <2> QED BY <2>1, <2>3 DEF OneMove, Legal, Pending, InProgress, Unsettled, Settled
<1>4. ASSUME NEW p \in Runners, ReleaseStep(p) PROVE UNCHANGED state \/ OneMove
  <2>1. pc[p] \in Working
    BY <1>4 DEF ReleaseStep, HeartbeatLost, CompleteLease, FailLease, RetryLease, ReleaseRejected, Working
  <2>2. /\ HeldRecord(p) \in Records
        /\ state[HeldRecord(p)] \in Unsettled \cup Settled
        /\ state[HeldRecord(p)] = "TRIAGED" => pc[p] = "giveUp" /\ faults > 0
    BY <2>1, WorkedRecord
  <2>3. CASE CompleteLease(p)
    BY <2>2, <2>3 DEF CompleteLease, OneMove, Legal, SetState, Settled
  <2>4. CASE FailLease(p)
    BY <2>2, <2>4 DEF FailLease, OneMove, Legal, Writable, Pending, InProgress, Unsettled, Settled
  <2>5. CASE RetryLease(p)
    BY <2>2, <2>5 DEF RetryLease, OneMove, Legal, Writable, Pending, InProgress, Unsettled, Settled
  <2>6. CASE HeartbeatLost(p) \/ ReleaseRejected(p)
    BY <2>6 DEF HeartbeatLost, ReleaseRejected
  <2> QED BY <1>4, <2>3, <2>4, <2>5, <2>6 DEF ReleaseStep
<1>5. CASE WebStep
  BY <1>5 DEF WebStep, Submit, Withdraw, Requeue, TogglePause, Reconfigure, OneMove, Legal, Pending, Unsettled, Settled
<1>6. CASE \/ \E p \in Runners : DrainThrows(p) \/ HeartbeatMissed(p) \/ Crash(p)
           \/ \E l \in LeaseId : Lapse(l)
           \/ UNCHANGED vars
  BY <1>6 DEF DrainThrows, HeartbeatMissed, Crash, Lapse, vars
<1> QED BY <1>1, <1>2, <1>3, <1>4, <1>5, <1>6 DEF Next, RunnerStep

\* A runner keeps what it knows while the step is not its own: only completeLease triages a
\* record, and it is called inside the drain loop.
LEMMA PartingStands ==
  ASSUME PartingInv, NEW q \in Runners, faults' \in Nat, faults' >= faults,
         pc'[q] \in Working => pc'[q] = pc[q] /\ held'[q] = held[q],
         pc[q] \in Working => /\ state'[HeldRecord(q)] = "TRIAGED" => state[HeldRecord(q)] = "TRIAGED"
                              /\ state'[HeldRecord(q)] # "ABSENT"
  PROVE  Parting(q)'
<1>1. faults \in Nat BY BoundsAssumption DEF PartingInv, LeaseInv, TypeOK
<1>2. pc[q] \in Working /\ held'[q] = held[q] => HeldRecord(q)' = HeldRecord(q)
  BY DEF HeldRecord
<1> QED BY <1>1, <1>2 DEF PartingInv, Parting, Working

LEMMA PartingNext == PartingInv /\ LeaseInv' /\ PlanInv' /\ [Next]_vars => PartingInv'
<1> SUFFICES ASSUME PartingInv, [Next]_vars, TypeOK', NEW q \in Runners PROVE Parting(q)'
  BY DEF PartingInv, LeaseInv
<1>1. faults \in Nat /\ faults' \in Nat /\ faults' >= faults
  <2>1. faults \in Nat /\ faults' \in Nat BY BoundsAssumption DEF PartingInv, LeaseInv, TypeOK
  <2>2. faults' = faults \/ SpendFault
    BY DEF Next, RunnerStep, BatchStep, StartRun, RecoverExpired, StartBatch, AlreadyRunning, CheckPause,
           FinishBatch, LeaseStep, NothingToLease, LeaseExhausted, LeaseConflict, LeaseOldest, ProcessStep,
           ReadOutcomes, MarkApplying, ClaimRecord, RecordUnavailable, Research, DecideReady, DecideAttention,
           ApplyStart, InvokeOutcome, ApplyTerminal, RejectRecord, ProcessThrows, ReleaseStep, HeartbeatLost,
           CompleteLease, FailLease, RetryLease, ReleaseRejected, DrainThrows, HeartbeatMissed, Crash, Lapse,
           WebStep, Submit, Withdraw, Requeue, TogglePause, Reconfigure, SpendFault, faultVars, vars
  <2> QED BY <2>1, <2>2 DEF SpendFault
<1>2. \A r \in Records : /\ state[r] # "ABSENT" => state'[r] # "ABSENT"
                         /\ state'[r] = "TRIAGED" => state[r] = "TRIAGED" \/ state[r] \in InProgress
  <2>1. UNCHANGED state \/ OneMove BY StateMoves
  <2> QED BY <2>1 DEF OneMove, Legal, SetState, Pending, InProgress, Unsettled, Settled, PartingInv, LeaseInv, TypeOK
<1>3. pc[q] \in Working => HeldRecord(q) \in Records /\ state[HeldRecord(q)] # "ABSENT"
  BY HeldIsRecord DEF PartingInv, Parting
<1>4. ASSUME NEW p \in Runners, RunnerStep(p) \/ HeartbeatMissed(p) \/ Crash(p), q # p PROVE Parting(q)'
  <2>1. pc'[q] = pc[q] /\ held'[q] = held[q]
    BY <1>4 DEF RunnerStep, BatchStep, StartRun, RecoverExpired, StartBatch, AlreadyRunning, CheckPause,
                FinishBatch, LeaseStep, NothingToLease, LeaseExhausted, LeaseConflict, LeaseOldest, ProcessStep,
                ReadOutcomes, MarkApplying, ClaimRecord, RecordUnavailable, Research, DecideReady, DecideAttention,
                ApplyStart, InvokeOutcome, ApplyTerminal, RejectRecord, ProcessThrows, ReleaseStep, HeartbeatLost,
                CompleteLease, FailLease, RetryLease, ReleaseRejected, DrainThrows, HeartbeatMissed, Crash,
                Goto, Proceed, DropLease, PartingInv, LeaseInv, TypeOK
  <2>2. CASE CompleteLease(p)
    <3>1. pc[q] \notin Working
      BY <1>4, <2>2, OnlyWorker DEF CompleteLease, PartingInv, Draining, Working
    <3> QED BY <1>1, <2>1, <3>1, PartingStands
  <2>3. CASE ~CompleteLease(p)
    <3>1. NoneTriaged
      BY <1>4, <2>3 DEF NoneTriaged, PartingInv, LeaseInv, TypeOK, SetState, Queued, recordVars,
                RunnerStep, BatchStep, StartRun, RecoverExpired, StartBatch, AlreadyRunning, CheckPause,
                FinishBatch, LeaseStep, NothingToLease, LeaseExhausted, LeaseConflict, LeaseOldest, ProcessStep,
                ReadOutcomes, MarkApplying, ClaimRecord, RecordUnavailable, Research, DecideReady, DecideAttention,
                Persist, ApplyStart, InvokeOutcome, ApplyTerminal, RejectRecord, ProcessThrows, ReleaseStep,
                HeartbeatLost, FailLease, RetryLease, ReleaseRejected, DrainThrows, HeartbeatMissed, Crash
    <3> QED BY <1>1, <1>2, <1>3, <2>1, <3>1, PartingStands DEF NoneTriaged
  <2> QED BY <2>2, <2>3
<1>5. ASSUME BatchStep(q) \/ LeaseStep(q) \/ Crash(q) PROVE Parting(q)'
  <2>1. CASE LeaseOldest(q)
    <3>1. PICK r \in Records :
            /\ SetState(r, "LEASED")
            /\ Goto(q, "close") \/ (Goto(q, "resume") /\ held' = [held EXCEPT ![q] = <<r, generation[r], Attempt(r)>>])
      BY <2>1 DEF LeaseOldest, Queued
    <3>2. pc'[q] = "close" \/ (pc'[q] = "resume" /\ HeldRecord(q)' = r)
      BY <3>1 DEF PartingInv, LeaseInv, TypeOK, Goto, HeldRecord
    <3>3. state'[r] = "LEASED"
      BY <3>1 DEF PartingInv, LeaseInv, TypeOK, SetState
    <3> QED BY <3>2, <3>3 DEF Parting, Working, Processing
  <2>2. CASE ~LeaseOldest(q)
    <3>1. pc'[q] \notin Working
      BY <1>5, <2>2 DEF PartingInv, LeaseInv, TypeOK, Goto, BatchStep, StartRun, RecoverExpired, StartBatch,
              AlreadyRunning, CheckPause, FinishBatch, LeaseStep, NothingToLease, LeaseExhausted, LeaseConflict,
              Crash, Working, Processing
    <3> QED BY <3>1 DEF Parting, Working
  <2> QED BY <2>1, <2>2
<1>6. ASSUME ProcessStep(q) \/ HeartbeatLost(q) PROVE Parting(q)'
  <2>1. /\ pc[q] \in Processing \cup {"complete"} /\ held' = held
        /\ \/ UNCHANGED state
           \/ \E s \in InProgress \cup {"NEEDS_ATTENTION"} : SetState(HeldRecord(q), s)
    BY <1>6 DEF ProcessStep, ReadOutcomes, MarkApplying, ClaimRecord, RecordUnavailable,
           Research, DecideReady, DecideAttention, Persist, ApplyStart, InvokeOutcome, ApplyTerminal,
           RejectRecord, ProcessThrows, HeartbeatLost, SetState, Processing, InProgress, recordVars
  <2>2. pc[q] \in Working /\ state[HeldRecord(q)] # "TRIAGED" /\ HeldRecord(q)' = HeldRecord(q)
    BY <2>1 DEF PartingInv, PlanInv, RunnerPlan, Working, HeldRecord
  <2>3. state'[HeldRecord(q)] \notin {"TRIAGED", "ABSENT"}
    BY <1>3, <2>1, <2>2 DEF PartingInv, LeaseInv, TypeOK, SetState, InProgress
  <2> QED BY <2>2, <2>3 DEF Parting
<1>7. ASSUME ReleaseStep(q) \/ DrainThrows(q), ~HeartbeatLost(q) PROVE Parting(q)'
  <2>1. \/ pc'[q] \notin Working
        \/ pc[q] = "complete" /\ pc'[q] = "giveUp" /\ held'[q] = held[q] /\ SpendFault
    BY <1>7 DEF PartingInv, LeaseInv, TypeOK, Goto, ReleaseStep, CompleteLease, FailLease, RetryLease,
                ReleaseRejected, DrainThrows, Working, Processing
  <2>2. CASE pc'[q] \notin Working
    BY <2>2 DEF Parting, Working
  <2>3. CASE pc[q] = "complete" /\ pc'[q] = "giveUp" /\ held'[q] = held[q] /\ SpendFault
    BY <1>1, <1>2, <1>3, <2>3 DEF Parting, Working, HeldRecord, SpendFault
  <2> QED BY <2>1, <2>2, <2>3
<1>8. CASE HeartbeatMissed(q) \/ (\E l \in LeaseId : Lapse(l)) \/ WebStep \/ UNCHANGED vars
  <2>1. UNCHANGED <<pc, held>> /\ NoneTriaged
    BY <1>8 DEF HeartbeatMissed, Lapse, WebStep, Submit, Withdraw, Requeue, TogglePause, Reconfigure, vars, recordVars,
                runnerVars, SetState, NoneTriaged, PartingInv, LeaseInv, TypeOK
  <2> QED BY <1>1, <1>2, <1>3, <2>1, PartingStands DEF NoneTriaged
<1> QED BY <1>4, <1>5, <1>6, <1>7, <1>8 DEF Next, RunnerStep, ReleaseStep

LEMMA PartingInvariant == Spec => []PartingInv
<1>1. Init /\ LeaseInv /\ PlanInv => PartingInv
  BY DEF Init, PartingInv, Parting, Working, Processing
<1> QED BY <1>1, PartingNext, LeaseInvariant, PlanInvariant, PTL DEF Spec

\* Only a completeLease whose commit was reported as failed lets a TRIAGED record
\* be queued again (postgres-queue.ts, batch.ts).
THEOREM TriageIsFinal == Spec => TriagedIsFinal
<1>1. PartingInv /\ [Next]_vars =>
        [\A r \in Records : state[r] = "TRIAGED" /\ state'[r] # "TRIAGED" => faults > 0]_vars
  <2> SUFFICES ASSUME PartingInv, [Next]_vars, NEW r \in Records, state[r] = "TRIAGED", state'[r] # "TRIAGED"
               PROVE  faults > 0
    OBVIOUS
  <2>1. OneMove BY StateMoves
  <2> QED BY <2>1 DEF OneMove, Legal, SetState, Pending, InProgress, PartingInv, LeaseInv, TypeOK
<1> QED BY <1>1, PartingInvariant, PTL DEF Spec, TriagedIsFinal

\* A move of one record is a move of its phase, or none.
LEMMA MoveOfPhase ==
  ASSUME TypeOK, NEW r \in Records, NEW s \in Unsettled \cup Settled, Legal(r, s), SetState(r, s)
  PROVE  [Life!Next]_phase
<1> DEFINE to == IF s \in InProgress THEN "LEASED" ELSE s
<1>1. state' = [state EXCEPT ![r] = s] BY DEF SetState
<1>2. phase' = [phase EXCEPT ![r] = to]
  BY <1>1 DEF phase, TypeOK
<1>3. \/ to = phase[r]
      \/ phase[r] = "ABSENT" /\ to = "QUEUED"
      \/ phase[r] = "QUEUED" /\ to = "WITHDRAWN"
      \/ phase[r] \in {"LEASED", "QUEUED", "NEEDS_ATTENTION"} /\ to \in {"LEASED", "QUEUED", "NEEDS_ATTENTION"}
      \/ phase[r] = "LEASED" /\ to = "TRIAGED"
      \/ phase[r] = "TRIAGED" /\ to = "QUEUED"
  <2>1. phase[r] = IF state[r] \in InProgress THEN "LEASED" ELSE state[r] BY DEF phase
  <2> QED BY <2>1 DEF Legal, Pending, InProgress
<1>4. CASE to = phase[r]
  <2> HIDE DEF to
  <2>1. phase = [q \in Records |-> phase[q]] BY DEF phase
  <2> QED BY <1>2, <1>4, <2>1
<1>5. CASE to # phase[r]
  <2> HIDE DEF to
  <2>1. phase[r] # to BY <1>5
  <2>2. Life!Move(r, phase[r], to) BY <1>2 DEF Life!Move
  <2>3. Life!Submit(r) \/ Life!Withdraw(r) \/ Life!Work(r) \/ Life!Reopen(r)
    BY <1>3, <2>1, <2>2 DEF Life!Submit, Life!Withdraw, Life!Work, Life!Take, Life!GiveBack, Life!Settle,
                            Life!Stop, Life!Resume, Life!Reopen
  <2> QED BY <2>3 DEF Life!Next
<1> QED BY <1>4, <1>5

\* The drain, recovery, stale runners and the web application together keep the
\* contract of record states that the other components build on.
THEOREM LifecycleKept == Spec => ImplementsLifecycle
<1>1. Init => Life!Init
  BY DEF Init, Life!Init, phase, InProgress
<1>2. PartingInv /\ [Next]_vars => [Life!Next]_phase
  <2> SUFFICES ASSUME PartingInv, [Next]_vars PROVE [Life!Next]_phase
    OBVIOUS
  <2>1. CASE UNCHANGED state BY <2>1 DEF phase
  <2>2. CASE OneMove BY <2>2, MoveOfPhase DEF OneMove, PartingInv, LeaseInv
  <2> QED BY <2>1, <2>2, StateMoves
<1> QED BY <1>1, <1>2, PartingInvariant, PTL DEF Spec, ImplementsLifecycle, Life!Spec

-----------------------------------------------------------------------------
(***************************************************************************)
(* The calls of outcomes.apply.  One runner at a time is in the loop, the  *)
(* first outcome of its plan is unique, and a decision that is called is   *)
(* not TERMINAL: so each decision sees the calls that Outcome allows.      *)
(***************************************************************************)
AgreedStep(d) == UNCHANGED Apply(d)!outcomeVars \/ Apply(d)!OutcomeNext

PlanLeaseInv == LeaseInv /\ PlanInv

LEMMA OneCaller ==
  ASSUME LeaseInv, NEW d, NEW p \in CallersOf(d), NEW q \in CallersOf(d)
  PROVE  p = q
BY OnlyWorker DEF CallersOf, Draining, Working, Processing

\* What a runner knows of the decision it calls: it is not TERMINAL, and once the
\* call has answered it has taken effect.
LEMMA CalledDecision ==
  ASSUME PlanLeaseInv, NEW d, NEW p \in CallersOf(d)
  PROVE  /\ p \in Runners
         /\ decision[d] # "TERMINAL"
         /\ pc[p] = "terminal" => d \in effects
         /\ CallersOf(d) = {p} /\ CallState(d) = "calling"
         /\ \A e \in todo[p] : IsFirst(e, todo[p]) => e = d
<1>1. p \in Runners /\ pc[p] \in {"invoke", "terminal"} /\ d \in todo[p] /\ IsFirst(d, todo[p])
  BY DEF CallersOf
<1>2. Applies(todo[p], HeldRecord(p)) /\ (pc[p] = "terminal" => d \in effects)
  BY <1>1 DEF PlanLeaseInv, PlanInv, RunnerPlan, Applying
<1>3. decision[d] # "TERMINAL" BY <1>1, <1>2 DEF Applies, Resumable
<1>4. \A q \in CallersOf(d) : q = p BY OneCaller DEF PlanLeaseInv
<1>5. \A e \in todo[p] : IsFirst(e, todo[p]) => e = d
  BY <1>1, <1>2, OneFirst DEF PlanLeaseInv, PlanInv
<1> QED BY <1>1, <1>2, <1>3, <1>4, <1>5 DEF CallState

\* A step that starts no call of d, and neither makes its mutation nor records it.
LEMMA NoCall ==
  ASSUME PlanLeaseInv, NEW d \in DecisionId,
         d \in effects' <=> d \in effects,
         decision'[d] = "TERMINAL" <=> decision[d] = "TERMINAL",
         CallersOf(d)' \subseteq CallersOf(d)
  PROVE  AgreedStep(d)
<1>1. CASE CallersOf(d) = {}
  <2>1. CallState(d)' = CallState(d) BY <1>1 DEF CallState
  <2> QED BY <2>1 DEF AgreedStep, Apply!outcomeVars
<1>2. CASE CallersOf(d) # {}
  <2>1. PICK p \in CallersOf(d) : TRUE BY <1>2
  <2>2. /\ decision[d] # "TERMINAL" /\ CallersOf(d) = {p} /\ CallState(d) = "calling"
    BY <2>1, CalledDecision
  <2>3. CASE CallersOf(d)' = {}
    <3>1. CallState(d)' = "idle" BY <2>2, <2>3 DEF CallState
    <3> QED BY <2>2, <3>1 DEF AgreedStep, Apply!OutcomeNext, Apply!GiveUp
  <2>4. CASE CallersOf(d)' # {}
    <3>1. CallersOf(d)' = {p} BY <2>2, <2>4
    <3>2. CallState(d)' = CallState(d) BY <2>2, <3>1 DEF CallState
    <3> QED BY <3>2 DEF AgreedStep, Apply!outcomeVars
  <2> QED BY <2>3, <2>4
<1> QED BY <1>1, <1>2

\* Runners that stay where they are start no call.
LEMMA NoNewCaller ==
  ASSUME NEW d, \A q \in Runners : pc'[q] \in {"invoke", "terminal"} => pc'[q] = pc[q] /\ todo'[q] = todo[q]
  PROVE  CallersOf(d)' \subseteq CallersOf(d)
BY DEF CallersOf, IsFirst

\* Every step but the four of persistPlan and applyOutcomes.
LEMMA OtherCalls ==
  ASSUME PlanLeaseInv, [Next]_vars, NEW d \in DecisionId,
         \A p \in Runners : ~DecideReady(p) /\ ~DecideAttention(p)
                              /\ ~ApplyStart(p) /\ ~InvokeOutcome(p) /\ ~ApplyTerminal(p)
  PROVE  AgreedStep(d)
<1> USE DEF Next, RunnerStep, BatchStep, LeaseStep, ProcessStep, ReleaseStep, WebStep
<1>1. UNCHANGED <<decision, effects>>
  BY DEF StartRun, RecoverExpired, StartBatch, AlreadyRunning, CheckPause, FinishBatch,
         NothingToLease, LeaseExhausted, LeaseConflict, LeaseOldest, ReadOutcomes, MarkApplying, ClaimRecord,
         RecordUnavailable, Research, RejectRecord, ProcessThrows, HeartbeatLost, CompleteLease, FailLease,
         RetryLease, ReleaseRejected, DrainThrows, HeartbeatMissed, Crash, Lapse, Submit, Withdraw, Requeue,
         TogglePause, Reconfigure, planVars, vars
<1>2. ASSUME NEW q \in Runners, pc'[q] \in {"invoke", "terminal"}
      PROVE  pc'[q] = pc[q] /\ todo'[q] = todo[q]
  <2> USE <1>2 DEF PlanLeaseInv, LeaseInv, TypeOK, Goto, Proceed, DropLease
  <2>1. ASSUME NEW p \in Runners, BatchStep(p) \/ LeaseStep(p) PROVE pc'[q] = pc[q] /\ todo'[q] = todo[q]
    BY <2>1 DEF StartRun, RecoverExpired, StartBatch, AlreadyRunning, CheckPause, FinishBatch,
                NothingToLease, LeaseExhausted, LeaseConflict, LeaseOldest
  <2>2. ASSUME NEW p \in Runners, ProcessStep(p) PROVE pc'[q] = pc[q] /\ todo'[q] = todo[q]
    BY <2>2 DEF ReadOutcomes, MarkApplying, ClaimRecord, RecordUnavailable, Research, RejectRecord,
                ProcessThrows, AfterApplying
  <2>3. ASSUME NEW p \in Runners, ReleaseStep(p) \/ DrainThrows(p) PROVE pc'[q] = pc[q] /\ todo'[q] = todo[q]
    BY <2>3 DEF HeartbeatLost, CompleteLease, FailLease, RetryLease, ReleaseRejected, DrainThrows
  <2>4. ASSUME NEW p \in Runners, HeartbeatMissed(p) \/ Crash(p) PROVE pc'[q] = pc[q] /\ todo'[q] = todo[q]
    BY <2>4 DEF HeartbeatMissed, Crash
  <2>5. CASE (\E l \in LeaseId : Lapse(l)) \/ WebStep \/ UNCHANGED vars
    BY <2>5 DEF Lapse, Submit, Withdraw, Requeue, TogglePause, Reconfigure, runnerVars, vars
  <2> QED BY <2>1, <2>2, <2>3, <2>4, <2>5
<1> QED BY <1>1, <1>2, NoCall, NoNewCaller

\* persistPlan writes decisions that did not exist.
LEMMA PersistCalls ==
  ASSUME PlanLeaseInv, NEW p \in Runners, DecideReady(p) \/ DecideAttention(p), NEW d \in DecisionId
  PROVE  AgreedStep(d)
<1> USE DEF PlanLeaseInv, LeaseInv, TypeOK
<1>1. PICK u \in {"VALID", "INVALID"}, s \in {"APPLYING", "NEEDS_ATTENTION"} : Persist(p, u, s)
  BY DEF DecideReady, DecideAttention
<1>2. PICK n \in 1..MaxRequeues+2, k \in 1..MaxUnits :
        LET r == HeldRecord(p)
            plan == {e \in DecisionId : e[1] = r /\ e[2] = n /\ e[3] <= k}
        IN  /\ IsNextPlan(r, n)
            /\ decision' = [e \in DecisionId |-> IF e \in plan THEN u ELSE decision[e]]
  BY <1>1 DEF Persist
<1>3. ASSUME d[1] = HeldRecord(p), d[2] = n PROVE decision[d] = "NONE"
  <2>1. n \in Int BY BoundsAssumption
  <2>2. d \in DecisionsOf(HeldRecord(p)) => d[2] < n BY <1>2 DEF IsNextPlan
  <2> QED BY <1>3, <2>1, <2>2 DEF DecisionsOf
<1>4. decision'[d] = "TERMINAL" <=> decision[d] = "TERMINAL"
  BY <1>2, <1>3
<1>5. effects' = effects
  BY DEF DecideReady, DecideAttention
<1>6. \A q \in Runners : pc'[q] \in {"invoke", "terminal"} => pc'[q] = pc[q] /\ todo'[q] = todo[q]
  BY DEF DecideReady, DecideAttention, Persist, Proceed, Goto
<1> QED BY <1>4, <1>5, <1>6, NoCall, NoNewCaller

LEMMA ApplyCalls ==
  ASSUME PlanLeaseInv, NEW p \in Runners, ApplyStart(p) \/ InvokeOutcome(p) \/ ApplyTerminal(p),
         NEW d \in DecisionId
  PROVE  AgreedStep(d)
<1> USE DEF PlanLeaseInv, LeaseInv, TypeOK
<1>1. /\ pc[p] \in {"apply", "invoke", "terminal"} /\ pc[p] \in Draining
      /\ \A q \in Runners \ {p} : pc'[q] = pc[q] /\ todo'[q] = todo[q]
  BY DEF ApplyStart, InvokeOutcome, ApplyTerminal, Proceed, Goto, Draining, Working, Processing
<1>2. Applies(todo[p], HeldRecord(p))
  BY <1>1 DEF PlanInv, RunnerPlan, Applying
<1>3. \A q \in Runners \ {p} : \A e : q \notin CallersOf(e) /\ q \notin CallersOf(e)'
  <2>1. \A q \in Runners \ {p} : pc[q] \notin {"invoke", "terminal"}
    BY <1>1, OnlyWorker DEF Working, Processing
  <2> QED BY <1>1, <2>1 DEF CallersOf
<1>4. CASE ApplyStart(p)
  <2>1. PICK e \in todo[p] : /\ IsFirst(e, todo[p])
                             /\ decision' = IF decision[e] = "VALID" THEN [decision EXCEPT ![e] = "APPLYING"] ELSE decision
                             /\ pc[p] = "apply" /\ pc'[p] \in {"invoke", "giveUp"} /\ todo' = todo /\ effects' = effects
    BY <1>4 DEF ApplyStart, Proceed, Goto
  <2>2. /\ \A f \in todo[p] : IsFirst(f, todo[p]) => f = e
        /\ decision[e] # "TERMINAL"
    BY <1>2, <2>1, OneFirst DEF PlanInv, Applies, Resumable
  <2>3. CallersOf(d) = {} /\ (decision'[d] = "TERMINAL" <=> decision[d] = "TERMINAL")
    BY <1>3, <2>1, <2>2 DEF CallersOf
  <2>4. CASE CallersOf(d)' = {}
    BY <2>1, <2>3, <2>4, NoCall
  <2>5. CASE CallersOf(d)' # {}
    <3>1. CallersOf(d)' = {p} BY <1>3, <2>5 DEF CallersOf
    <3>2. d = e BY <2>1, <2>2, <3>1 DEF CallersOf, IsFirst
    <3>3. CallState(d) = "idle" /\ CallState(d)' = "calling" BY <2>2, <2>3, <3>1, <3>2 DEF CallState
    <3> QED BY <2>1, <3>3 DEF AgreedStep, Apply!OutcomeNext, Apply!Call
  <2> QED BY <2>4, <2>5
<1>5. CASE InvokeOutcome(p)
  <2>1. PICK e \in todo[p] : /\ IsFirst(e, todo[p])
                             /\ effects' \in {effects, effects \cup {e}}
                             /\ pc[p] = "invoke" /\ pc'[p] \in {"terminal", "fail", "backoff", "giveUp"}
                             /\ todo' = todo /\ decision' = decision
    BY <1>5 DEF InvokeOutcome, Goto
  <2>2. p \in CallersOf(e) BY <2>1 DEF CallersOf
  <2>3. CASE d # e
    <3>1. p \notin CallersOf(d)' BY <2>1, <2>2, <2>3, CalledDecision DEF CallersOf, IsFirst
    <3> QED BY <1>3, <2>1, <2>3, <3>1, NoCall DEF CallersOf
  <2>4. CASE d = e /\ effects' = effects
    <3>1. CallersOf(d)' \subseteq CallersOf(d) BY <1>3, <2>2, <2>4 DEF CallersOf
    <3> QED BY <2>1, <2>4, <3>1, NoCall
  <2>5. CASE d = e /\ effects' # effects
    <3>1. CallState(d) = "calling" /\ decision[d] # "TERMINAL" BY <2>2, <2>5, CalledDecision
    <3>2. CallersOf(d)' \in {{}, {p}} BY <1>3 DEF CallersOf
    <3>3. CallState(d)' \in {"calling", "idle"} BY <2>1, <3>1, <3>2 DEF CallState
    <3>4. d \notin effects /\ d \in effects' BY <2>1, <2>5
    <3> QED BY <3>1, <3>3, <3>4 DEF AgreedStep, Apply!OutcomeNext, Apply!Mutate
  <2> QED BY <2>3, <2>4, <2>5
<1>6. CASE ApplyTerminal(p)
  <2>1. PICK e \in todo[p] : /\ IsFirst(e, todo[p]) /\ pc[p] = "terminal" /\ effects' = effects
                             /\ decision' = [decision EXCEPT ![e] = "TERMINAL"]
                             /\ pc'[p] \in {"apply", "complete", "giveUp"}
    BY <1>6 DEF ApplyTerminal, Proceed, Goto, AfterApplying
  <2>2. p \in CallersOf(e) BY <2>1 DEF CallersOf
  <2>3. CallersOf(d)' = {} BY <1>3, <2>1 DEF CallersOf
  <2>4. CASE d # e
    BY <2>1, <2>3, <2>4, NoCall
  <2>5. CASE d = e
    <3>1. CallState(d) = "calling" /\ d \in effects BY <2>1, <2>2, <2>5, CalledDecision
    <3>2. CallState(d)' = "done" BY <2>1, <2>3, <2>5 DEF CallState
    <3> QED BY <2>1, <3>1, <3>2 DEF AgreedStep, Apply!OutcomeNext, Apply!Succeed
  <2> QED BY <2>4, <2>5
<1> QED BY <1>4, <1>5, <1>6

LEMMA CallsNext == PlanLeaseInv /\ [Next]_vars => \A d \in DecisionId : AgreedStep(d)
<1> SUFFICES ASSUME PlanLeaseInv, [Next]_vars, NEW d \in DecisionId PROVE AgreedStep(d)
  OBVIOUS
<1> QED BY OtherCalls, PersistCalls, ApplyCalls

LEMMA CallsInit ==
  ASSUME Init, NEW d \in DecisionId
  PROVE  Apply(d)!OutcomeInit
<1>1. CallersOf(d) = {} BY DEF Init, CallersOf
<1> QED BY <1>1 DEF Init, Apply!OutcomeInit, CallState

\* The drain calls outcomes.apply for every decision as GitHubOutcome assumes of its
\* caller, whatever number of runners, records, crashes and faults there are.
THEOREM CallsAreAgreed == Spec => CallsAsAgreed
<1>1. Init => \A d \in DecisionId : Apply(d)!OutcomeInit
  BY CallsInit
<1>2. LeaseInv /\ PlanInv /\ [Next]_vars =>
        [\A d \in DecisionId : UNCHANGED Apply(d)!outcomeVars \/ Apply(d)!OutcomeNext]_vars
  BY CallsNext DEF PlanLeaseInv, AgreedStep
<1> QED BY <1>1, <1>2, LeaseInvariant, PlanInvariant, PTL DEF Spec, CallsAsAgreed

\* The same, as the refinement it is: the drain implements Outcome for each decision.
THEOREM EachDecisionAgreed ==
  ASSUME NEW d \in DecisionId
  PROVE  Spec => Apply(d)!OutcomeSpec
<1>1. Init => Apply(d)!OutcomeInit
  BY CallsInit
<1>2. LeaseInv /\ PlanInv /\ [Next]_vars => [Apply(d)!OutcomeNext]_(Apply(d)!outcomeVars)
  BY CallsNext DEF PlanLeaseInv, AgreedStep
<1> QED BY <1>1, <1>2, LeaseInvariant, PlanInvariant, PTL DEF Spec, Apply!OutcomeSpec
=============================================================================
