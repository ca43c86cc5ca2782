---------------------------- MODULE TriageQueue ----------------------------
(***************************************************************************)
(* The daily triage drain: the CLI job `triage-once` (a runner), the       *)
(* drain loop, the PostgreSQL queue behind it and the processing of one    *)
(* leased record, interleaved with what the web application does to the    *)
(* same rows: submission, withdrawal, the Admin requeue, the Owner pause.  *)
(*                                                                         *)
(* One action is one awaited database transaction or one external call,    *)
(* so every state another process can see between two awaits is a state    *)
(* of this specification.  Timestamps are abstracted: an unreleased lease  *)
(* is HELD before its expires_at and LAPSED after it.  GitHub is reduced   *)
(* to the set of decisions whose mutation has taken effect there; the      *)
(* protocol that obtains the effect is the subject of GitHubOutcome.       *)
(***************************************************************************)
EXTENDS Integers, FiniteSets

CONSTANTS
  NumRecords,   \* feedback records, numbered by feedback_sequence
  Runners,      \* worker processes that run triage-once
  MaxAttempts,  \* leases a record gets in one requeue generation
  MaxUnits,     \* bound: units in one decision plan
  MaxRequeues,  \* bound: Admin requeues of one record
  MaxCrashes,   \* bound: runner processes killed
  MaxFaults,    \* bound: database calls of the drain loop that throw
  Switches,     \* bound: what people change, of "pause" (paused) and "setup" (ready)
  Lockable,     \* bound: records with a withdrawal that leaseOldest may run into
  NoRunner, NoLease

ASSUME BoundsAssumption ==
  /\ NumRecords \in Nat
  /\ MaxAttempts \in Nat \ {0}
  /\ MaxUnits \in Nat \ {0}
  /\ MaxRequeues \in Nat
  /\ MaxCrashes \in Nat
  /\ MaxFaults \in Nat

ASSUME NullAssumption ==
  /\ NoRunner \notin Runners
  /\ NoLease \notin (1..NumRecords) \X (1..MaxRequeues+1) \X (1..MaxAttempts+1)

Records == 1..NumRecords

\* feedback_records.requeue_generation starts at 1.
Generations == 1..MaxRequeues+1

\* (record, generation, attempt): the lease's unique idempotency key.  One
\* attempt beyond the budget is representable, so that the budget is a fact
\* about the code and not about this set.
LeaseId == Records \X Generations \X (1..MaxAttempts+1)

\* (record, plan, ordinal): a feedback unit and its only decision.  The code
\* calls the plan number the unit's `generation`; one plan more than the
\* invariants allow is representable.
DecisionId == Records \X (1..MaxRequeues+2) \X (1..MaxUnits)

VARIABLES
  state,       \* feedback_records.state, "ABSENT" before the insert
  generation,  \* feedback_records.requeue_generation
  lease,       \* feedback_leases: released_at / expires_at / result
  decision,    \* unit and decision state, always written together
  active,      \* triage_decisions.active
  effects,     \* decisions whose GitHub mutation has happened
  running,     \* runner that owns the RUNNING row of triage_batches
  paused,      \* application_settings.triage_paused
  ready,       \* writes are enabled, a model is selected, its provider is
               \* connected and the stored credential can be decrypted
  pc,          \* where each runner is
  held,        \* the lease drainQueue is working on
  todo,        \* outcomes applyOutcomes has still to apply
  healthy,     \* heartbeatHealthy
  stop,        \* stopReason
  crashes, faults

recordVars == <<state, generation>>
planVars   == <<decision, active, effects>>
runnerVars == <<pc, held, todo, healthy, stop>>
faultVars  == <<crashes, faults>>
vars == <<recordVars, lease, planVars, running, paused, ready, runnerVars, faultVars>>

Unsettled == {"QUEUED", "LEASED", "RESEARCHING", "DECIDING", "APPLYING"}
Settled   == {"TRIAGED", "NEEDS_ATTENTION", "WITHDRAWN"}
\* The states completeLease turns into TRIAGED.
InProgress == {"LEASED", "RESEARCHING", "DECIDING", "APPLYING"}

Unreleased == {"HELD", "LAPSED"}
LeaseState == {"NONE", "COMPLETED", "RETRYABLE", "NEEDS_ATTENTION", "EXPIRED"}
                \cup Unreleased

\* VALID is (unit APPLYING, decision PRECONDITIONS_VALID), APPLYING is both,
\* TERMINAL is both, INVALID is (unit NEEDS_ATTENTION, decision INVALID).
DecisionState == {"NONE", "VALID", "APPLYING", "TERMINAL", "INVALID"}
Resumable == {"VALID", "APPLYING"}

\* Inside processRecord, while the heartbeat timer is armed.
Processing == {"resume", "mark", "claim", "research", "decide",
               "apply", "invoke", "terminal"}
\* Between leaseOldest and the release of its lease.
Working == Processing \cup {"complete", "fail", "backoff", "giveUp"}
\* Between the insert of the batch and finishBatch.
Draining == Working \cup {"loop", "lease", "close"}
ProgramPoint == Draining \cup {"idle", "recover", "insert"}

StopReason == {"QUEUE_EMPTY", "OWNER_PAUSED", "FAILURE"}

TypeOK ==
  /\ state \in [Records -> Unsettled \cup Settled \cup {"ABSENT"}]
  /\ generation \in [Records -> Generations]
  /\ lease \in [LeaseId -> LeaseState]
  /\ decision \in [DecisionId -> DecisionState]
  /\ active \in SUBSET DecisionId
  /\ effects \in SUBSET DecisionId
  /\ running \in Runners \cup {NoRunner}
  /\ paused \in BOOLEAN
  /\ ready \in BOOLEAN
  /\ pc \in [Runners -> ProgramPoint]
  /\ held \in [Runners -> LeaseId \cup {NoLease}]
  /\ todo \in [Runners -> SUBSET DecisionId]
  /\ healthy \in [Runners -> BOOLEAN]
  /\ stop \in [Runners -> StopReason]
  /\ crashes \in 0..MaxCrashes
  /\ faults \in 0..MaxFaults

Init ==
  /\ state = [r \in Records |-> "ABSENT"]
  /\ generation = [r \in Records |-> 1]
  /\ lease = [l \in LeaseId |-> "NONE"]
  /\ decision = [d \in DecisionId |-> "NONE"]
  /\ active = {}
  /\ effects = {}
  /\ running = NoRunner
  /\ paused = FALSE
  /\ ready \in BOOLEAN /\ (ready \/ "setup" \in Switches)
  /\ pc = [p \in Runners |-> "idle"]
  /\ held = [p \in Runners |-> NoLease]
  /\ todo = [p \in Runners |-> {}]
  /\ healthy = [p \in Runners |-> TRUE]
  /\ stop = [p \in Runners |-> "QUEUE_EMPTY"]
  /\ crashes = 0
  /\ faults = 0

-----------------------------------------------------------------------------
(***************************************************************************)
(* Helpers.                                                                *)
(***************************************************************************)
Goto(p, point) == pc' = [pc EXCEPT ![p] = point]

\* The call commits.  Its reply arrives, or is lost with the connection: the
\* exception is not a RecordFailure, so the drain retries the lease and stops.
Proceed(p, point) == \E next \in {point, "giveUp"} : Goto(p, next)

SpendFault == /\ faults < MaxFaults
              /\ faults' = faults + 1

HeldRecord(p) == held[p][1]

\* The row check (state = 'WITHDRAWN') = (withdrawn_at is not null) makes every
\* other update of a withdrawn record's state throw.
Writable(r) == state[r] # "WITHDRAWN"

SetState(r, s) == state' = [state EXCEPT ![r] = s]

\* `where id = .. and released_at is null`
Released(l, result) ==
  IF lease[l] \in Unreleased THEN [lease EXCEPT ![l] = result] ELSE lease

UnreleasedOn(r) == {l \in LeaseId : l[1] = r /\ lease[l] \in Unreleased}

DecisionsOf(r) == {d \in DecisionId : d[1] = r /\ decision[d] # "NONE"}
ActiveOf(r)    == DecisionsOf(r) \cap active

\* coalesce(max(generation), 0) + 1
IsNextPlan(r, n) ==
  /\ n \in 1..MaxRequeues+2
  /\ \A d \in DecisionsOf(r) : d[2] < n
  /\ n = 1 \/ \E d \in DecisionsOf(r) : d[2] = n - 1

\* Variant: the outcomes are read without `order by fu.ordinal`.
IsAny(d, outcomes) == d \in outcomes

\* applyOutcomes goes through the outcomes by ordinal.
IsFirst(d, outcomes) == d \in outcomes /\ \A e \in outcomes : d[3] <= e[3]

\* Variant: the loop over the outcomes ends after the first one.
AfterApplyingOne(outcomes) == "complete"

AfterApplying(outcomes) == IF outcomes = {} THEN "complete" ELSE "apply"

Queued == {r \in Records : state[r] = "QUEUED"}
IsOldest(r, records) == r \in records /\ \A q \in records : r <= q

\* The row `for update skip locked` may return.  A queued row is locked from
\* the first statement of a withdrawal to its commit or rollback, with the
\* deletion of its files in between.
IsNext(r) == \E locked \in SUBSET (Queued \cap Lockable) : IsOldest(r, Queued \ locked)

\* count(*) + 1 over the leases of the record's current generation.
Attempt(r) ==
  Cardinality({a \in 1..MaxAttempts+1 : lease[<<r, generation[r], a>>] # "NONE"}) + 1

NoActiveLease == \A l \in LeaseId : lease[l] # "HELD"

-----------------------------------------------------------------------------
(***************************************************************************)
(* The batch: startBatch, the loop head, finishBatch.                      *)
(***************************************************************************)

\* triage-once up to drainQueue.  A run that is not ready ends here, before the
\* lapsed leases are recovered: TRIAGE_WRITES_DISABLED, no selected model of a
\* connected provider, or a credential that cannot be loaded.
StartRun(p) ==
  /\ pc[p] = "idle"
  /\ \/ ready /\ Goto(p, "recover")
     \/ ~ready /\ UNCHANGED pc
  /\ UNCHANGED <<recordVars, lease, planVars, running, paused, ready, held, todo, healthy, stop, faultVars>>

\* One transaction over every lapsed lease, before it is known whether another
\* runner is draining.
RecoverExpired(p) ==
  LET lapsedOn(r) == {l \in LeaseId : l[1] = r /\ lease[l] = "LAPSED"} IN
  /\ pc[p] = "recover"
  /\ lease' = [l \in LeaseId |-> IF lease[l] = "LAPSED" THEN "EXPIRED" ELSE lease[l]]
  /\ state' = [r \in Records |->
       IF lapsedOn(r) = {} THEN state[r]
       ELSE IF \E l \in lapsedOn(r) : l[3] >= MaxAttempts THEN "NEEDS_ATTENTION"
       ELSE "QUEUED"]
  /\ Goto(p, "insert")
  /\ UNCHANGED <<generation, planVars, running, paused, ready, held, todo, healthy, stop, faultVars>>

\* Variant: a running batch is taken over instead of refused.
TakeOverBatch(p) ==
  /\ pc[p] = "insert"
  /\ running' = p
  /\ Goto(p, "loop")
  /\ UNCHANGED <<recordVars, lease, planVars, paused, ready, held, todo, healthy, stop, faultVars>>

\* The partial unique index one_running_triage_batch admits one RUNNING row.  If
\* the reply is lost the row stays: finishBatch is not yet in reach.
StartBatch(p) ==
  /\ pc[p] = "insert"
  /\ running = NoRunner
  /\ running' = p
  /\ \/ Goto(p, "loop") /\ UNCHANGED faults
     \/ Goto(p, "idle") /\ SpendFault
  /\ UNCHANGED <<recordVars, lease, planVars, paused, ready, held, todo, healthy, stop, crashes>>

AlreadyRunning(p) ==
  /\ pc[p] = "insert"
  /\ running # NoRunner
  /\ Goto(p, "idle")
  /\ UNCHANGED <<recordVars, lease, planVars, running, paused, ready, held, todo, healthy, stop, faultVars>>

CheckPause(p) ==
  /\ pc[p] = "loop"
  /\ \/ ~paused /\ Goto(p, "lease") /\ UNCHANGED stop
     \/ paused /\ Goto(p, "close") /\ stop' = [stop EXCEPT ![p] = "OWNER_PAUSED"]
  /\ UNCHANGED <<recordVars, lease, planVars, running, paused, ready, held, todo, healthy, faultVars>>

FinishBatch(p) ==
  /\ pc[p] = "close"
  /\ running' = IF running = p THEN NoRunner ELSE running
  /\ stop' = [stop EXCEPT ![p] = "QUEUE_EMPTY"]
  /\ Goto(p, "idle")
  /\ UNCHANGED <<recordVars, lease, planVars, paused, ready, held, todo, healthy, faultVars>>

-----------------------------------------------------------------------------
(***************************************************************************)
(* leaseOldest.  A null result ends the drain with the stop reason the     *)
(* loop started with, QUEUE_EMPTY, whatever the null stood for.            *)
(***************************************************************************)

\* A lease is active, nothing is queued, or every queued row is locked.
NothingToLease(p) ==
  /\ pc[p] = "lease"
  /\ ~NoActiveLease \/ Queued \subseteq Lockable
  /\ Goto(p, "close")
  /\ UNCHANGED <<recordVars, lease, planVars, running, paused, ready, held, todo, healthy, stop, faultVars>>

\* Variant: the exhausted record is skipped but left in the queue.
LeaseExhaustedSkips(p) ==
  /\ pc[p] = "lease"
  /\ NoActiveLease
  /\ \E r \in Queued : IsNext(r) /\ Attempt(r) > MaxAttempts
  /\ Goto(p, "close")
  /\ UNCHANGED <<recordVars, lease, planVars, running, paused, ready, held, todo, healthy, stop, faultVars>>

\* The record found has used its attempts: it leaves the queue, and the null
\* that leaseOldest returns for it ends the drain.
LeaseExhausted(p) ==
  /\ pc[p] = "lease"
  /\ NoActiveLease
  /\ \E r \in Queued :
       /\ IsNext(r)
       /\ Attempt(r) > MaxAttempts
       /\ SetState(r, "NEEDS_ATTENTION")
  /\ Goto(p, "close")
  /\ UNCHANGED <<generation, lease, planVars, running, paused, ready, held, todo, healthy, stop, faultVars>>

\* A lapsed lease nobody has recovered still occupies the unique index
\* one_active_feedback_lease: the insert throws out of the drain loop.
LeaseConflict(p) ==
  /\ pc[p] = "lease"
  /\ NoActiveLease
  /\ \E l \in LeaseId : lease[l] = "LAPSED"
  /\ \E r \in Queued : IsNext(r) /\ Attempt(r) <= MaxAttempts
  /\ Goto(p, "close")
  /\ UNCHANGED <<recordVars, lease, planVars, running, paused, ready, held, todo, healthy, stop, faultVars>>

\* The lease row, then the record.  If the reply is lost the exception leaves
\* the drain loop and the lease stays unreleased until it lapses.
LeaseOldest(p) ==
  /\ pc[p] = "lease"
  /\ \A l \in LeaseId : lease[l] \notin Unreleased
  /\ \E r \in Queued :
       LET l == <<r, generation[r], Attempt(r)>> IN
       /\ IsNext(r)
       /\ Attempt(r) <= MaxAttempts
       /\ lease' = [lease EXCEPT ![l] = "HELD"]
       /\ SetState(r, "LEASED")
       /\ \/ /\ held' = [held EXCEPT ![p] = l]
             /\ Goto(p, "resume")
             /\ UNCHANGED faults
          \/ /\ SpendFault
             /\ Goto(p, "close")
             /\ UNCHANGED held
  /\ UNCHANGED <<generation, planVars, running, paused, ready, todo, healthy, stop, crashes>>

-----------------------------------------------------------------------------
(***************************************************************************)
(* processRecord, one awaited call per action.                             *)
(***************************************************************************)

\* Variant: every attempt decides afresh.
ReadNothing(p) ==
  /\ pc[p] = "resume"
  /\ Goto(p, "claim")
  /\ UNCHANGED <<recordVars, lease, planVars, running, paused, ready, held, todo, healthy, stop, faultVars>>

\* Variant: outcomes that are TERMINAL already are applied again.
ReadEveryOutcome(p) ==
  LET r == HeldRecord(p) IN
  /\ pc[p] = "resume"
  /\ \/ ActiveOf(r) # {} /\ todo' = [todo EXCEPT ![p] = ActiveOf(r)] /\ Goto(p, "mark")
     \/ ActiveOf(r) = {} /\ Goto(p, "claim") /\ UNCHANGED todo
  /\ UNCHANGED <<recordVars, lease, planVars, running, paused, ready, held, healthy, stop, faultVars>>

\* existingOutcomes: a record whose plan was persisted by an earlier attempt
\* is resumed, never decided again.  Its two queries are one step: only this
\* runner writes the units, and a requeue between them that deactivates the
\* decisions is one that found none to resume.
ReadOutcomes(p) ==
  LET r == HeldRecord(p)
      attention == {d \in ActiveOf(r) : decision[d] = "INVALID"}
  IN
  /\ pc[p] = "resume"
  /\ \/ /\ attention # {}
        /\ Goto(p, "fail") /\ UNCHANGED todo
     \/ /\ attention = {} /\ ActiveOf(r) # {}
        /\ todo' = [todo EXCEPT ![p] = {d \in ActiveOf(r) : decision[d] \in Resumable}]
        /\ Goto(p, "mark")
     \/ /\ ActiveOf(r) = {}
        /\ Goto(p, "claim") /\ UNCHANGED todo
  /\ UNCHANGED <<recordVars, lease, planVars, running, paused, ready, held, healthy, stop, faultVars>>

\* The resumed record goes back to APPLYING whatever state it is in by now.
MarkApplying(p) ==
  /\ pc[p] = "mark"
  /\ Writable(HeldRecord(p))
  /\ SetState(HeldRecord(p), "APPLYING")
  /\ Proceed(p, AfterApplying(todo[p]))
  /\ UNCHANGED <<generation, lease, planVars, running, paused, ready, held, todo, healthy, stop, faultVars>>

\* The record must still be LEASED, and its source app enabled and unpaused;
\* otherwise FEEDBACK_RECORD_UNAVAILABLE.
ClaimRecord(p) ==
  /\ pc[p] = "claim"
  /\ state[HeldRecord(p)] = "LEASED"
  /\ SetState(HeldRecord(p), "RESEARCHING")
  /\ Proceed(p, "research")
  /\ UNCHANGED <<generation, lease, planVars, running, paused, ready, held, todo, healthy, stop, faultVars>>

RecordUnavailable(p) ==
  /\ pc[p] = "claim"
  /\ Goto(p, "fail")
  /\ UNCHANGED <<recordVars, lease, planVars, running, paused, ready, held, todo, healthy, stop, faultVars>>

\* research.prepare has returned; the update is conditional on RESEARCHING.
Research(p) ==
  LET r == HeldRecord(p) IN
  /\ pc[p] = "research"
  /\ state' = IF state[r] = "RESEARCHING" THEN [state EXCEPT ![r] = "DECIDING"] ELSE state
  /\ Proceed(p, "decide")
  /\ UNCHANGED <<generation, lease, planVars, running, paused, ready, held, todo, healthy, stop, faultVars>>

\* persistPlan: one transaction inserts the units and decisions of a new plan
\* and sets the record's state, whatever it is by now.
Persist(p, unitState, recordState) ==
  \E n \in 1..MaxRequeues+2, k \in 1..MaxUnits :
    LET r == HeldRecord(p)
        plan == {d \in DecisionId : d[1] = r /\ d[2] = n /\ d[3] <= k}
    IN
    /\ Writable(r)
    /\ IsNextPlan(r, n)
    /\ decision' = [d \in DecisionId |-> IF d \in plan THEN unitState ELSE decision[d]]
    /\ active' = active \cup plan
    /\ todo' = [todo EXCEPT ![p] = IF unitState = "VALID" THEN plan ELSE @]
    /\ SetState(r, recordState)

\* orchestrator.decide returned a READY result.
DecideReady(p) ==
  /\ pc[p] = "decide"
  /\ Persist(p, "VALID", "APPLYING")
  /\ Proceed(p, "apply")
  /\ UNCHANGED <<generation, lease, effects, running, paused, ready, held, healthy, stop, faultVars>>

\* The independent review disagreed: the plan is kept for a human.
DecideAttention(p) ==
  /\ pc[p] = "decide"
  /\ Persist(p, "INVALID", "NEEDS_ATTENTION")
  /\ Proceed(p, "fail")
  /\ UNCHANGED <<generation, lease, effects, running, paused, ready, held, healthy, stop, faultVars>>

\* applyOutcomes, for the first outcome left: mark it APPLYING,
ApplyStart(p) ==
  /\ pc[p] = "apply"
  /\ \E d \in todo[p] :
       /\ IsFirst(d, todo[p])
       /\ decision' = IF decision[d] = "VALID" THEN [decision EXCEPT ![d] = "APPLYING"]
                                               ELSE decision
  /\ Proceed(p, "invoke")
  /\ UNCHANGED <<recordVars, lease, active, effects, running, paused, ready, held, todo, healthy, stop, faultVars>>

\* Variant: the outcome is recorded as done whatever became of it.
InvokeUnchecked(p) ==
  /\ pc[p] = "invoke"
  /\ \E d \in todo[p] : IsFirst(d, todo[p]) /\ effects' \in {effects, effects \cup {d}}
  /\ Goto(p, "terminal")
  /\ UNCHANGED <<recordVars, lease, decision, active, running, paused, ready, held, todo, healthy, stop, faultVars>>

\* have GitHub do it -- on failure the mutation may have happened or not, and
\* the failure is a RecordFailure, a rate limit with a short Retry-After, or
\* any other integration failure --
InvokeOutcome(p) ==
  /\ pc[p] = "invoke"
  /\ \E d \in todo[p] :
       /\ IsFirst(d, todo[p])
       /\ \/ /\ effects' = effects \cup {d}
             /\ Goto(p, "terminal")
          \/ /\ effects' \in {effects, effects \cup {d}}
             /\ \E failure \in {"fail", "backoff", "giveUp"} : Goto(p, failure)
  /\ UNCHANGED <<recordVars, lease, decision, active, running, paused, ready, held, todo, healthy, stop, faultVars>>

\* and record it TERMINAL.
ApplyTerminal(p) ==
  /\ pc[p] = "terminal"
  /\ \E d \in todo[p] :
       /\ IsFirst(d, todo[p])
       /\ decision' = [decision EXCEPT ![d] = "TERMINAL"]
       /\ todo' = [todo EXCEPT ![p] = @ \ {d}]
       /\ Proceed(p, AfterApplying(todo[p] \ {d}))
  /\ UNCHANGED <<recordVars, lease, active, effects, running, paused, ready, held, healthy, stop, faultVars>>

\* research.prepare or orchestrator.decide gives up on this record
\* (MODEL_OUTPUT_INVALID and the like).
RejectRecord(p) ==
  /\ pc[p] \in {"research", "decide"}
  /\ Goto(p, "fail")
  /\ UNCHANGED <<recordVars, lease, planVars, running, paused, ready, held, todo, healthy, stop, faultVars>>

\* Any other exception inside processRecord, with nothing committed: a provider
\* or database failure, or the row check on a withdrawn record.
ProcessThrows(p) ==
  /\ pc[p] \in Processing
  /\ Goto(p, "giveUp")
  /\ UNCHANGED <<recordVars, lease, planVars, running, paused, ready, held, todo, healthy, stop, faultVars>>

\* The timer finds the lease released or lapsed, or its query fails.  It is
\* looked at once, after processRecord has returned.
HeartbeatMissed(p) ==
  /\ pc[p] \in Processing
  /\ healthy[p]
  /\ healthy' = [healthy EXCEPT ![p] = FALSE]
  /\ \/ lease[held[p]] # "HELD" /\ UNCHANGED faults
     \/ lease[held[p]] = "HELD" /\ SpendFault
  /\ UNCHANGED <<recordVars, lease, planVars, running, paused, ready, pc, held, todo, stop, crashes>>

-----------------------------------------------------------------------------
(***************************************************************************)
(* The end of one record: completeLease, failLease, retryLease.            *)
(***************************************************************************)
\* The loop iteration ends: its locals go out of scope.
DropLease(p) == /\ held' = [held EXCEPT ![p] = NoLease]
                /\ todo' = [todo EXCEPT ![p] = {}]
                /\ healthy' = [healthy EXCEPT ![p] = TRUE]

\* LEASE_HEARTBEAT_LOST, although the record was processed to the end.
HeartbeatLost(p) ==
  /\ pc[p] = "complete"
  /\ ~healthy[p]
  /\ Goto(p, "giveUp")
  /\ UNCHANGED <<recordVars, lease, planVars, running, paused, ready, held, todo, healthy, stop, faultVars>>

\* Variant: the heartbeat is looked at behind the commit.
CompleteThenLook(p) ==
  LET r == HeldRecord(p) IN
  /\ pc[p] = "complete"
  /\ lease' = Released(held[p], "COMPLETED")
  /\ state' = IF state[r] \in InProgress THEN [state EXCEPT ![r] = "TRIAGED"] ELSE state
  /\ \/ healthy[p] /\ Goto(p, "loop") /\ DropLease(p)
     \/ ~healthy[p] /\ Goto(p, "giveUp") /\ UNCHANGED <<held, todo, healthy>>
  /\ UNCHANGED <<generation, planVars, running, paused, ready, stop, faultVars>>

\* Variant: the record is TRIAGED whatever state it is in by now.
CompleteAnyState(p) ==
  /\ pc[p] = "complete"
  /\ healthy[p]
  /\ lease' = Released(held[p], "COMPLETED")
  /\ SetState(HeldRecord(p), "TRIAGED")
  /\ Goto(p, "loop")
  /\ DropLease(p)
  /\ UNCHANGED <<generation, planVars, running, paused, ready, stop, faultVars>>

\* A lost reply takes the same catch block as a failure of the record.
CompleteLease(p) ==
  LET r == HeldRecord(p) IN
  /\ pc[p] = "complete"
  /\ healthy[p]
  /\ lease' = Released(held[p], "COMPLETED")
  /\ state' = IF state[r] \in InProgress THEN [state EXCEPT ![r] = "TRIAGED"] ELSE state
  /\ \/ /\ Goto(p, "loop")
        /\ DropLease(p)
        /\ UNCHANGED faults
     \/ /\ Goto(p, "giveUp")
        /\ SpendFault
        /\ UNCHANGED <<held, todo, healthy>>
  /\ UNCHANGED <<generation, planVars, running, paused, ready, stop, crashes>>

\* Variant: the record is written only by a runner that still holds the lease.
FailOwnLease(p) ==
  LET r == HeldRecord(p) IN
  /\ pc[p] = "fail"
  /\ Writable(r)
  /\ lease' = Released(held[p], "NEEDS_ATTENTION")
  /\ state' = IF lease[held[p]] \in Unreleased
                THEN [state EXCEPT ![r] = "NEEDS_ATTENTION"] ELSE state
  /\ Goto(p, "loop")
  /\ DropLease(p)
  /\ UNCHANGED <<generation, planVars, running, paused, ready, stop, faultVars>>

\* The lease is released only if it is unreleased; the record's state is
\* overwritten regardless.
FailLease(p) ==
  /\ pc[p] = "fail"
  /\ Writable(HeldRecord(p))
  /\ lease' = Released(held[p], "NEEDS_ATTENTION")
  /\ SetState(HeldRecord(p), "NEEDS_ATTENTION")
  /\ \/ Goto(p, "loop") /\ UNCHANGED faults
     \/ Goto(p, "close") /\ SpendFault
  /\ DropLease(p)
  /\ UNCHANGED <<generation, planVars, running, paused, ready, stop, crashes>>

\* Variant: the record is queued again and its lease is left to lapse.
RetryWithoutRelease(p) ==
  /\ pc[p] \in {"backoff", "giveUp"}
  /\ Writable(HeldRecord(p))
  /\ SetState(HeldRecord(p), "QUEUED")
  /\ Goto(p, "close")
  /\ DropLease(p)
  /\ UNCHANGED <<generation, lease, planVars, running, paused, ready, stop, faultVars>>

\* backoff: a Retry-After of at most 15 minutes, after which the drain goes on.
\* giveUp: the failure is the drain's stop reason.
RetryLease(p) ==
  /\ pc[p] \in {"backoff", "giveUp"}
  /\ Writable(HeldRecord(p))
  /\ lease' = Released(held[p], "RETRYABLE")
  /\ SetState(HeldRecord(p), "QUEUED")
  /\ \/ /\ pc[p] = "backoff"
        /\ Goto(p, "loop") /\ UNCHANGED <<stop, faults>>
     \/ /\ pc[p] = "giveUp"
        /\ Goto(p, "close") /\ UNCHANGED faults
        /\ stop' = [stop EXCEPT ![p] = "FAILURE"]
     \/ /\ Goto(p, "close") /\ SpendFault /\ UNCHANGED stop
  /\ DropLease(p)
  /\ UNCHANGED <<generation, planVars, running, paused, ready, crashes>>

\* The record was withdrawn under the runner: the row check rolls the release
\* back and the exception leaves the drain loop.
ReleaseRejected(p) ==
  /\ pc[p] \in {"fail", "backoff", "giveUp"}
  /\ ~Writable(HeldRecord(p))
  /\ Goto(p, "close")
  /\ DropLease(p)
  /\ UNCHANGED <<recordVars, lease, planVars, running, paused, ready, stop, faultVars>>

\* A call of the drain loop itself throws with nothing committed; if it is
\* finishBatch, the batch stays RUNNING.
DrainThrows(p) ==
  /\ SpendFault
  /\ \/ pc[p] = "complete" /\ healthy[p] /\ Goto(p, "giveUp") /\ UNCHANGED <<held, todo, healthy>>
     \/ pc[p] \in {"loop", "lease", "fail", "backoff", "giveUp"} /\ Goto(p, "close") /\ DropLease(p)
     \/ pc[p] \in {"recover", "insert", "close"} /\ Goto(p, "idle") /\ UNCHANGED <<held, todo, healthy>>
  /\ stop' = [stop EXCEPT ![p] = IF pc[p] = "close" THEN "QUEUE_EMPTY" ELSE @]
  /\ UNCHANGED <<recordVars, lease, planVars, running, paused, ready, crashes>>

-----------------------------------------------------------------------------
(***************************************************************************)
(* The clock, the process and the web application.                         *)
(***************************************************************************)

\* expires_at passes before a heartbeat has moved it on.
Lapse(l) ==
  /\ lease[l] = "HELD"
  /\ lease' = [lease EXCEPT ![l] = "LAPSED"]
  /\ UNCHANGED <<recordVars, planVars, running, paused, ready, runnerVars, faultVars>>

\* The process is killed; its rows stay as they are.
Crash(p) ==
  /\ pc[p] # "idle"
  /\ crashes < MaxCrashes
  /\ crashes' = crashes + 1
  /\ Goto(p, "idle")
  /\ DropLease(p)
  /\ stop' = [stop EXCEPT ![p] = "QUEUE_EMPTY"]
  /\ UNCHANGED <<recordVars, lease, planVars, running, paused, ready, faults>>

\* createFeedback commits.  Sequence numbers are drawn before the commit, so a
\* record can appear after one with a larger number.
Submit(r) ==
  /\ state[r] = "ABSENT"
  /\ SetState(r, "QUEUED")
  /\ UNCHANGED <<generation, lease, planVars, running, paused, ready, runnerVars, faultVars>>

\* withdrawFeedback: queued and unleased only.  One step, for nobody else writes
\* the row while it is locked; that leaseOldest passes over it is IsNext.
Withdraw(r) ==
  /\ state[r] = "QUEUED"
  /\ UnreleasedOn(r) = {}
  /\ SetState(r, "WITHDRAWN")
  /\ UNCHANGED <<generation, lease, planVars, running, paused, ready, runnerVars, faultVars>>

\* requeueFeedback: the decisions are kept when one of them can be resumed, and
\* all of them, the terminal ones included, are deactivated when none can.
Requeue(r) ==
  LET resumable == {d \in ActiveOf(r) : decision[d] \in Resumable} IN
  /\ state[r] = "NEEDS_ATTENTION"
  /\ UnreleasedOn(r) = {}
  /\ generation[r] <= MaxRequeues
  /\ active' = IF resumable = {} THEN active \ ActiveOf(r) ELSE active
  /\ SetState(r, "QUEUED")
  /\ generation' = [generation EXCEPT ![r] = @ + 1]
  /\ UNCHANGED <<lease, decision, effects, running, paused, ready, runnerVars, faultVars>>

\* An Owner publishes settings with the pause set or cleared.
TogglePause ==
  /\ "pause" \in Switches
  /\ paused' = ~paused
  /\ UNCHANGED <<recordVars, lease, planVars, running, ready, runnerVars, faultVars>>

\* An Owner selects a model, connects or disconnects its provider; an operator
\* enables or disables writes, or replaces the encryption key.
Reconfigure ==
  /\ "setup" \in Switches
  /\ ready' = ~ready
  /\ UNCHANGED <<recordVars, lease, planVars, running, paused, runnerVars, faultVars>>

-----------------------------------------------------------------------------
BatchStep(p) ==
  \/ StartRun(p) \/ RecoverExpired(p) \/ StartBatch(p) \/ AlreadyRunning(p)
  \/ CheckPause(p) \/ FinishBatch(p)

LeaseStep(p) ==
  \/ NothingToLease(p) \/ LeaseExhausted(p) \/ LeaseConflict(p) \/ LeaseOldest(p)

ProcessStep(p) ==
  \/ ReadOutcomes(p) \/ MarkApplying(p)
  \/ ClaimRecord(p) \/ RecordUnavailable(p) \/ Research(p)
  \/ DecideReady(p) \/ DecideAttention(p)
  \/ ApplyStart(p) \/ InvokeOutcome(p) \/ ApplyTerminal(p)
  \/ RejectRecord(p) \/ ProcessThrows(p)

ReleaseStep(p) ==
  \/ HeartbeatLost(p) \/ CompleteLease(p) \/ FailLease(p) \/ RetryLease(p)
  \/ ReleaseRejected(p)

RunnerStep(p) ==
  BatchStep(p) \/ LeaseStep(p) \/ ProcessStep(p) \/ ReleaseStep(p) \/ DrainThrows(p)

WebStep == \/ \E r \in Records : Submit(r) \/ Withdraw(r) \/ Requeue(r)
           \/ TogglePause \/ Reconfigure

Next == \/ \E p \in Runners : RunnerStep(p) \/ HeartbeatMissed(p) \/ Crash(p)
        \/ \E l \in LeaseId : Lapse(l)
        \/ WebStep

Spec == Init /\ [][Next]_vars

\* leaseOldest finds the oldest queued row unlocked.
TakeOldest(p) ==
  /\ LeaseExhausted(p) \/ LeaseOldest(p)
  /\ \E r \in Queued : IsOldest(r, Queued) /\ state'[r] # "QUEUED"

\* The CronJob starts a runner every day, a running process goes on, and time
\* passes.  A withdrawal ends, so that not every run there will ever be meets
\* one on the oldest row.
Fairness == /\ \A p \in Runners : WF_vars(RunnerStep(p))
            /\ \A l \in LeaseId : WF_vars(Lapse(l))
            /\ SF_vars(\E p \in Runners : TakeOldest(p))

FairSpec == Spec /\ Fairness

-----------------------------------------------------------------------------
(***************************************************************************)
(* Properties.                                                             *)
(***************************************************************************)

\* FR-013: no two runners are ever inside the drain loop together, although a
\* second runner recovers leases before it learns that a batch is running.
OneDrainer ==
  \A p, q \in Runners : pc[p] \in Draining /\ pc[q] \in Draining => p = q

\* The attempts of a record in one requeue generation are 1, 2, .. without gaps
\* and never more than the budget, through recoveries, retries and requeues.
AttemptsAreSequential ==
  \A l \in LeaseId : lease[l] # "NONE" =>
    /\ l[3] <= MaxAttempts
    /\ \A a \in 1..l[3] : lease[<<l[1], l[2], a>>] # "NONE"

\* While a lease is unreleased its record is out of the queue: no other lease,
\* no withdrawal and no requeue can reach it.
LeaseHoldsRecord ==
  \A l \in LeaseId : lease[l] \in Unreleased =>
    state[l[1]] \in InProgress \cup {"NEEDS_ATTENTION"}

\* A decision is TERMINAL only after its GitHub mutation has happened, and a
\* mutation happens only for a decision that was persisted first: a crash
\* between the two can lose neither.
TerminalIsApplied ==
  \A d \in DecisionId : /\ decision[d] = "TERMINAL" => d \in effects
                        /\ d \in effects => decision[d] # "NONE"

\* A record is planned again only by an Admin requeue: attempts, recoveries and
\* retries of one generation share one plan, and only one plan is ever active.
OnePlanPerRequeue ==
  /\ \A d \in DecisionId : decision[d] # "NONE" => d[2] <= generation[d[1]]
  /\ \A d, e \in active : d[1] = e[1] => d[2] = e[2]

\* A TRIAGED record has a plan, and every decision of it that counts is done.
TriagedIsApplied ==
  \A r \in Records : state[r] = "TRIAGED" =>
    /\ DecisionsOf(r) # {}
    /\ \A d \in ActiveOf(r) : decision[d] = "TERMINAL"

\* Outcomes of one plan reach GitHub strictly in ordinal order, through crashes
\* and resumptions: a mutation is only attempted once all before it are TERMINAL.
AppliedInOrder ==
  \A d \in effects : \A e \in DecisionsOf(d[1]) :
    e[2] = d[2] /\ e[3] < d[3] => decision[e] = "TERMINAL"

\* A record that is being worked on is either under an unreleased lease, which
\* recovery will find, or in the hands of a runner that will set its state, as
\* long as no drain loop is broken off by a crash or a failed call.
InProgressIsOwned ==
  faults = 0 /\ crashes = 0 => \A r \in Records : state[r] \in InProgress =>
    \/ UnreleasedOn(r) # {}
    \/ \E p \in Runners : pc[p] \in Working /\ HeldRecord(p) = r

\* A released lease row keeps its result: the late release of a runner whose
\* lease was recovered does not overwrite it, and no key is leased twice.
LeaseResultIsFinal ==
  [][\A l \in LeaseId :
       lease[l] \notin Unreleased \cup {"NONE"} => lease'[l] = lease[l]]_vars

\* Nothing a runner does with a stale lease brings a withdrawn record back.
WithdrawnIsFinal ==
  [][\A r \in Records : state[r] = "WITHDRAWN" => state'[r] = "WITHDRAWN"]_vars

\* A TRIAGED record is done with, except that a drain whose completeLease has
\* committed and was reported as failed queues it once more.
TriagedIsFinal ==
  [][\A r \in Records : state[r] = "TRIAGED" /\ state'[r] # "TRIAGED" => faults > 0]_vars

\* SC-007: every submitted record leaves the queue for good, if from some time on
\* triage is not paused and every run finds an enabled deployment, a selected model
\* and its credential, and if no drain loop is broken off (CrashedBatchEnds below).
EveryRecordSettles ==
  (<>[](~paused /\ ready) /\ [](faults = 0 /\ crashes = 0)) =>
    [](\A r \in Records : state[r] \in Unsettled => <>(state[r] \in Settled))

-----------------------------------------------------------------------------
(***************************************************************************)
(* What the other components rely on.                                      *)
(***************************************************************************)
phase == [r \in Records |-> IF state[r] \in InProgress THEN "LEASED" ELSE state[r]]

Life == INSTANCE Lifecycle

\* The states of records move as FeedbackStorage and SourceApps let triage move
\* them, one record at a time: stale runners, recovery, lost replies and crashes
\* included, no withdrawn record comes back, no record that needs attention is
\* TRIAGED without being worked on again, and only a queued one is withdrawn.
ImplementsLifecycle == Life!Spec

\* The runners that are inside outcomes.apply for decision d, or have its answer
\* and not recorded it.
CallersOf(d) ==
  {p \in Runners : pc[p] \in {"invoke", "terminal"} /\ d \in todo[p] /\ IsFirst(d, todo[p])}

CallState(d) ==
  IF CallersOf(d) = {} THEN IF decision[d] = "TERMINAL" THEN "done" ELSE "idle"
  ELSE IF \A p, q \in CallersOf(d) : p = q THEN "calling" ELSE "overlapping"

Apply(d) == INSTANCE Outcome WITH
  considered <- FALSE, call <- CallState(d), made <- IF d \in effects THEN 1 ELSE 0,
  late <- 0, removed <- 0, orphans <- 0

\* Every decision is applied as GitHubOutcome has its caller do it: one call at a
\* time, a new one only after the last has ended, none once the answer is
\* recorded, and recorded only when the mutation has been made.
CallsAsAgreed ==
  /\ \A d \in DecisionId : Apply(d)!OutcomeInit
  /\ [][\A d \in DecisionId : UNCHANGED Apply(d)!outcomeVars \/ Apply(d)!OutcomeNext]_vars

-----------------------------------------------------------------------------
(***************************************************************************)
(* What the documentation says and the code does not do.                   *)
(***************************************************************************)

\* spec.md: a drain that ends with QUEUE_EMPTY at leaseOldest leaves no
\* eligible record behind.
QueueEmptyMeansDrained ==
  [][\A p \in Runners :
       pc[p] = "lease" /\ pc'[p] = "close" /\ stop'[p] = "QUEUE_EMPTY"
         => \A r \in Records : state'[r] # "QUEUED"]_vars

\* data-model.md: a TRIAGED record has only TERMINAL units.  The retention job
\* relies on it: it skips a record with any other unit.
TriagedUnitsAreTerminal ==
  \A r \in Records : state[r] = "TRIAGED" =>
    \A d \in DecisionsOf(r) : decision[d] = "TERMINAL"

\* plan.md: heartbeats and lease expiry support crash recovery -- the batch of
\* a killed runner does not stay RUNNING for ever.
CrashedBatchEnds == running # NoRunner ~> running = NoRunner
=============================================================================
