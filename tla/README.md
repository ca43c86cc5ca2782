# PointView in TLA+

PointView collects feedback from registered applications, keeps it in
PostgreSQL, and once a day a CLI job (`triage-once`) researches every queued
record, lets a model decide what to do with it, and applies the decision to
GitHub: it creates an Issue, comments on an existing one, or records that the
feedback was considered. This directory holds TLA+ specifications of that
system, the TLC configurations that check them and TLAPS proofs about them.
Paths below are relative to the repository; `specs/.../` stands for
`specs/001-feedback-triage-platform/`.

## Inventory

| Component | State | Operations | Talks to | Module |
|---|---|---|---|---|
| Triage queue and batches: `src/server/triage/batch.ts`, `postgres-queue.ts`, `src/cli/triage-once.ts` | `triage_batches`, `feedback_leases`, `feedback_records.state` | recover, startBatch, isPaused, leaseOldest, heartbeat, complete / fail / retryLease, finishBatch | the runner's loop; the web application through the same rows | `TriageQueue`, `Lifecycle` |
| Record processing: `process-record.ts` | `feedback_units`, `triage_decisions` | resume or claim, research, persist the plan, apply outcomes | research, model, `outcomes.apply` | `TriageQueue`, `Decision` |
| Requeue: `requeue.ts` | `requeue_generation`, `active` | requeueFeedback | Admins | `TriageQueue`, `SourceApps` |
| Outcome application and ledger: `src/server/github/apply-decision.ts`, `outcome-applier.ts`, `operations.ts`, `mutation-port.ts`, `preconditions.ts` | `github_operations`, GitHub itself | apply (create, merge, considered), ledger get / put | GitHub over HTTP | `GitHubOutcome`, `Outcome` |
| Decision orchestrator and validator: `orchestrator.ts`, `decision-validator.ts`, `risk-review.ts`, `decision-schema.ts` | none | decide, validate, correct, review | the model | `Decision` |
| Research: `src/server/research/*` | one cache per batch | prepare, snapshot, packet | GitHub, git, attachments | `Decision` |
| Feedback intake and withdrawal: `src/server/feedback/*` | `feedback_records`, payloads, attachments, the launch it consumes | create, list, read, annotate, withdraw | files, audit | `FeedbackStorage`, `TriageQueue`, `SourceApps` |
| Attachment storage: `src/server/storage/file-store.ts` | files | stage, commit, abort, delete | intake, withdrawal, retention | `FeedbackStorage` |
| Retention: `src/server/retention/run.ts` | raw payload and files | one run | the same rows and files | `FeedbackStorage` |
| Accounts, sessions, bootstrap: `src/server/accounts`, `auth` | `accounts`, cookies in browsers | find or create, update, authenticate | every route | `AccessControl`, `Accounts` |
| Source apps and launches: `src/server/source-apps`, `launch` | `source_apps`, `source_app_keys`, nonces, launch sessions | register, PATCH, launch | Owners, GitHub for validation, triage | `SourceApps` |
| Settings and provider connections: `src/server/config`, `providers/repository.ts` | versioned settings, model profiles, encrypted credentials | select, connect, disconnect, renew | Owners | `ModelSettings`, `Configuration` |
| Device sign-in: `src/server/providers/codex/authorization.ts`, `app-server.ts`, `src/components/admin/settings-admin.tsx` | sessions in a map, credential directories, child processes, timers | start, poll, finish, dispose | the Codex child process, the page | `DeviceLogin` |
| Audit chain: `src/server/audit/*` | `audit_events` | append | every mutating transaction | – |
| GitHub client, rendering, rate limit, readiness, metrics, pages, SDK, deployment | in memory or none | – | – | – |

Interactions. Everything durable is one PostgreSQL database: the runner and the
web application never call each other, they meet on rows. The runner reaches
GitHub and the model by HTTP, in the middle of a record, outside of any
transaction. A lease (300 seconds, the default of `PostgresDrainQueue`, renewed by
a timer every 100) tells a dead runner from a live one; the unique RUNNING row of `triage_batches` keeps a second runner
out; the operation ledger and a marker in the Issue or comment tell whether a
mutation whose reply was lost has happened. In the web application every
mutating route is one transaction of a service, with row locks, an advisory
lock or an expected version; what goes on outside of transactions is the
validation of a GitHub target, the screenshot files and the device sign-in.

What is hard. Every `await` is a point where the process can die, the reply can
be lost, a lease can lapse, another request can commit, and a person can edit
what is on GitHub. `PROJECT.json` lists each such place under "hazards", at its
line, with the property that covers it.

What makes each component correct, in short:

- queue: one drainer; a leased record is nobody else's; attempts bounded per
  requeue generation; a released lease row is final; every record settles;
- processing: one plan per requeue, outcomes in ordinal order, TERMINAL only
  after the mutation, TRIAGED only after all outcomes that count;
- decision: a plan stands on what its own run read; nothing risky without a
  second answer that agrees;
- outcome application: no second artifact, CONFIRMED only after an exact
  readback, no write after a drift;
- intake, storage, retention: rows and files agree after any crash; one record
  per launch; raw data gone in time and never too early;
- access: at least one active Owner, Owners made by Owners, no authority that
  was not held;
- source apps: a queued record keeps its target, no edit overwrites one it has
  not seen, a key identifier names one key, a token opens one session;
- settings: the selected model is offered by a connected provider; versions are
  never lost; deadlocks end;
- device sign-in: every credential directory removed, one winner, no page that
  waits for ever.

## Modules

Operators called "Variant" in their comment are plausible mistakes in the code;
they are not part of any next-state relation. `PROJECT.json` pairs each with the
property that catches it.

**`TriageQueue`** – the runner, the drain loop, the PostgreSQL queue and the
processing of one record, with the web application's steps on the same rows.
One action is one transaction or one external call of the code, in the code's
order; `pc[p]` is the await at which runner `p` stands.

| Model | Code |
|---|---|
| `StartRun` | `triage-once` up to `drainQueue`: TRIAGE_WRITES_DISABLED, `readRuntimeProfile` and `loadProviderCredential` can end the run there |
| `RecoverExpired`, `StartBatch`, `AlreadyRunning` | `#recoverExpired`, `startBatch` |
| `CheckPause`, `FinishBatch` | loop head of `drainQueue`, `finishBatch` |
| `LeaseOldest`, `LeaseExhausted`, `LeaseConflict`, `NothingToLease` | the four ends of `leaseOldest` |
| `ReadOutcomes`, `MarkApplying`, `ClaimRecord`, `RecordUnavailable` | resume or claim in `processRecord` |
| `Research`, `DecideReady`, `DecideAttention` | research, the decision and the plan transaction `persistPlan` |
| `ApplyStart`, `InvokeOutcome`, `ApplyTerminal` | one turn of `applyOutcomes` |
| `RejectRecord`, `ProcessThrows`, `HeartbeatMissed`, `HeartbeatLost` | RecordFailure, any other exception, the heartbeat timer |
| `CompleteLease`, `FailLease`, `RetryLease`, `ReleaseRejected`, `DrainThrows` | the release of a lease and its failures |
| `Lapse`, `Crash` | `expires_at` passes; the Job is killed |
| `Submit`, `Withdraw`, `Requeue`, `TogglePause` | the web application |
| `Reconfigure` | an Owner selects a model, connects or disconnects its provider; an operator enables writes or replaces the encryption key |

Clock values are abstracted: an unreleased lease is HELD before `expires_at`
and LAPSED after. `DecisionState` folds the states of a unit and of its only
decision, which are always written in one transaction. `ready` is what a run needs before it reaches
the queue: writes enabled, a model selected, its provider connected, a stored
credential that can be decrypted. `leaseOldest` selects `for update skip locked`, so
it passes over rows a withdrawal has locked, which are any of the queued ones
(`IsNext`): it leases the oldest of the others, or finds nothing although records
are queued. GitHub is the set `effects` of decisions whose mutation has happened; how that is obtained is
`GitHubOutcome`'s subject, and how a plan comes about is `Decision`'s.

**`Lifecycle`** – the contract about `feedback_records.state` between triage and
everything else that looks at it. `LEASED` stands for every state in progress.

| Model | Code |
|---|---|
| `Submit`, `Withdraw`, `Requeue` | `createFeedback`, `withdrawFeedback`, `requeueFeedback` |
| `Take`, `GiveBack`, `Settle` | `leaseOldest` (and the late write of a runner whose lease has lapsed); `retryLease` and recovery; `completeLease` |
| `Stop` | `failLease`, a plan for a human, used-up attempts; also of a record that is back in the queue |
| `Resume` | a record given up that recovery queues again, or that a runner without a lease goes on with |
| `Reopen` | `completeLease` committed, its reply was lost, and `retryLease` follows |

**`Outcome`** – the contract between the triage loop and `outcomes.apply` for one
decision: calls do not overlap, they fail or succeed, success means the mutation
is made, a mutation is made only if it has not been, except for a request GitHub
carries out late and for what a person has removed; no call follows the answer.
`GitHubOutcome` keeps the side of the called, `TriageQueue` the caller's.

**`GitHubOutcome`** – `GitHubOutcomeApplier.apply` for one decision, over the
ledger and GitHub, await by await. It implements `Outcome` under the mapping in
`Abstract`.

| Model | Code |
|---|---|
| `Begin`, `Return` | a call of `apply`; its answer TERMINAL |
| `Get`, `Put`, `PutInserted` | `PostgresOperationLedger.get` and `put`, whole or cut off behind its insert |
| `Check`, `Find`, `Create`, `Refresh`, `Readback`, `ArtifactMissing` | the precondition readbacks, the search for the marker, the creation, the exact readback |
| `SetLabels`, `AddToProject`, `SetFields`, `SetSomeFields` | the three writes behind a new Issue |
| `AttemptFails`, `CreateLate` | any await rejects; GitHub carries out a creation its caller has given up |
| `ChangeWorld`, `Edit` | people change the target, the Project or the artifact |

`world` is a precondition snapshot, so that drift is a comparison of two model
values. Attempts follow one another; that they never overlap is `CallsAsAgreed` of
`TriageQueue`.

**`FeedbackStorage`** – the raw content of a submission in its two places, rows
and files, which no transaction spans: several submissions from one launch,
the withdrawal of a record, several runs of the retention job.

| Model | Code |
|---|---|
| `Stage`, `RejectScreenshot` | the loop of `createFeedback` before its transaction: normalize, scan, `store.stage` |
| `OpenLaunch`, `LaunchRefused` | `select .. for update of ls` and its refusal |
| `MoveFile`, `Commit` | `staged.commit()` of each file inside the transaction; consumption of the launch and commit |
| `RequestFails`, `Cleanup`, `CrashRequest` | an await throws; the `catch` block; the web process is killed |
| `WithdrawBegin`, `WithdrawDelete`, `WithdrawCommit`, `WithdrawFails` | `withdrawFeedback`, one transaction around file deletions |
| `RetentionSelect`, `RetentionDelete`, `RetentionCommit`, `RetentionFails` | `runRetention`, one candidate: selection, files, locked re-check with rows and audit event, `catch` |
| `Expire`, `FallDue` | `expires_at`, `raw_delete_after` |
| `Triage`, `Reopen` | the moves `Lifecycle` allows: triage skips or waits for a row a withdrawal holds; a lost reply of `completeLease` costs a fault |

Inserts are made visible by `Commit`, as they are in PostgreSQL. Triage here is
only what the two removals test: a state, whether a unit was left in a state
other than TERMINAL (`rejected`), and whether the 180 days are over. A file that
`writeFile` left incomplete is a staged file the request does not know of. The
history variables `lost` and `leaked` name what no code can clean up: a commit
that was reported as failed, a process that was killed, an unlink that failed.

**`ModelSettings`** – the settings row in force, the model profiles and the
provider connections, changed by concurrent READ COMMITTED transactions.

| Model | Code |
|---|---|
| `Open` | an Owner's form, or the credential a Codex runtime has renewed |
| `LockSettings`, `LockOffer` | `updateSettings`: `select .. for update` of the current row and its version check; `for share` of the provider and the check of its catalog |
| `LockConnection`, `NoConnection`, `Upsert` | `select .. for update` of the provider row and the checks that follow, with and without a row; `insert .. on conflict do update` |
| `ScanProfiles`, `LockProfile` | the statement on the active profiles: the rows it finds, then their locks one by one |
| `ScanSettings`, `LockSelection` | `update application_settings set model_profile_id = null`, likewise |
| `CommitSelect`, `CommitConnect`, `CommitDisconnect`, `CommitRefresh` | all writes of the transaction |
| `Rollback`, `DetectDeadlock` | an exception or a killed process; PostgreSQL ends a waiting transaction |

Locks are taken statement by statement because that is where the interleavings
are: a statement that waits for a row chose it before it waited, and afterwards
PostgreSQL looks at this row again but not for others. So the rows of a
statement are chosen in its scan (`targets`) and re-evaluated when the writes
happen (`Deactivated`, `ClearSelection`). The writes become visible together, at
the commit. `appendAuditEventInTransaction` comes last in each transaction and
takes its advisory lock when no other lock is asked for any more, so it adds no
deadlock and is left out.

**`Configuration`** – what `ModelSettings` implements: each provider offers some
models, and selecting one, connecting and disconnecting happen at once.

**`AccessControl`** – the accounts, the session cookies and the requests that
sign in or change an account, statement by statement.

| Model | Code |
|---|---|
| `SignIn`, `Answer` | `POST /bootstrap` and `POST /launch` from the identity assertion to the session cookie |
| `Edit`, `Authenticate`, `Refuse` | `PATCH /api/admin/accounts/..`: `authenticateSession` reads the acting account's role of now; assertion, CSRF token, rate limit or body refuse |
| `LockFirstOwner` | `withAdvisoryTransaction(sql, "firstOwner")` |
| `FindAccount`, `CountAccounts`, `InsertAccount` | `findOrCreateAccount` |
| `ReadAccount`, `CountOwners`, `CommitAccount` | `updateAccount` with `validateAccountTransition`; the update tests the version again |
| `Rollback`, `Expire` | an exception or a killed process; the eight hours of a cookie |

`appointedBy` and `since` are history: who first made an account an Owner, and
the roles an acting account has held since its request came.

**`Accounts`** – what `AccessControl` implements: a first sign-in (`Found`), a later
one (`Join`) and an edit (`Change`) happen at once, on the table as it is then.

**`SourceApps`** – one source app, its keys and its target, against launches,
submissions, triage and requeue.

| Model | Code |
|---|---|
| `CreateSource` | `createSourceApp`, one transaction |
| `Patch`, `Observe`, `Validate`, `Abandon` | `updateSourceApp` up to its transaction: the first read, the validation by GitHub, an error answer anywhere |
| `LockSource`, `CountActive`, `CommitSource` | the transaction: `for update` and the version again, the active feedback if the target changes, the row and the keys |
| `Present`, `ReadSource`, `ReadKeys`, `Consume`, `Turn` | `POST /launch`: `verifySourceLaunch` read by read, `consumeVerifiedLaunch`, a refusal anywhere |
| `SelectSession`, `InsertRecord`, `CommitRecord`, `RollbackRecord` | `createFeedback` as far as it reads the source app |
| `Triage`, `Return` | the moves `Lifecycle` allows, of a record in the queue or in triage, and of one that comes back: `requeueFeedback`, a resumed record, a lost reply of `completeLease`; none takes a lock of the source app |

A new record locks the source row by its foreign key until it commits, and that
is what closes the gap between the count of active feedback and the write; the
variant `InsertUnlocked` shows what happens without.

**`DeviceLogin`** – signing in to ChatGPT with a device code: two requests, a
child process, a directory with a credential, a timer and a page that polls.

| Model | Code |
|---|---|
| `Begin`, `DisposeEarlier`, `RemoveEarlier` | `POST codex/device`, which disposes of the account's earlier sessions one by one |
| `MakeHome` | `mkdtemp` and `mkdir`, outside of the `try`; either may fail |
| `StartChild`, `Register`, `FailStart`, `RemoveStarted` | the rest of `startCodexAuthorization`, its `catch` and the rm in it |
| `Notify`, `ExitChild` | `account/login/completed` from the child; its end |
| `TenMinutes`, `FireTimer`, `RemoveExpired` | `expiresAt`, the timer and the `void dispose` it calls |
| `Ask`, `Refuse`, `AnswerExpired`, `AnswerWaiting` | a poll of the page and the answers of `POST codex/status` |
| `DropSession` | the poll that finds its session expired or its login failed |
| `BeginFinish`, `ReadCredential`, `DiscoverModels`, `Save`, `FailFinish` | `finishCodexAuthorization` await by await |
| `RemoveOwn` | the rm of that poll, or of the `finally`, and its answer |
| `Restart` | the web process is killed: the map, the timers and the children go, the directories stay |

`dispose` is two steps. `Dispose` takes the session out of the map and stops its
child at once; the rm it then awaits removes the directory (`Removed`) or rejects
(`NotRemoved`), and other requests run in between. After a rejected rm the session
is in no map any more, so no poll and no new sign-in comes back to it. What does
is the timer: nothing clears it, so it disposes of every session it was set for,
also of one that is gone, and removes what an earlier rm has left. When the
timer's own rm rejects, or one that comes after it, or the one in the `catch`, or
`mkdir` behind `mkdtemp`, the directory stays for good: the history variable
`leaked` names it, as `orphans` names the directories of a killed process, and
`HomeIsOwned` and `EveryHomeIsRemoved` speak of the others.

**`Decision`** – what happens between the claim of a record and its plan, over a
whole batch and the batches that follow one which stopped.

| Model | Code |
|---|---|
| `Lease` | `processRecord`'s claim, which reads the version of the source app |
| `GetSnapshot`, `SourceChanged`, `CollectProject`, `ResearchFails` | `BatchSourceSnapshotCache.get`, and on a miss the re-read of the registration and the read of the Project |
| `BuildPacket` | the manifest, the attachments and `buildEvidencePacket` |
| `Respond`, `ModelFails` | an answer through `decideValidated`: accepted, corrected once, or an error; a provider that refuses |
| `Fails`, `UnitFaults`, `FirstFault`, `Fault`, `Valid` | `validateTriageDecision`, check by check in its order |
| `ReasonsOf`, `AuthoritySignature`, `Disagree` | `reviewReasons`, `authoritySignature`, `INDEPENDENT_REVIEW_DISAGREEMENT` |
| `PersistPlan` | `persistPlan`, READY or for attention |
| `EndRecord`, `StopBatch`, `NextBatch` | `validationFailure` tells an error of the record from one that stops the batch; the next CronJob |
| `UpdateSourceApp`, `MoveIssue` | an Owner's PATCH; people on the Project |

An answer is any member of the constant `Responses`; ranking and byte budgets
are a choice among the eligible Issues.

How they compose. `TriageQueue` is the frame, and two contracts tie the others to
it. `Lifecycle` is what a record does: `TriageQueue` and `FeedbackStorage` both
implement it under the property `ImplementsLifecycle`, and `FeedbackStorage` and
`SourceApps` take their triage steps from it, so that what they allow triage to do
is what the queue is shown to do. `Outcome` is one decision's `apply`: each decision
of `TriageQueue` is called as it says (`CallsAsAgreed`), and `GitHubOutcome` answers as
it says (`ImplementsOutcome`). `Decision` is what the queue's `Research`, `DecideReady`
and `DecideAttention` stand for. `ModelSettings` refines `Configuration`, and
`AccessControl` refines `Accounts`. The others share only rows that one of them
owns.

The `MC` modules are the instances for TLC, the `Proofs` modules the theorems.

## Runs

| Run | Instance | Shows |
|---|---|---|
| `queue` | 2 runners (symmetric), 1 record, 2 attempts, 2 units, 1 requeue, 1 crash, 1 fault, withdrawals that lock the row; 2.1 million states | `OneDrainer`, `TerminalIsApplied`, `AppliedInOrder`, `OnePlanPerRequeue`, `TriagedIsApplied`, `LeaseHoldsRecord`, `InProgressIsOwned`, `CallsAsAgreed`, `TriagedIsFinal`, `ImplementsLifecycle` |
| `queue_live` | 2 runners, 2 records, 1 attempt, 1 fault, withdrawals that lock either row, pauses, runs that end before the queue, fair; 1.7 million states | `EveryRecordSettles` |
| `queue_crash` | 2 runners, 1 record, 1 crash, fair | see Findings |
| `github` | 3 snapshots (2 valid), 5 artifacts, 2 failures, 2 edits, 2 changes of the target, fair; 0.8 million states | `NoDuplicate`, `ConfirmedIsExact`, `NoWriteAfterDrift`, `ImplementsOutcome`, `Settles` |
| `storage` | 2 requests from one launch, 2 retention jobs, 2 screenshots each, 3 faults or kills, fair; 48 thousand states | `LaunchMatchesRecord`, `RemovedMeansNoFiles`, `RemovalAuditedOnce`, `NoStrayFile`, `RemovedOnlyWhenDue`, `RetentionCompletes`, `ImplementsLifecycle` |
| `settings` | 2 requests, 3 providers of which one has no row, 2 models, 3 transactions, 1 failure, fair; 0.5 million states | `ActiveIsSelected`, `ReplacesWhatItSaw`, `ImplementsConfiguration`, `EveryRequestEnds` |
| `settings_first` | the same | see Findings |
| `access` | 2 identities, 2 requests (both symmetric), 4 ranks a form can ask for, versions to 3; 1.1 million states | `LastOwner`, `ActsInAHeldRole`, `ImplementsAccounts` |
| `sources` | 2 PATCHes, 2 launches (both symmetric), 2 tokens, 2 kids with 2 keys, 4 forms over 2 targets, versions to 3; 3.3 million states | `OneSessionPerLaunch`, `QueuedKeepsTarget`, `ReplacesTheVersionSeen`, `KidKeepsKey` |
| `login` | 2 sign-ins of one Owner or two, 1 kill of the web process, an rm or mkdir that may fail each time, fair; 0.5 million states | `HomeIsOwned`, `OneSavePerVersion`, `EveryHomeIsRemoved`, `PageSettles` |
| `decision` | 2 records, both providers, 2 Issues, 1 web page, 17 answers that pass or fail every check, 1 PATCH, 1 moved Issue, 2 batches; 0.8 million states | `RiskIsReviewed`, `PlanIsGrounded` |
| `decision_screenshots` | 1 record with a screenshot, 1 provider | see Findings |

Six more configurations are kept for runs by hand: each refutes a further
documented claim (Findings).

Why the bounds are enough. Two runners are what it takes for one to recover
the lease of another, and a third does nothing that the second cannot. One
record is enough for everything about its own leases, plans and states, and
`queue` gives it crash, fault, requeue and a second attempt at once; leases of
different records meet only in `leaseOldest`, which `queue_live` covers with
two records, locked rows that are passed over, the insert that meets a lapsed
lease of the other record, and a record that runs out of attempts before
another. That no step moves two records, or leases two, is in the theorems.
`Switches` says what people change in an instance and `Lockable` which rows
their withdrawals can hold when `leaseOldest` looks. Pause and setup are left
to `queue_live`: a paused loop closes its batch as one that finds every row
locked does (only the reported stop reason differs), and a run that ends early
changes nothing, so neither adds a step to what the invariants of `queue` are
about. Two attempts distinguish "retry" from "exhausted"; two units
distinguish a plan half applied from one applied; one requeue gives two plans.
In `GitHubOutcome` two failures give an attempt cut off twice in different
places, and five artifacts never run out under two failures and two edits (a
run that hit that bound would only stop, not err). Two valid snapshots are
needed for a drift that still satisfies the preconditions. In
`FeedbackStorage` a launch allows one record, so two requests are all that can
race for it and two jobs for its removal; two screenshots give a submission, a
withdrawal or a removal stopped between them; three faults let one of each go
wrong in the same behaviour. In `ModelSettings` every lock conflict is between
two transactions; a third transaction comes before them, to select the model
the two then fight about: selecting another one against disconnecting its
provider is such a pair, and ends in a deadlock. Two known providers make the
selection move from one to the other, the third has the first connection. In
`AccessControl` two accounts and two requests are what two Owners need to
demote each other, or two identities to sign in to an empty installation;
version 3 leaves each account two edits, one to be made an Owner and one to
lose it. In `SourceApps` two PATCHes overwrite each other or not, two launches
present one token at once, two keys are dropped and listed again within three
versions, and one form of the four lists a known kid with another key. In
`DeviceLogin` two sign-ins compete for a version or dispose of one another. In
`Decision` the second record meets the snapshot the first has taken, after a
PATCH or a move on the Project; the answers include one that fails each check
of the validator, two creations that differ in their fields, merges into
either Issue, and a decision of two units; the second batch starts with an
empty cache.

Deadlock is checked in the queue, access and sources runs. It is not in the
others: after TERMINAL, after the removal of the record, when the bound on
transactions or batches is reached or both sign-ins are over, nothing is left
to do.

Fairness. `TriageQueue!Fairness` is weak fairness of each runner's own steps
(the CronJob starts a runner every day; Node goes on with a resolved promise)
and of the passing of time, and strong fairness of `TakeOldest`: a
withdrawal's transaction ends, so that of all the drains that look for the
oldest row not every one meets a withdrawal there. `EveryRecordSettles` is
conditional on what an Owner or an operator can take away: from some time on
triage is not paused, and every run is `ready`, that is, finds writes enabled,
a model selected, its provider connected and its credential loadable. An Owner
who leaves the model unselected or the provider disconnected leaves every
record in the queue, as a lasting pause does; TLC refutes the property without
either condition, and without `TakeOldest`. Like `InProgressIsOwned` it speaks
of behaviours in which no call of the drain loop has failed and no process was
killed (`faults = 0`, `crashes = 0`): a killed runner leaves its batch
RUNNING, see `queue_crash`. Everything that goes wrong with a record itself -
research, model, GitHub, a heartbeat - is in them. `GitHubOutcome!FairSpec`
has the decision attempted again and again and every accepted request carried
out: attempts come from drains, under the conditions just given, and, when
those are used up, from an Admin's requeue, so `Settles` says what is reached
if people keep trying and nothing interferes, not that one drain is enough.
`FeedbackStorage!FairSpec` has the retention job run every day
(`RetentionStep` of each job) and days pass (`FallDue`); nobody has to submit,
withdraw or triage anything. `ModelSettings!FairSpec` says that PostgreSQL
goes on with a statement that is not blocked and that its deadlock detector
finds every cycle (`DetectDeadlock` weakly fair); nobody has to open a form.
`DeviceLogin!Fairness` has a request go on (its calls to the child time out
after 30 seconds, an rm ends, whichever way), an open page poll, time pass and
the timer fire; the person, the child and the file system owe nothing.
Failures are bounded where they are counted, which is the usual "eventually
stops failing".

## Proofs

Every invariant and action property of the passing runs is proved for every value
of the constants that the named assumptions admit, and so is every refinement.
`TypeCorrect`, in every module, is type correctness. Some theorems have no run of
their own because a checked refinement implies what they state:
`WithdrawnIsFinal` and `ImplementsLifecycle` (no action leaves WITHDRAWN),
`SelectedIsOffered` and `ImplementsConfiguration`, `OwnersGoBackToOne` and
`ImplementsAccounts`; the types and the lemma-like `TerminalIsConfirmed`,
`AttemptsAreSequential` and `LeaseResultIsFinal` are proved only.

**`TriageQueueProofs`** (`BoundsAssumption`, `NullAssumption`):

| Theorem | States |
|---|---|
| `DrainExclusion` | `Spec => []OneDrainer` |
| `LeaseProtectsRecord` | `Spec => []LeaseHoldsRecord` |
| `WithdrawalIsFinal` | `Spec => WithdrawnIsFinal` |
| `BoundedRetries` | `Spec => []AttemptsAreSequential` |
| `LeaseHistoryIsFinal` | `Spec => LeaseResultIsFinal` |
| `NothingLost`, `OnePlan`, `InOrder`, `TriagedIsDone` | `Spec => []TerminalIsApplied`, `[]OnePlanPerRequeue`, `[]AppliedInOrder`, `[]TriagedIsApplied` |
| `OwnedInProgress` | `Spec => []InProgressIsOwned` |
| `TriageIsFinal` | `Spec => TriagedIsFinal` |
| `LifecycleKept` | `Spec => ImplementsLifecycle` |
| `CallsAreAgreed`, `EachDecisionAgreed` | `Spec => CallsAsAgreed`; for each decision, `Spec => Apply(d)!OutcomeSpec` |

`OneDrainer` is not inductive; `DrainerOwnsBatch` (a runner in the loop is the one
the RUNNING row names) is. `LeaseHoldsRecord` is not inductive because
`completeLease` and `retryLease` move the record although they release one lease
only: `OneUnreleased` says there is no other unreleased lease in the system,
`WorkerHoldsLease` that it is the one the runner at work holds. With
`DrainerOwnsBatch` and the types they make `LeaseInv`. `WithdrawnIsFinal` follows
from the row check `Writable` and the guards on the state, step by step.
`BoundedRetries` counts: the next attempt is one more than the number of leases
of the generation, and the existing ones are exactly 1 up to that number
(`CountOfPrefix`, by cardinality of an interval), so the new one continues them.
The four properties of plans share `PlanInv`: a plan is active as a whole or not
at all (`WholePlans`); what a runner still has to apply and what is TERMINAL make
up the active plan (`Applies`), so that an empty rest means TRIAGED is true; and
a record without an active plan has been requeued since its last one
(`SpentPlans`), so that planning again makes a new generation's plan. The web
application's steps keep these because they test the unreleased lease, which
`LeaseInv` provides. `OwnedInProgress` says of each step that gives up a lease or
the work on it that it takes the record out of the states in progress
(`OwnedStands`).

The contracts need to know in which state a record can be when its runner
releases it, for `failLease` and `retryLease` write without looking. `Parting` says
so: at `fail` and `backoff` the record is not TRIAGED, at `giveUp` it is only after
a failed call, and a record under work is never ABSENT. With it `StateMoves` shows
that each step moves at most one record and lists the moves there are;
`TriagedIsFinal` and the refinement of `Lifecycle` (`MoveOfPhase` maps each move to
an action of the contract, a move between two states in progress to a stutter)
are read off that list. In `CallsAsAgreed` a decision is being called while a
runner is at `invoke` or behind it with that decision first in its rest
(`CallersOf`). `OneCaller` follows from `DrainerOwnsBatch`; `InvokeOutcome` maps to the
mutation and the end of the call, an answer recorded by `ApplyTerminal` ends it for
good, a crash or an exception abandons it, and every other step leaves every
decision alone (`OtherCalls`, `PersistCalls`, `ApplyCalls`).

**`GitHubOutcomeProofs`** (`NoRowAssumption`, the module's bounds):

| Theorem | States |
|---|---|
| `OneArtifact` | `Spec => []NoDuplicate` |
| `ExactReadback` | `Spec => []ConfirmedIsExact` |
| `ConfirmedFirst` | `Spec => []TerminalIsConfirmed` |
| `DriftWritesNothing` | `Spec => NoWriteAfterDrift` |
| `Implements` | `Spec => ImplementsOutcome` |

`Control` says what each point of an attempt tells of the row and of the artifact
in hand: behind the pending row the row holds the attempt's own snapshot, and a
CONFIRMED row sends every later attempt straight to its answer. `Unmade` carries
the duplicate argument: at the points between a search that found nothing and
the creation, every marked artifact is one that was carried out late, and each
of those has spent a failure (`Counted`). The refinement maps a creation to
`Mutate`, a late one to `MutateLate`, an edit that removes the marker or the
artifact to `Remove`, `Return` to `Succeed` and every other step to a stutter.

**`FeedbackStorageProofs`** (`StorageAssumption`):

| Theorem | States |
|---|---|
| `OneRecordPerLaunch` | `Spec => []LaunchMatchesRecord` |
| `RemovalIsComplete` | `Spec => []RemovedMeansNoFiles` |
| `RemovalIsAudited` | `Spec => []RemovalAuditedOnce` |
| `RawContentIsKept` | `Spec => RemovedOnlyWhenDue` |
| `NothingStays` | `Spec => []NoStrayFile` |
| `StorageKeepsLifecycle` | `Spec => ImplementsLifecycle` |

`LaunchInv` adds to `LaunchMatchesRecord` that the request at `move` holds the
lock of a launch that is still open and has no record yet: the row lock is what
keeps the second request out. `RemovalInv` adds that files move only while their
request has no record, so none can reappear after a removal. `KeepInv` relates
the two removers to the state of their record: a withdrawal's is QUEUED because
the row is locked, a job's is TRIAGED and due because both are final there.
`StrayInv` says that a request knows every file it has on disk, unless it is
`leaked`, so that its cleanup reaches all of them. A commit is the contract's
`Submit` because the request at `move` has no record (`LaunchInv`); a withdrawal is
its `Withdraw` because the row is locked from the check to the commit.

**`ModelSettingsProofs`** (`SettingsAssumption`):

| Theorem | States |
|---|---|
| `ActiveIsAlwaysSelected` | `Spec => []ActiveIsSelected` |
| `SelectedIsAlwaysOffered` | `Spec => []SelectedIsOffered` |
| `ReplacesOnlyWhatItSaw` | `Spec => ReplacesWhatItSaw` |
| `ImplementsAtomicConfiguration` | `Spec => ImplementsConfiguration` |

The inductive invariant `Inv` is the argument a reader of the code makes: row
locks exclude each other (`Exclusive`); what a transaction has read under a lock
is still so (`Holding`: the settings version its Owner saw, the connected
provider and its catalog); every active profile its scan was to find is among
those it has locked or is about to lock (`Covered`), for the only one who could
add another is kept out by the settings lock or the provider lock
(`SelectExcludes`); and the settings row that names a dropped profile is locked
before the commit that drops it (`Clearing`). The lock on the provider row, `for
share` in `updateSettings`, is in every one of these steps: without it
(`ReadOffer`) a model no provider offers is selected and `ImplementsConfiguration`
fails. `ReplacesWhatItSaw` needs `Seen` besides:
who found no row had seen version 0. The refinement maps `CommitSelect` to
`Select`, the commits of connecting and disconnecting to `Offer`, and every
other step to a stutter.

**`AccessControlProofs`** (`AccessAssumption`):

| Theorem | States |
|---|---|
| `OwnerRemains` | `Spec => []LastOwner` |
| `OneFirstOwner` | `Spec => []OwnersGoBackToOne` |
| `NoStaleAuthority` | `Spec => []ActsInAHeldRole` |
| `AccountsImplemented` | `Spec => ImplementsAccounts` |

`Sound(r)` is what a request has read and not yet used and what still holds: only
a holder of the `firstOwner` lock writes accounts, so the rank found, the number
of accounts and the permission of the transition are true when the row is
written. Then a demotion of the last active Owner is refused (`AnotherOne`: a
count above one leaves another), an insert as first account meets an empty
table, and an Owner is only appointed by one who was an Owner. The refinement
reads the same facts at the two statements that write: `InsertAccount` is `Found`
or `Join` (`InsertIsJoin`), `CommitAccount` is `Change` (`CommitIsChange`), everything
else is a stutter.

**`SourceAppsProofs`** (`SourceAssumption`):

| Theorem | States |
|---|---|
| `OneSession` | `Spec => []OneSessionPerLaunch` |
| `TargetIsKept` | `Spec => []QueuedKeepsTarget` |
| `SeenIsReplaced` | `Spec => ReplacesTheVersionSeen` |
| `KidIsKept` | `Spec => KidKeepsKey` |

`PatchSound`: between the lock and the commit the version is the one the Owner
saw, and a PATCH that moves the target knows that whatever is active has been
requeued. `RecordSound`: a record being inserted keeps the source row locked, and
a token has opened a session exactly when one exists for it.

**`DeviceLoginProofs`** (`LoginAssumption`): `HomesAreOwned`
(`Spec => []HomeIsOwned`) and `OneSave` (`Spec => []OneSavePerVersion`). The first is
inductive with the types, `Unbegun` and `Awaits` (a POST awaits the rm of an earlier
session only before it has a directory of its own, so the error it may end with
leaves none behind). `RemovalOwned` is the argument about an rm, whoever awaits it:
one that succeeds takes the directory away, one that fails leaves it to a timer
that is still to fire or counts as `leaked`. `OneSave` needs `SavedIsPast`: a
save raises the version above the one its sign-in had seen.

**`DecisionProofs`** (`DecisionAssumption`): `Grounded` (`Spec => []PlanIsGrounded`),
`RiskReviewed` (`Spec => []RiskIsReviewed`) and `TypeCorrect`, for any answers of the
model. A
cached snapshot belongs to the version it is filed under (`Filed`), so the packet
is of the registration the record was leased under (`Packed`); what was accepted
passed every check against the packet that is still there (`Decided`), and no
second answer was asked for only when the first gave no reason (`Undisputed`).
Two lemmas carry the validator: a valid unit fails no check (`ValidUnit`), and
every risk is a reason or fails a check (`RiskIsAReason`). Type correctness rests on
the order of the checks: an answer that is not valid fails some check of some
unit, so there is a first one to take the error from. `LeastExists` proves it from
the well-foundedness of `<` on the naturals (`WFMin` of the library, applied to a
relation and not to an operator), and `FirstFaultIsACheck` that the first fault is
among the checks that failed.

Only model-checked: the liveness properties, `EveryRecordSettles`, `Settles`,
`RetentionCompletes`, `EveryRequestEnds`, `EveryHomeIsRemoved` and `PageSettles`,
because TLAPS does not reason about fairness and ENABLED.

## Findings

Three are runs that TLC must refute:

- `queue_crash` (`CrashedBatchEnds`): the batch of a killed runner stays RUNNING
  and every later run ends with ALREADY_RUNNING (`src/server/triage/postgres-queue.ts:42`;
  against `specs/.../plan.md:64`, "Heartbeats and lease expiry support crash
  recovery").
- `settings_first` (`CredentialIsBound`): two Owners connect a provider that has
  no row yet; the second keeps the row id and credential version of the first but
  stores an envelope bound to its own id, which can never be decrypted although
  the provider is CONNECTED (`src/server/providers/repository.ts:104`; against
  `specs/.../data-model.md:72`).
- `decision_screenshots` (`ScreenshotsReachTheModel`): the packet takes screenshots
  that are NORMALIZED and ACCEPTED, intake stores them VALIDATED with CLEAN or
  UNAVAILABLE, so none ever reaches the model (`src/server/research/runtime.ts:120`;
  against `specs/.../plan.md:70`).

Six more are refuted by configurations kept for runs by hand (`tlc -config
<file>.cfg <module>`):

- `MCTriageQueueEmpty.cfg`, `QueueEmptyMeansDrained`: `leaseOldest` returns null for
  a record with no attempts left, and the drain takes null for an empty queue
  while later records wait (`postgres-queue.ts:71`; against `specs/.../spec.md:52`,
  `docs/architecture.html:41`). The next day's run goes on behind it, which is why
  `EveryRecordSettles` holds.
- `MCTriageQueueUnits.cfg`, `TriagedUnitsAreTerminal`: a record rejected, requeued and
  decided again is TRIAGED with units of the first plan in NEEDS_ATTENTION
  (`requeue.ts:30`; against `specs/.../data-model.md:211`). The retention job skips
  such a record, so that its raw content is kept for good: `RetentionCompletes`
  holds of the others only.
- `MCGitHubOutcomeComment.cfg`, `NoDuplicateComment`: a deleted comment's replacement
  is not searched for by its marker (`apply-decision.ts:139`; against
  `docs/architecture.html:41`).
- `MCGitHubOutcomeDrift.cfg`, `DriftIsRefreshed`: a target that changed validly fails
  every later attempt (`operations.ts:79`; against `specs/.../data-model.md:223`).
- `MCSourceAppsTarget.cfg`, `TargetFixedWhileQueued`: a requeue takes no lock of the
  source app, so it can slip between the count of active feedback and the write,
  and the target moves under a queued record (`requeue.ts:32`,
  `source-apps/service.ts:187`; against `specs/.../data-model.md:49`).
- `MCDecisionInvalid.cfg`, `InvalidOutputEndsOneRecord`: `validationFailure` goes by the
  words of a message, and the ones for a missing MIXED_FEEDBACK,
  ACTIVE_ISSUE_MATCH or NEW_ISSUE flag have none of them; the batch stops for an
  answer that concerns one record (`process-record.ts:63`; against FR-029A, `specs/.../spec.md:157`).

Noticed while modelling, without a run of their own:

- A poll of the sign-in page whose `fetch` rejects schedules no other
  (`settings-admin.tsx:48`): the page shows its code for ever. `PageSettles` admits
  it as "cut".
- Codex's web sources are the URLs its own answer cites
  (`triage/model/codex.ts:81`), so for that provider the citation check of the
  validator cannot fail (`SourcesOf`); Ollama's are what its search returned.
- A renewed Codex credential is saved only after the answer has parsed as JSON
  (`triage/model/codex.ts:122`); one that came with an answer that did not is lost.
- `outcome-applier.ts:37` reads a field of a row that is not there when the source
  app was paused or disabled meanwhile; the TypeError counts as an integration
  failure and not as `SOURCE_GITHUB_TARGET_UNAVAILABLE`.
- Two audit events can name the same predecessor: the chain is continued from the
  greatest `event_at`, which callers take before the advisory lock
  (`audit/repository.ts:9`).
- `FailStart` leaves the child process running: `startCodexAuthorization`'s `catch`
  removes the directory and does not close the server
  (`providers/codex/authorization.ts:85`).
- `retryLease` does not look at the state of the record: when the reply of
  `completeLease` is lost the drain calls it next, and a record that is TRIAGED,
  with everything applied, is queued and leased once more (`postgres-queue.ts:117`).
  It finds nothing to apply and is TRIAGED again; with no attempts left it ends in
  NEEDS_ATTENTION. `TriagedIsFinal` therefore speaks of drains no call of which has
  failed, and `RetentionCompletes` of records that are not queued again.
- A runner that has lost its lease can bring back a record that recovery has put
  in NEEDS_ATTENTION: `processRecord` sets APPLYING whatever the state
  (`process-record.ts:188`). It is `Lifecycle`'s `Resume`.
- Directories, with or without a credential, that stay in the temporary directory:
  those of a killed web process (`orphans` in `DeviceLogin`), the one of a `mkdir`
  that fails outside of the `try` (`providers/codex/authorization.ts:66`), and those
  whose last rm fails, because `dispose` forgets the session first
  (`authorization.ts:37`) and only the timer comes back to it. The timer's own
  `void dispose` (`:82`) handles no rejection; where the runtime ends the process for
  an unhandled one, that is the model's `Restart`.

## Not modelled

- The GitHub client and the authentication of the App: HTTP and a cached token;
  its calls fail with or without effect in `GitHubOutcome`.
- Rendering of Issues and comments, presentation and list queries, page and
  component code but the sign-in page: layout or read-only.
- The audit chain: hashes and the choice of the predecessor. No code under `src/`
  but a unit test reads the chain back, so no behaviour depends on it; that every
  removal has exactly one event is `RemovalAuditedOnce`.
- The rate limiter: one synchronous function of one process, in the models a
  refusal (`Refuse`, `Turn`). Its map keeps a bucket per key until a restart.
- Readiness, metrics, migrations as such, deployment and scripts: no state that
  the program's behaviour depends on. The launch SDK signs tokens, which are
  inputs of `SourceApps`.
- Image decoding and scanning, signatures, cookies and encryption: an input that
  is accepted or refused; what an encrypted credential is bound to is in
  `ModelSettings`.
- The retention job's limit of 100 candidates a run: the candidates are taken
  oldest first, so only a hundred that fail every day would keep others waiting.
- Two polls of one page at once: the page asks again only when it has its answer.
- Clock skew: times are events (`Lapse`, `Expire`, `FallDue`, `TenMinutes`).

## Plan

Done, in this order: `TriageQueue`; `Outcome` and `GitHubOutcome`;
`FeedbackStorage`; `Configuration` and `ModelSettings`; `AccessControl`;
`SourceApps`; `DeviceLogin`; `Decision`; each with its proofs; then the contracts
`Lifecycle`, `Outcome` (the caller's side) and `Accounts`, with theirs. What would
come next, the least important last:

1. An abstract specification of `SourceApps` (a registration, a launch, a
   submission and an edit that each happen at once), and the proof that it is
   implemented.
2. The same for the device sign-in: a connection that one of several sign-ins
   replaces.
3. A `TriageQueue` in which a broken-off drain can be ended by hand, to state
   `EveryRecordSettles` for behaviours with crashes.
4. Two source apps in `Decision`, for a batch that mixes their snapshots.
5. `AuditChain`: appends of concurrent transactions with event times read before
   the lock, once something reads the chain back.
6. Retention's limit of candidates as a constant of `FeedbackStorage`.
