----------------------------- MODULE SourceApps -----------------------------
(***************************************************************************)
(* A source app, its verification keys and its GitHub target, with the     *)
(* three things that race with an Owner's PATCH of it: launches that verify *)
(* a signed token, submissions that put feedback in the queue, and triage   *)
(* and requeue, which read the target of the records they hold.            *)
(*                                                                         *)
(* The PATCH looks at the row, asks GitHub about the target, and only then  *)
(* opens its transaction: lock and look again, count the active feedback,   *)
(* write.  The row lock is FOR UPDATE; the foreign key of a new record and  *)
(* the FOR SHARE of a launch wait for it, a requeue does not touch the row. *)
(***************************************************************************)
EXTENDS Naturals

CONSTANTS
  Updates,     \* PATCH requests in flight
  Launches,    \* POST /launch requests in flight
  Tokens,      \* signed launch tokens, each with a nonce of its own
  Kids,        \* key identifiers
  Materials,   \* public keys
  SignedBy,    \* the [kid, material] each token was signed with
  Forms,       \* what a registration form can say
  MaxVersion,  \* bound: a row at this version is not edited any more
  None

Targets == {f.target : f \in Forms}
AppRow == [version : Nat, target : Targets, enabled : BOOLEAN, paused : BOOLEAN]
KeyRow == [material : Materials, revoked : BOOLEAN]

ASSUME SourceAssumption ==
  /\ \A f \in Forms : /\ DOMAIN f = {"target", "enabled", "paused", "keys"}
                      /\ {f.enabled, f.paused} \subseteq BOOLEAN
                      /\ DOMAIN f.keys \in SUBSET Kids \ {{}}
                      /\ \A k \in DOMAIN f.keys : f.keys[k] \in Materials
  /\ \A t \in Tokens : SignedBy[t] \in [kid : Kids, material : Materials]
  /\ MaxVersion \in Nat
  /\ Updates \cap Launches = {}
  /\ None \notin Updates \cup Launches \cup Tokens \cup Targets \cup AppRow \cup KeyRow

VARIABLES
  app,      \* the row of the source app, or None
  keys,     \* the key rows: what each kid names and whether it is revoked, or None
  update,   \* the form of each PATCH and the version it must find, or None
  launch,   \* the token each launch request presents, or None
  pc,       \* the statement each PATCH and each launch is at
  lock,     \* the PATCH that holds the row FOR UPDATE
  feedback, \* the launch session of each token and the feedback sent from it
  opened,   \* history: launch sessions opened with each token
  toward,   \* history: the target each record was queued for
  returned  \* history: records that were settled or given up and came back

vars == <<app, keys, update, launch, pc, lock, feedback, opened, toward, returned>>

Update == [form : Forms, seen : Nat]
UpdatePoint == {"idle", "observe", "validate", "lock", "count", "commit"}
LaunchPoint == {"idle", "source", "keys", "consume"}
Active == {"QUEUED", "LEASED"}
Stage == {"none", "open", "checked", "inserted", "TRIAGED", "NEEDS_ATTENTION", "WITHDRAWN"} \cup Active

TypeOK ==
  /\ app \in AppRow \cup {None}
  /\ keys \in [Kids -> KeyRow \cup {None}]
  /\ update \in [Updates -> Update \cup {None}]
  /\ launch \in [Launches -> Tokens \cup {None}]
  /\ pc \in [Updates \cup Launches -> UpdatePoint \cup LaunchPoint]
  /\ lock \in Updates \cup {None}
  /\ feedback \in [Tokens -> Stage]
  /\ opened \in [Tokens -> Nat]
  /\ toward \in [Tokens -> Targets \cup {None}]
  /\ returned \subseteq Tokens

Init ==
  /\ app = None
  /\ keys = [k \in Kids |-> None]
  /\ update = [u \in Updates |-> None]
  /\ launch = [l \in Launches |-> None]
  /\ pc = [p \in Updates \cup Launches |-> "idle"]
  /\ lock = None
  /\ feedback = [t \in Tokens |-> "none"]
  /\ opened = [t \in Tokens |-> 0]
  /\ toward = [t \in Tokens |-> None]
  /\ returned = {}

records == <<feedback, toward, returned>>

Goto(p, point) == pc' = [pc EXCEPT ![p] = point]

-----------------------------------------------------------------------------
(***************************************************************************)
(* createSourceApp and updateSourceApp.                                    *)
(***************************************************************************)

\* One transaction; the slug is unique, so a second registration changes nothing.
CreateSource ==
  /\ app = None
  /\ \E f \in Forms :
       /\ app' = [version |-> 1, target |-> f.target, enabled |-> FALSE, paused |-> FALSE]
       /\ keys' = [k \in Kids |-> IF k \in DOMAIN f.keys
                                  THEN [material |-> f.keys[k], revoked |-> FALSE] ELSE None]
  /\ UNCHANGED <<update, launch, pc, lock, opened, records>>

\* An Owner sends a form about the version on the screen.
Patch(u) ==
  /\ pc[u] = "idle"
  /\ app # None /\ app.version < MaxVersion
  /\ \E f \in Forms : update' = [update EXCEPT ![u] = [form |-> f, seen |-> app.version]]
  /\ Goto(u, "observe")
  /\ UNCHANGED <<app, keys, launch, lock, opened, records>>

\* An error answer, or the process is gone; an open transaction is rolled back.
EndUpdate(u) ==
  /\ Goto(u, "idle")
  /\ update' = [update EXCEPT ![u] = None]
  /\ lock' = IF lock = u THEN None ELSE lock

Abandon(u) ==
  /\ pc[u] # "idle"
  /\ EndUpdate(u)
  /\ UNCHANGED <<app, keys, launch, opened, records>>

Observe(u) ==
  /\ pc[u] = "observe"
  /\ app.version = update[u].seen
  /\ Goto(u, IF update[u].form.enabled THEN "validate" ELSE "lock")
  /\ UNCHANGED <<app, keys, update, launch, lock, opened, records>>

\* GitHub confirms the target; if it does not, the request ends (Abandon).
Validate(u) ==
  /\ pc[u] = "validate"
  /\ Goto(u, "lock")
  /\ UNCHANGED <<app, keys, update, launch, lock, opened, records>>

\* No one else holds the row: no PATCH, no record about to be inserted.
RowFree == lock = None /\ \A t \in Tokens : feedback[t] # "inserted"

\* Variant: the version seen before the validation is not looked at again.
LockUnchecked(u) ==
  /\ pc[u] = "lock" /\ RowFree
  /\ lock' = u
  /\ Goto(u, "count")
  /\ UNCHANGED <<app, keys, update, launch, opened, records>>

LockSource(u) ==
  /\ pc[u] = "lock" /\ RowFree
  /\ app.version = update[u].seen
  /\ lock' = u
  /\ Goto(u, "count")
  /\ UNCHANGED <<app, keys, update, launch, opened, records>>

\* The target may change only when every record is settled.
CountActive(u) ==
  /\ pc[u] = "count"
  /\ app.target # update[u].form.target => \A t \in Tokens : feedback[t] \notin Active
  /\ Goto(u, "commit")
  /\ UNCHANGED <<app, keys, update, launch, lock, opened, records>>

\* The key rows after a form: keys it does not list are revoked, known ones it lists
\* are valid again, new ones are added.
Listed(f, k) ==
  IF k \in DOMAIN f.keys THEN [material |-> f.keys[k], revoked |-> FALSE]
  ELSE IF keys[k] # None THEN [keys[k] EXCEPT !.revoked = TRUE] ELSE None

Rewrite(u) ==
  LET f == update[u].form IN
  /\ app' = [version |-> app.version + 1, target |-> f.target,
             enabled |-> f.enabled, paused |-> f.paused]
  /\ keys' = [k \in Kids |-> Listed(f, k)]
  /\ EndUpdate(u)
  /\ UNCHANGED <<launch, opened, records>>

\* Variant: a revoked key identifier may be given to another key.
CommitReusing(u) ==
  /\ pc[u] = "commit"
  /\ LET f == update[u].form IN
     \A k \in DOMAIN f.keys :
       keys[k] # None /\ ~keys[k].revoked => keys[k].material = f.keys[k]
  /\ Rewrite(u)

\* A key identifier in use, revoked or not, keeps its key.
CommitSource(u) ==
  /\ pc[u] = "commit"
  /\ LET f == update[u].form IN
     \A k \in DOMAIN f.keys : keys[k] # None => keys[k].material = f.keys[k]
  /\ Rewrite(u)

-----------------------------------------------------------------------------
(***************************************************************************)
(* POST /launch: findRegisteredLaunchSource, verifySourceLaunch,           *)
(* consumeVerifiedLaunch.                                                  *)
(***************************************************************************)

\* A browser posts a token, perhaps one already used or being used.
Present(l) ==
  /\ pc[l] = "idle"
  /\ \E t \in Tokens : launch' = [launch EXCEPT ![l] = t]
  /\ Goto(l, "source")
  /\ UNCHANGED <<app, keys, update, lock, opened, records>>

EndLaunch(l) ==
  /\ Goto(l, "idle")
  /\ launch' = [launch EXCEPT ![l] = None]

\* Refused anywhere: no such source, origin, expired, bad claims, a lost connection.
Turn(l) ==
  /\ pc[l] # "idle"
  /\ EndLaunch(l)
  /\ UNCHANGED <<app, keys, update, lock, opened, records>>

Available == app # None /\ app.enabled /\ ~app.paused

ReadSource(l) ==
  /\ pc[l] = "source" /\ Available
  /\ Goto(l, "keys")
  /\ UNCHANGED <<app, keys, update, launch, lock, opened, records>>

\* The key rows of this moment verify token t.
Verifies(t) ==
  LET row == keys[SignedBy[t].kid] IN
  row # None /\ ~row.revoked /\ row.material = SignedBy[t].material

ReadKeys(l) ==
  /\ pc[l] = "keys" /\ Verifies(launch[l])
  /\ Goto(l, "consume")
  /\ UNCHANGED <<app, keys, update, launch, lock, opened, records>>

\* Variant: a nonce that is already there does not stop the launch.
ConsumeAgain(l) ==
  /\ pc[l] = "consume" /\ lock = None /\ Available
  /\ opened' = [opened EXCEPT ![launch[l]] = @ + 1]
  /\ feedback' = [feedback EXCEPT ![launch[l]] = IF @ = "none" THEN "open" ELSE @]
  /\ EndLaunch(l)
  /\ UNCHANGED <<app, keys, update, lock, toward, returned>>

\* The source is looked at again FOR SHARE; the nonce goes in once, with the session.
Consume(l) ==
  /\ pc[l] = "consume" /\ lock = None /\ Available
  /\ feedback[launch[l]] = "none"
  /\ opened' = [opened EXCEPT ![launch[l]] = @ + 1]
  /\ feedback' = [feedback EXCEPT ![launch[l]] = "open"]
  /\ EndLaunch(l)
  /\ UNCHANGED <<app, keys, update, lock, toward, returned>>

-----------------------------------------------------------------------------
(***************************************************************************)
(* createFeedback and what becomes of the record.  The session row is      *)
(* locked from the first statement on.                                     *)
(***************************************************************************)
world == <<app, keys, update, launch, pc, lock, opened>>

SelectSession(t) ==
  /\ feedback[t] = "open" /\ Available
  /\ feedback' = [feedback EXCEPT ![t] = "checked"]
  /\ UNCHANGED <<world, toward, returned>>

\* Variant: the new record does not refer to the source row.
InsertUnlocked(t) ==
  /\ feedback[t] = "checked"
  /\ feedback' = [feedback EXCEPT ![t] = "inserted"]
  /\ toward' = [toward EXCEPT ![t] = app.target]
  /\ UNCHANGED <<world, returned>>

\* The foreign key locks the source row (FOR KEY SHARE) until the commit.
InsertRecord(t) ==
  /\ feedback[t] = "checked" /\ lock = None
  /\ feedback' = [feedback EXCEPT ![t] = "inserted"]
  /\ toward' = [toward EXCEPT ![t] = app.target]
  /\ UNCHANGED <<world, returned>>

CommitRecord(t) ==
  /\ feedback[t] = "inserted"
  /\ feedback' = [feedback EXCEPT ![t] = "QUEUED"]
  /\ UNCHANGED <<world, toward, returned>>

RollbackRecord(t) ==
  /\ feedback[t] \in {"checked", "inserted"}
  /\ feedback' = [feedback EXCEPT ![t] = "open"]
  /\ toward' = [toward EXCEPT ![t] = None]
  /\ UNCHANGED <<world, returned>>

\* Triage and its submitter's withdrawal do to a record in the queue what the
\* contract allows.  None of them touches the source row.
Life == INSTANCE Lifecycle WITH Records <- Tokens, phase <- feedback

Triage(t) ==
  /\ Life!Take(t) \/ Life!GiveBack(t) \/ Life!Settle(t) \/ Life!Stop(t) \/ Life!Withdraw(t)
  /\ UNCHANGED <<world, toward, returned>>

\* An Owner requeues the record (requeueFeedback locks the record only), or the drain
\* brings back a record it had given up or finished.
Return(t) ==
  /\ Life!Requeue(t) \/ Life!Resume(t) \/ Life!Reopen(t)
  /\ returned' = returned \cup {t}
  /\ UNCHANGED <<world, toward>>

-----------------------------------------------------------------------------
UpdateStep(u) ==
  Patch(u) \/ Abandon(u) \/ Observe(u) \/ Validate(u) \/ LockSource(u) \/ CountActive(u) \/ CommitSource(u)
LaunchStep(l) == Present(l) \/ Turn(l) \/ ReadSource(l) \/ ReadKeys(l) \/ Consume(l)
RecordStep(t) ==
  SelectSession(t) \/ InsertRecord(t) \/ CommitRecord(t) \/ RollbackRecord(t) \/ Triage(t) \/ Return(t)

Next ==
  \/ CreateSource
  \/ \E u \in Updates : UpdateStep(u)
  \/ \E l \in Launches : LaunchStep(l)
  \/ \E t \in Tokens : RecordStep(t)

Spec == Init /\ [][Next]_vars

-----------------------------------------------------------------------------
(***************************************************************************)
(* Properties.                                                             *)
(***************************************************************************)

\* The row is only ever replaced by a request that saw the version it replaces, however
\* long GitHub took in between.
ReplacesTheVersionSeen ==
  [][app # None /\ app' # app
       => \E u \in Updates : pc[u] = "commit" /\ pc'[u] = "idle" /\ update[u].seen = app.version]_vars

\* A key identifier names one key for ever, through revocation and re-registration, so
\* that a session opened with a token was opened with the key registered under its kid.
KidKeepsKey ==
  [][\A k \in Kids : keys[k] # None => keys'[k] # None /\ keys'[k].material = keys[k].material]_vars

\* A launch token opens at most one session, presented twice at once or again later.
OneSessionPerLaunch == \A t \in Tokens : opened[t] <= 1

\* A record is triaged into the target it was submitted for: no registration change, at
\* whatever moment, moves feedback that is queued or in triage.  (Records that come back
\* are not protected: TargetFixedWhileQueued.)
QueuedKeepsTarget ==
  \A t \in Tokens : feedback[t] \in Active /\ t \notin returned => toward[t] = app.target

\* data-model.md: the repository is immutable while records are queued.
TargetFixedWhileQueued ==
  [][app # None /\ (\E t \in Tokens : feedback[t] \in Active)
       => app'.target = app.target]_vars
=============================================================================
