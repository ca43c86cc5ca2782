--------------------------- MODULE SourceAppsProofs ---------------------------
(***************************************************************************)
(* The properties of SourceApps for any number of PATCH requests, launches, *)
(* tokens, keys and forms.                                                 *)
(*                                                                         *)
(* What a PATCH saw under the row lock stays true until its commit          *)
(* (PatchSound): only the holder writes the row, a record cannot be inserted *)
(* meanwhile, and a record that comes back, which takes no lock, is         *)
(* remembered.                                                             *)
(***************************************************************************)
EXTENDS SourceApps, TLAPS

PatchSound(u) ==
  /\ pc[u] # "idle" => update[u] \in Update /\ app # None
  /\ pc[u] \in {"count", "commit"} => lock = u /\ update[u].seen = app.version
  /\ pc[u] = "commit" /\ app.target # update[u].form.target =>
       \A t \in Tokens : feedback[t] \in Active => t \in returned

RecordSound(t) ==
  /\ opened[t] = IF feedback[t] = "none" THEN 0 ELSE 1
  /\ feedback[t] # "none" => app # None
  /\ feedback[t] = "inserted" => lock = None
  /\ feedback[t] \in Active \cup {"inserted"} /\ t \notin returned => toward[t] = app.target

IInv ==
  /\ TypeOK
  /\ \A u \in Updates : PatchSound(u)
  /\ \A t \in Tokens : RecordSound(t)
  /\ app = None => \A k \in Kids : keys[k] = None

-----------------------------------------------------------------------------
LEMMA FormTyped ==
  ASSUME NEW f \in Forms
  PROVE  /\ f.target \in Targets /\ f.enabled \in BOOLEAN /\ f.paused \in BOOLEAN
         /\ \A k \in DOMAIN f.keys : f.keys[k] \in Materials
BY SourceAssumption DEF Targets

LEMMA NoneIsOutside ==
  /\ None \notin Updates /\ None \notin AppRow /\ None \notin KeyRow
  /\ \A u \in Updates : u \notin Launches
BY SourceAssumption

LEMMA InitIInv == Init => IInv
BY DEF Init, IInv, TypeOK, PatchSound, RecordSound, UpdatePoint, Stage, Active

\* A step of one PATCH that writes nothing disturbs no other PATCH and no record.
LEMMA OtherPatches ==
  ASSUME IInv, NEW u \in Updates, UNCHANGED <<app, records>>,
         pc'[u] = pc[u], update'[u] = update[u], lock = u => lock' = u
  PROVE  PatchSound(u)'
BY DEF IInv, PatchSound, records

LEMMA QuietRecords ==
  ASSUME IInv, UNCHANGED <<app, opened, records>>, lock = None => lock' = None
  PROVE  \A t \in Tokens : RecordSound(t)'
BY DEF IInv, RecordSound, records

LEMMA CreateStep == IInv /\ CreateSource => IInv'
<1> SUFFICES ASSUME IInv, CreateSource PROVE IInv'
  OBVIOUS
<1>1. PICK f \in Forms :
       /\ app' = [version |-> 1, target |-> f.target, enabled |-> FALSE, paused |-> FALSE]
       /\ keys' = [k \in Kids |-> IF k \in DOMAIN f.keys
                                  THEN [material |-> f.keys[k], revoked |-> FALSE] ELSE None]
  BY DEF CreateSource
<1>2. app' \in AppRow
  BY <1>1, FormTyped DEF AppRow
<1>3. keys' \in [Kids -> KeyRow \cup {None}]
  BY <1>1, FormTyped DEF KeyRow
<1>4. TypeOK'
  BY <1>2, <1>3 DEF IInv, TypeOK, CreateSource, records
<1>5. \A u \in Updates : PatchSound(u)'
  BY DEF IInv, PatchSound, CreateSource
<1>6. \A t \in Tokens : RecordSound(t)'
  BY DEF IInv, RecordSound, CreateSource, records, Active
<1>7. QED
  BY <1>2, <1>4, <1>5, <1>6, NoneIsOutside DEF IInv

LEMMA PatchStep ==
  ASSUME IInv, NEW u \in Updates, Patch(u) PROVE IInv'
<1>1. PICK f \in Forms : update' = [update EXCEPT ![u] = [form |-> f, seen |-> app.version]]
  BY DEF Patch
<1>2. [form |-> f, seen |-> app.version] \in Update
  BY DEF IInv, TypeOK, Patch, AppRow, Update
<1>3. TypeOK'
  BY <1>1, <1>2 DEF IInv, TypeOK, Patch, Goto, UpdatePoint, records
<1>4. ASSUME NEW v \in Updates PROVE PatchSound(v)'
  <2>1. CASE v = u
    BY <1>1, <1>2, <2>1 DEF IInv, TypeOK, Patch, Goto, PatchSound
  <2>2. CASE v # u
    BY <1>1, <2>2, OtherPatches DEF IInv, TypeOK, Patch, Goto
  <2>3. QED
    BY <2>1, <2>2
<1>5. \A t \in Tokens : RecordSound(t)'
  BY QuietRecords DEF Patch
<1>6. QED
  BY <1>3, <1>4, <1>5 DEF IInv, Patch

LEMMA AbandonStep ==
  ASSUME IInv, NEW u \in Updates, Abandon(u) PROVE IInv'
<1>1. TypeOK'
  BY DEF IInv, TypeOK, Abandon, EndUpdate, Goto, UpdatePoint, records
<1>2. ASSUME NEW v \in Updates PROVE PatchSound(v)'
  <2>1. CASE v = u
    BY <2>1 DEF IInv, TypeOK, Abandon, EndUpdate, Goto, PatchSound
  <2>2. CASE v # u
    BY <2>2, OtherPatches DEF IInv, TypeOK, Abandon, EndUpdate, Goto
  <2>3. QED
    BY <2>1, <2>2
<1>3. \A t \in Tokens : RecordSound(t)'
  BY QuietRecords DEF Abandon, EndUpdate
<1>4. QED
  BY <1>1, <1>2, <1>3 DEF IInv, Abandon

LEMMA LookStep ==
  ASSUME IInv, NEW u \in Updates, Observe(u) \/ Validate(u) PROVE IInv'
<1>1. /\ Goto(u, "validate") \/ Goto(u, "lock")
      /\ UNCHANGED <<app, keys, update, launch, lock, opened, records>>
  BY DEF Observe, Validate
<1>2. pc[u] # "idle"
  BY DEF Observe, Validate
<1>3. TypeOK'
  BY <1>1 DEF IInv, TypeOK, Goto, UpdatePoint, records
<1>4. ASSUME NEW v \in Updates PROVE PatchSound(v)'
  <2>1. CASE v = u
    BY <1>1, <1>2, <2>1 DEF IInv, TypeOK, Goto, PatchSound
  <2>2. CASE v # u
    BY <1>1, <2>2, OtherPatches DEF IInv, TypeOK, Goto
  <2>3. QED
    BY <2>1, <2>2
<1>5. \A t \in Tokens : RecordSound(t)'
  BY <1>1, QuietRecords
<1>6. QED
  BY <1>1, <1>3, <1>4, <1>5 DEF IInv

LEMMA LockStep ==
  ASSUME IInv, NEW u \in Updates, LockSource(u) PROVE IInv'
<1>1. TypeOK'
  BY DEF IInv, TypeOK, LockSource, Goto, UpdatePoint, records
<1>2. ASSUME NEW v \in Updates PROVE PatchSound(v)'
  <2>1. CASE v = u
    BY <2>1 DEF IInv, TypeOK, LockSource, Goto, PatchSound
  <2>2. CASE v # u
    BY <2>2, OtherPatches, NoneIsOutside DEF IInv, TypeOK, LockSource, RowFree, Goto
  <2>3. QED
    BY <2>1, <2>2
<1>3. \A t \in Tokens : RecordSound(t)'
  BY DEF IInv, LockSource, RowFree, RecordSound, records
<1>4. QED
  BY <1>1, <1>2, <1>3 DEF IInv, LockSource

LEMMA CountStep ==
  ASSUME IInv, NEW u \in Updates, CountActive(u) PROVE IInv'
<1>1. TypeOK'
  BY DEF IInv, TypeOK, CountActive, Goto, UpdatePoint, records
<1>2. ASSUME NEW v \in Updates PROVE PatchSound(v)'
  <2>1. CASE v = u
    BY <2>1 DEF IInv, TypeOK, CountActive, Goto, PatchSound, records
  <2>2. CASE v # u
    BY <2>2, OtherPatches DEF IInv, TypeOK, CountActive, Goto
  <2>3. QED
    BY <2>1, <2>2
<1>3. \A t \in Tokens : RecordSound(t)'
  BY QuietRecords DEF CountActive
<1>4. QED
  BY <1>1, <1>2, <1>3 DEF IInv, CountActive

LEMMA CommitStep ==
  ASSUME IInv, NEW u \in Updates, CommitSource(u) PROVE IInv'
<1> DEFINE f == update[u].form
<1>1. /\ pc[u] = "commit" /\ lock = u /\ update[u] \in Update /\ f \in Forms /\ app \in AppRow
      /\ (app.target # f.target => \A t \in Tokens : feedback[t] \in Active => t \in returned)
  BY NoneIsOutside DEF IInv, TypeOK, PatchSound, CommitSource, Update
<1>2. /\ app' = [version |-> app.version + 1, target |-> f.target, enabled |-> f.enabled, paused |-> f.paused]
      /\ keys' = [k \in Kids |-> Listed(f, k)]
      /\ Goto(u, "idle") /\ update' = [update EXCEPT ![u] = None] /\ lock' = None
      /\ UNCHANGED <<launch, opened, records>>
  BY <1>1 DEF CommitSource, Rewrite, EndUpdate
<1>3. app' \in AppRow
  BY <1>1, <1>2, FormTyped DEF AppRow
<1>4. \A k \in Kids : Listed(f, k) \in KeyRow \cup {None}
  BY <1>1, FormTyped DEF IInv, TypeOK, Listed, KeyRow
<1>5. TypeOK'
  BY <1>2, <1>3, <1>4 DEF IInv, TypeOK, Goto, UpdatePoint, records
<1>6. ASSUME NEW v \in Updates PROVE PatchSound(v)'
  <2>1. CASE v = u
    BY <1>2, <2>1 DEF IInv, TypeOK, Goto, PatchSound
  <2>2. CASE v # u
    <3>1. pc'[v] = pc[v] /\ update'[v] = update[v] /\ pc[v] \notin {"count", "commit"}
      BY <1>1, <1>2, <2>2 DEF IInv, TypeOK, Goto, PatchSound
    <3>2. QED
      BY <1>3, <3>1, NoneIsOutside DEF IInv, PatchSound
  <2>3. QED
    BY <2>1, <2>2
<1>7. ASSUME NEW t \in Tokens PROVE RecordSound(t)'
  <2>1. feedback[t] # "inserted"
    BY <1>1, NoneIsOutside DEF IInv, RecordSound
  <2>2. feedback[t] \in Active /\ t \notin returned => toward[t] = app'.target
    BY <1>1, <1>2 DEF IInv, RecordSound
  <2>3. QED
    BY <1>2, <1>3, <2>1, <2>2, NoneIsOutside DEF IInv, RecordSound, records
<1>8. QED
  BY <1>3, <1>5, <1>6, <1>7, NoneIsOutside DEF IInv

-----------------------------------------------------------------------------
\* A step of a launch or a record leaves the updates where they are.
LEMMA SparesPatches ==
  ASSUME IInv, UNCHANGED <<app, update, lock>>, \A u \in Updates : pc'[u] = pc[u],
         \A t \in Tokens : feedback'[t] \in Active => feedback[t] \in Active \cup {"inserted"} \/ t \in returned',
         returned \subseteq returned'
  PROVE  \A u \in Updates : PatchSound(u)'
<1>1. SUFFICES ASSUME NEW u \in Updates PROVE PatchSound(u)'
  OBVIOUS
<1>2. lock = u => \A t \in Tokens : feedback[t] # "inserted"
  BY <1>1, NoneIsOutside DEF IInv, RecordSound
<1>3. QED
  BY <1>1, <1>2 DEF IInv, PatchSound

LEMMA LaunchIInv ==
  ASSUME IInv, NEW l \in Launches, LaunchStep(l) PROVE IInv'
<1>1. TypeOK'
  <2>1. CASE Consume(l)
    <3>1. pc' \in [Updates \cup Launches -> UpdatePoint \cup LaunchPoint]
      BY <2>1 DEF IInv, TypeOK, Consume, EndLaunch, Goto, LaunchPoint
    <3>2. launch' \in [Launches -> Tokens \cup {None}]
      BY <2>1 DEF IInv, TypeOK, Consume, EndLaunch
    <3>3. feedback' \in [Tokens -> Stage]
      <4>1. feedback' = [feedback EXCEPT ![launch[l]] = "open"]
        BY <2>1 DEF Consume
      <4>2. "open" \in Stage
        BY DEF Stage
      <4>3. QED
        BY <4>1, <4>2 DEF IInv, TypeOK
    <3>4. opened' \in [Tokens -> Nat]
      <4>1. opened' = [opened EXCEPT ![launch[l]] = @ + 1]
        BY <2>1 DEF Consume
      <4>2. opened \in [Tokens -> Nat]
        BY DEF IInv, TypeOK
      <4>3. launch[l] \in Tokens \cup {None}
        BY DEF IInv, TypeOK
      <4>4. CASE launch[l] \in Tokens
        <5>1. opened[launch[l]] + 1 \in Nat
          BY <4>2, <4>4
        <5>2. QED
          BY <4>1, <4>2, <5>1
      <4>5. CASE launch[l] = None
        <5>1. None \notin Tokens
          BY SourceAssumption
        <5>2. opened' = opened
          BY <4>1, <4>2, <4>5, <5>1
        <5>3. QED
          BY <4>2, <5>2
      <4>6. QED
        BY <4>3, <4>4, <4>5
    <3>5. UNCHANGED <<app, keys, update, lock, toward, returned>>
      BY <2>1 DEF Consume
    <3>6. QED
      BY <3>1, <3>2, <3>3, <3>4, <3>5 DEF IInv, TypeOK
  <2>2. CASE Present(l) \/ Turn(l) \/ ReadSource(l) \/ ReadKeys(l)
    <3>1. \E point \in LaunchPoint : Goto(l, point)
      BY <2>2 DEF Present, Turn, ReadSource, ReadKeys, EndLaunch, LaunchPoint
    <3>2. pc' \in [Updates \cup Launches -> UpdatePoint \cup LaunchPoint]
      BY <3>1 DEF IInv, TypeOK, Goto
    <3>3. \/ launch' = launch
          \/ \E t \in Tokens \cup {None} : launch' = [launch EXCEPT ![l] = t]
      BY <2>2 DEF Present, Turn, ReadSource, ReadKeys, EndLaunch
    <3>4. launch' \in [Launches -> Tokens \cup {None}]
      BY <3>3 DEF IInv, TypeOK
    <3>5. UNCHANGED <<app, keys, update, lock, opened, feedback, toward, returned>>
      BY <2>2 DEF Present, Turn, ReadSource, ReadKeys, records
    <3>6. QED
      BY <3>2, <3>4, <3>5 DEF IInv, TypeOK
  <2>3. QED
    BY <2>1, <2>2 DEF LaunchStep
<1>2. /\ UNCHANGED <<app, keys, update, lock, returned, toward>>
      /\ \A u \in Updates : pc'[u] = pc[u]
  <2>1. /\ UNCHANGED <<app, keys, update, lock, returned, toward>>
        /\ \E point \in LaunchPoint : Goto(l, point)
    BY DEF LaunchStep, Present, Turn, ReadSource, ReadKeys, Consume, EndLaunch, records, LaunchPoint
  <2>2. QED
    BY <2>1, NoneIsOutside DEF IInv, TypeOK, Goto
<1>3. CASE Consume(l)
  <2>1. \A t \in Tokens : feedback'[t] = feedback[t] \/ feedback'[t] = "open"
    BY <1>3 DEF IInv, TypeOK, Consume
  <2>2. \A u \in Updates : PatchSound(u)'
    BY <1>2, <2>1, SparesPatches DEF Active
  <2>3. ASSUME NEW t \in Tokens PROVE RecordSound(t)'
    <3>1. CASE t = launch[l]
      BY <1>2, <1>3, <3>1 DEF IInv, TypeOK, Consume, RecordSound, Available, Active
    <3>2. CASE t # launch[l]
      BY <1>2, <1>3, <3>2 DEF IInv, TypeOK, Consume, RecordSound
    <3>3. QED
      BY <3>1, <3>2
  <2>4. QED
    BY <1>1, <1>2, <2>2, <2>3 DEF IInv
<1>4. CASE Present(l) \/ Turn(l) \/ ReadSource(l) \/ ReadKeys(l)
  <2>1. UNCHANGED <<opened, records>>
    BY <1>4 DEF Present, Turn, ReadSource, ReadKeys
  <2>2. \A u \in Updates : PatchSound(u)'
    BY <1>2, <2>1, SparesPatches DEF records
  <2>3. \A t \in Tokens : RecordSound(t)'
    BY <1>2, <2>1, QuietRecords
  <2>4. QED
    BY <1>1, <1>2, <2>2, <2>3 DEF IInv
<1>5. QED
  BY <1>3, <1>4 DEF LaunchStep

\* What the contract lets triage do: a record in the queue or in triage moves within
\* the phases after it was submitted; one that comes back is remembered.
LEMMA TriageMove ==
  ASSUME NEW t \in Tokens, Triage(t) \/ Return(t)
  PROVE  /\ \E s \in Active \cup {"TRIAGED", "NEEDS_ATTENTION", "WITHDRAWN"} : feedback' = [feedback EXCEPT ![t] = s]
         /\ feedback[t] \in Active \cup {"TRIAGED", "NEEDS_ATTENTION"}
         /\ Triage(t) => feedback[t] \in Active /\ returned' = returned
         /\ Return(t) => returned' = returned \cup {t}
         /\ UNCHANGED <<world, toward>>
BY DEF Triage, Return, Active, Life!Move, Life!Take, Life!GiveBack, Life!Settle, Life!Stop, Life!Withdraw,
   Life!Requeue, Life!Resume, Life!Reopen

LEMMA RecordIInv ==
  ASSUME IInv, NEW t \in Tokens, RecordStep(t) PROVE IInv'
<1>1. PICK s \in Stage : feedback' = [feedback EXCEPT ![t] = s]
  BY TriageMove DEF RecordStep, SelectSession, InsertRecord, CommitRecord, RollbackRecord, Stage, Active
<1>2. /\ UNCHANGED world
      /\ returned' \in {returned, returned \cup {t}}
      /\ \E x \in Targets \cup {None} : toward' = toward \/ toward' = [toward EXCEPT ![t] = x]
  <2>1. CASE InsertRecord(t)
    <3>1. app # None
      BY <2>1 DEF IInv, RecordSound, InsertRecord
    <3>2. app.target \in Targets
      BY <3>1 DEF IInv, TypeOK, AppRow
    <3>3. QED
      BY <2>1, <3>2 DEF InsertRecord
  <2>2. CASE ~InsertRecord(t)
    BY <2>2, TriageMove DEF RecordStep, SelectSession, CommitRecord, RollbackRecord
  <2>3. QED
    BY <2>1, <2>2
<1>3. TypeOK'
  BY <1>1, <1>2 DEF IInv, TypeOK, world
<1>4. \A x \in Tokens \ {t} : feedback'[x] = feedback[x] /\ toward'[x] = toward[x] /\ (x \in returned' <=> x \in returned)
  BY <1>1, <1>2 DEF IInv, TypeOK
<1>5. feedback'[t] = s
  BY <1>1 DEF IInv, TypeOK
<1>6. s \in Active => feedback[t] \in Active \cup {"inserted"} \/ t \in returned'
  BY <1>5, TriageMove DEF IInv, TypeOK, RecordStep, SelectSession, InsertRecord, CommitRecord, RollbackRecord, Active
<1>7. \A u \in Updates : PatchSound(u)'
  <2>1. UNCHANGED <<app, update, lock>> /\ pc' = pc
    BY <1>2 DEF world
  <2>2. QED
    BY <1>2, <1>4, <1>5, <1>6, <2>1, SparesPatches
<1>8. ASSUME NEW x \in Tokens PROVE RecordSound(x)'
  <2>1. CASE x # t
    BY <1>2, <1>4, <2>1 DEF IInv, RecordSound, world
  <2>2. CASE x = t
    <3>1. feedback[t] # "none" /\ s # "none" /\ app' = app /\ app # None /\ opened' = opened /\ lock' = lock
      BY <1>2, <1>5, TriageMove DEF IInv, TypeOK, RecordSound, world, RecordStep, SelectSession, InsertRecord,
         CommitRecord, RollbackRecord, Active
    <3>2. s = "inserted" => lock = None
      BY <1>5, TriageMove DEF IInv, TypeOK, RecordStep, SelectSession, InsertRecord, CommitRecord, RollbackRecord,
         Active
    <3>3. s \in Active \cup {"inserted"} /\ t \notin returned' => toward'[t] = app.target
      <4>1. CASE InsertRecord(t)
        BY <4>1 DEF IInv, TypeOK, InsertRecord
      <4>2. CASE CommitRecord(t) \/ Triage(t)
        BY <1>5, <4>2, TriageMove DEF IInv, RecordSound, CommitRecord
      <4>3. CASE SelectSession(t) \/ RollbackRecord(t)
        BY <1>5, <4>3 DEF IInv, TypeOK, SelectSession, RollbackRecord, Active
      <4>4. CASE Return(t)
        BY <4>4, TriageMove
      <4>5. QED
        BY <4>1, <4>2, <4>3, <4>4 DEF RecordStep
    <3>4. QED
      BY <1>5, <2>2, <3>1, <3>2, <3>3 DEF IInv, RecordSound
  <2>3. QED
    BY <2>1, <2>2
<1>9. QED
  BY <1>2, <1>3, <1>7, <1>8 DEF IInv, world

-----------------------------------------------------------------------------
\* Every step of updateSourceApp, launch, submission and triage keeps the inductive invariant.
THEOREM NextIInv == IInv /\ [Next]_vars => IInv'
<1> SUFFICES ASSUME IInv, [Next]_vars PROVE IInv'
  OBVIOUS
<1>1. CASE UNCHANGED vars
  BY <1>1 DEF IInv, TypeOK, PatchSound, RecordSound, vars
<1>2. CASE CreateSource
  BY <1>2, CreateStep
<1>3. ASSUME NEW u \in Updates, UpdateStep(u) PROVE IInv'
  BY <1>3, PatchStep, AbandonStep, LookStep, LockStep, CountStep, CommitStep DEF UpdateStep
<1>4. ASSUME NEW l \in Launches, LaunchStep(l) PROVE IInv'
  BY <1>4, LaunchIInv
<1>5. ASSUME NEW t \in Tokens, RecordStep(t) PROVE IInv'
  BY <1>5, RecordIInv
<1>6. QED
  BY <1>1, <1>2, <1>3, <1>4, <1>5 DEF Next

LEMMA Invariance == Spec => []IInv
BY InitIInv, NextIInv, PTL DEF Spec

\* Rows, keys, requests and records keep their types (source-apps/service.ts).
THEOREM TypeCorrect == Spec => []TypeOK
<1>1. IInv => TypeOK
  BY DEF IInv
<1>2. QED
  BY Invariance, <1>1, PTL

\* A launch token opens at most one session, for any number of launches that present it
\* (consumeVerifiedLaunch).
THEOREM OneSession == Spec => []OneSessionPerLaunch
<1>1. IInv => OneSessionPerLaunch
  BY DEF IInv, RecordSound, OneSessionPerLaunch
<1>2. QED
  BY Invariance, <1>1, PTL

\* A record stays with the target it was submitted for until it is settled: updateSourceApp
\* counts the active records under the row lock that new ones wait for.
THEOREM TargetIsKept == Spec => []QueuedKeepsTarget
<1>1. IInv => QueuedKeepsTarget
  BY DEF IInv, RecordSound, QueuedKeepsTarget
<1>2. QED
  BY Invariance, <1>1, PTL

\* The steps that write neither the row nor the keys.
LEMMA OnlyCommitWrites ==
  ASSUME IInv, Next, app # None,
         \A u \in Updates : ~CommitSource(u)
  PROVE  UNCHANGED <<app, keys>>
BY DEF Next, CreateSource, UpdateStep, Patch, Abandon, Observe, Validate, LockSource, CountActive, LaunchStep,
   Present, Turn, ReadSource, ReadKeys, Consume, RecordStep, SelectSession, InsertRecord, CommitRecord,
   RollbackRecord, Triage, Return, world

\* A registration is only replaced by a request that saw the version it replaces, whatever
\* GitHub and other Owners did meanwhile (updateSourceApp).
THEOREM SeenIsReplaced == Spec => ReplacesTheVersionSeen
<1> DEFINE Replaces == app # None /\ app' # app
             => \E u \in Updates : pc[u] = "commit" /\ pc'[u] = "idle" /\ update[u].seen = app.version
<1>1. IInv /\ [Next]_vars => [Replaces]_vars
  <2>1. SUFFICES ASSUME IInv, Next, app # None, app' # app PROVE Replaces
    BY DEF vars
  <2>2. PICK u \in Updates : CommitSource(u)
    BY <2>1, OnlyCommitWrites
  <2>3. pc[u] = "commit" /\ pc'[u] = "idle" /\ update[u].seen = app.version
    BY <2>1, <2>2 DEF IInv, TypeOK, PatchSound, CommitSource, Rewrite, EndUpdate, Goto
  <2>4. QED
    BY <2>3
<1>2. QED
  BY Invariance, <1>1, PTL DEF Spec, ReplacesTheVersionSeen

\* A kid names the same key for ever: revocation, re-registration and concurrent forms
\* included (the key loop of updateSourceApp).
THEOREM KidIsKept == Spec => KidKeepsKey
<1> DEFINE Keeps == \A k \in Kids : keys[k] # None => keys'[k] # None /\ keys'[k].material = keys[k].material
<1>1. IInv /\ [Next]_vars => [Keeps]_vars
  <2>1. SUFFICES ASSUME IInv, Next, NEW k \in Kids, keys[k] # None
                 PROVE  keys'[k] # None /\ keys'[k].material = keys[k].material
    BY DEF vars
  <2>5. app # None
    BY <2>1 DEF IInv
  <2>2. CASE UNCHANGED keys
    BY <2>1, <2>2
  <2>3. ASSUME NEW u \in Updates, CommitSource(u) PROVE keys'[k] # None /\ keys'[k].material = keys[k].material
    <3> DEFINE f == update[u].form
    <3>1. f \in Forms /\ keys[k] \in KeyRow
      BY <2>1, <2>3 DEF IInv, TypeOK, PatchSound, CommitSource, Update
    <3>2. keys'[k] = Listed(f, k) /\ (k \in DOMAIN f.keys => keys[k].material = f.keys[k])
      BY <2>1, <2>3 DEF CommitSource, Rewrite
    <3>3. Listed(f, k) \in KeyRow /\ Listed(f, k).material = keys[k].material
      BY <2>1, <3>1, <3>2, FormTyped DEF Listed, KeyRow
    <3>4. QED
      BY <3>2, <3>3, NoneIsOutside
  <2>4. QED
    BY <2>1, <2>2, <2>3, <2>5, OnlyCommitWrites
<1>2. QED
  BY Invariance, <1>1, PTL DEF Spec, KidKeepsKey
=============================================================================
