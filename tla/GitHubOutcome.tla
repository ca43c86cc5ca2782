---------------------------- MODULE GitHubOutcome ----------------------------
(***************************************************************************)
(* GitHubOutcomeApplier.apply for one persisted decision: applyCreate,     *)
(* applyMerge or applyConsidered over the operation ledger, run by one     *)
(* attempt after the other (OneDrainer of TriageQueue) until an attempt    *)
(* returns and the decision is recorded TERMINAL.                          *)
(*                                                                         *)
(* The artifact is the Issue (CREATED) or the comment (MERGED) that        *)
(* carries the decision's operation marker.  `world` is what the           *)
(* precondition readback returns: the Project's schema and the             *)
(* repository's labels for CREATED, the target Issue for MERGED; people    *)
(* change it, and they edit and remove artifacts.  Every await can fail,   *)
(* with or without effect, and a request given up on can arrive late.      *)
(***************************************************************************)
EXTENDS Integers, FiniteSets

CONSTANTS
  Worlds,        \* precondition snapshots
  ValidWorlds,   \* those that satisfy the preconditions of this decision
  MaxArtifacts,  \* bound: artifacts ever made for the decision
  MaxFailures,   \* bound: awaits that fail
  MaxEdits,      \* bound: edits of artifacts by people
  MaxChanges,    \* bound: changes of the world
  NoRow

ASSUME OutcomeAssumption ==
  /\ ValidWorlds \subseteq Worlds
  /\ ValidWorlds # {}
  /\ MaxArtifacts \in Nat \ {0}
  /\ MaxFailures \in Nat
  /\ MaxEdits \in Nat
  /\ MaxChanges \in Nat

Artifacts == 1..MaxArtifacts
NoArtifact == 0

VARIABLES
  kind,      \* the decision's disposition
  world,     \* the state of the target, as a precondition readback sees it
  artifact,  \* the Issues or comments made for the decision
  row,       \* the github_operations row under the decision's key
  terminal,  \* the decision has been recorded TERMINAL
  pc,        \* where the attempt is
  ctx,       \* the attempt's precondition snapshot
  art,       \* the attempt's issue or comment
  inFlight,  \* creation requests given up on and not carried out yet
  late,      \* creations carried out after they were given up on
  readAt,    \* number of edits at the last readback (history)
  failures, edits, changes

githubVars == <<world, artifact>>
localVars  == <<pc, ctx, art>>
countVars  == <<failures, edits, changes>>
vars == <<kind, githubVars, row, terminal, localVars, inFlight, late, readAt, countVars>>

\* Where the attempt waits, in the order of the code.
CheckPoint == {"target", "precheck", "checkLabels", "checkAdd", "checkFields"}
PutPoint   == {"pend", "note", "confirm"}
Point == {"idle", "get", "find", "create", "labels", "refresh", "add", "fields",
          "readback", "return"} \cup CheckPoint \cup PutPoint

\* `whole`: title, body, state and assignees are as written.  `fields` counts the
\* four single-select updates as none, some and all.
Artifact == [status: {"none", "live", "gone"}, marked: BOOLEAN, whole: BOOLEAN,
             labels: BOOLEAN, item: BOOLEAN, fields: 0..2]
Absent == [status |-> "none", marked |-> FALSE, whole |-> FALSE,
           labels |-> FALSE, item |-> FALSE, fields |-> 0]
Created == [status |-> "live", marked |-> TRUE, whole |-> TRUE,
            labels |-> FALSE, item |-> FALSE, fields |-> 0]
Row == [state: {"PENDING", "CONFIRMED"}, id: Artifacts \cup {NoArtifact}, ctx: Worlds]

ASSUME NoRowAssumption == NoRow \notin Row

TypeOK ==
  /\ kind \in {"CREATED", "MERGED", "CONSIDERED"}
  /\ world \in Worlds
  /\ artifact \in [Artifacts -> Artifact]
  /\ row \in Row \cup {NoRow}
  /\ terminal \in BOOLEAN
  /\ pc \in Point
  /\ ctx \in Worlds
  /\ art \in Artifacts \cup {NoArtifact}
  /\ inFlight \in 0..MaxFailures
  /\ late \in 0..MaxFailures
  /\ readAt \in 0..MaxEdits
  /\ failures \in 0..MaxFailures
  /\ edits \in 0..MaxEdits
  /\ changes \in 0..MaxChanges

Init ==
  /\ kind \in {"CREATED", "MERGED", "CONSIDERED"}
  /\ world \in ValidWorlds
  /\ artifact = [n \in Artifacts |-> Absent]
  /\ row = NoRow
  /\ terminal = FALSE
  /\ pc = "idle" /\ ctx = world /\ art = NoArtifact
  /\ inFlight = 0 /\ late = 0 /\ readAt = 0
  /\ failures = 0 /\ edits = 0 /\ changes = 0

-----------------------------------------------------------------------------
Made == {n \in Artifacts : artifact[n].status # "none"}
Deleted == {n \in Artifacts : artifact[n].status = "gone"}
Marked == {n \in Artifacts : artifact[n].status = "live" /\ artifact[n].marked}
IsFresh(n) == n \notin Made /\ \A m \in Artifacts : m < n => m \in Made

\* An exact readback: what the decision authorized and nothing else.
Exact(a) == /\ a.status = "live" /\ a.whole /\ a.marked
            /\ kind = "CREATED" => a.labels /\ a.item /\ a.fields = 2

\* Variant: the readback is not compared with the authorized mutation.
Readable(a) == a.status = "live"

\* The next point of the attempt; another attempt starts from "idle".
Goto(point) == pc' = point
EndAttempt == pc' = "idle" /\ art' = NoArtifact
SpendFailure == failures < MaxFailures /\ failures' = failures + 1

Recorded == row # NoRow /\ row.id # NoArtifact

\* Variant: the stored snapshot is not compared.
NeverDrifted == FALSE

\* put: the stored target, payload and precondition snapshot must be the
\* attempt's own.  The payload of a comment counts the merges into the target so
\* far, and is part of the snapshot here.
Drifted == row # NoRow /\ row.ctx # ctx

\* put, past the comparison: insert .. on conflict do nothing, then update, with
\* coalesce for the id, unless that would take a CONFIRMED row back.
Stored(state, id) ==
  IF row = NoRow THEN [state |-> state, id |-> id, ctx |-> ctx]
  ELSE IF row.state = "CONFIRMED" /\ state # "CONFIRMED" THEN row
  ELSE [row EXCEPT !.state = state, !.id = IF id = NoArtifact THEN @ ELSE id]

AfterCheck(point) ==
  CASE point = "target"      -> "find"
    [] point = "precheck"    -> "pend"
    [] point = "checkLabels" -> "labels"
    [] point = "checkAdd"    -> "add"
    [] point = "checkFields" -> "fields"

StoredBy(point) ==
  CASE point = "pend"    -> Stored("PENDING", NoArtifact)
    [] point = "note"    -> Stored("PENDING", art)
    [] point = "confirm" -> Stored("CONFIRMED", art)

AfterPut(point) ==
  CASE point = "pend"    -> "create"
    [] point = "note"    -> IF kind = "CREATED" THEN "checkLabels" ELSE "readback"
    [] point = "confirm" -> "return"

-----------------------------------------------------------------------------
(***************************************************************************)
(* One attempt.                                                            *)
(***************************************************************************)

\* apply: the snapshot the ledger context carries is read and asserted first,
\* even if the ledger turns out to be CONFIRMED.
Begin ==
  /\ pc = "idle" /\ ~terminal
  /\ \/ kind = "CONSIDERED" /\ Goto("confirm") /\ UNCHANGED ctx
     \/ /\ kind # "CONSIDERED"
        /\ world \in ValidWorlds
        /\ ctx' = world
        /\ Goto("get")
  /\ UNCHANGED <<kind, githubVars, row, terminal, art, inFlight, late, readAt, countVars>>

\* Variant: a PENDING row is taken for the work of another process.
GetOnlyNew ==
  /\ pc = "get"
  /\ \/ row # NoRow /\ row.state = "CONFIRMED" /\ Goto("return") /\ UNCHANGED art
     \/ row # NoRow /\ row.state # "CONFIRMED" /\ EndAttempt
     \/ row = NoRow /\ UNCHANGED art
        /\ Goto(IF kind = "MERGED" THEN "target" ELSE "find")
  /\ UNCHANGED <<kind, githubVars, row, terminal, ctx, inFlight, late, readAt, countVars>>

\* A CONFIRMED operation is returned as it was read back then.
Get ==
  /\ pc = "get"
  /\ \/ row # NoRow /\ row.state = "CONFIRMED" /\ Goto("return")
     \/ ~(row # NoRow /\ row.state = "CONFIRMED")
        /\ Goto(IF kind = "MERGED" THEN "target" ELSE "find")
  /\ UNCHANGED <<kind, githubVars, row, terminal, ctx, art, inFlight, late, readAt, countVars>>

\* assertMergePreconditions and assertProjectPreconditions on a fresh readback.
Check ==
  /\ pc \in CheckPoint
  /\ \/ world \in ValidWorlds /\ Goto(AfterCheck(pc)) /\ UNCHANGED art
     \/ world \notin ValidWorlds /\ EndAttempt
  /\ UNCHANGED <<kind, githubVars, row, terminal, ctx, inFlight, late, readAt, countVars>>

\* Variant: without a recorded id, nothing is searched for.
FindRecorded ==
  /\ pc = "find"
  /\ \/ /\ Recorded /\ artifact[row.id].status = "live"
        /\ art' = row.id /\ Goto("note")
     \/ /\ ~Recorded
        /\ Goto("precheck") /\ UNCHANGED art
  /\ UNCHANGED <<kind, githubVars, row, terminal, ctx, inFlight, late, readAt, countVars>>

\* By the recorded id -- where a missing Issue is an error and a missing comment
\* is not -- or else by the marker.
Find ==
  /\ pc = "find"
  /\ \/ /\ Recorded /\ artifact[row.id].status = "live"
        /\ art' = row.id /\ Goto("note")
     \/ /\ Recorded /\ artifact[row.id].status # "live" /\ kind = "CREATED"
        /\ EndAttempt
     \/ /\ Recorded /\ artifact[row.id].status # "live" /\ kind = "MERGED"
        /\ Goto("precheck") /\ UNCHANGED art
     \/ /\ ~Recorded /\ art' \in Marked /\ Goto("note")
     \/ /\ ~Recorded /\ Marked = {} /\ Goto("precheck") /\ UNCHANGED art
  /\ UNCHANGED <<kind, githubVars, row, terminal, ctx, inFlight, late, readAt, countVars>>

Put ==
  /\ pc \in PutPoint
  /\ \/ Drifted /\ EndAttempt /\ UNCHANGED <<row, failures>>
     \/ /\ ~Drifted
        /\ row' = StoredBy(pc)
        /\ \/ Goto(AfterPut(pc)) /\ UNCHANGED <<art, failures>>
           \/ EndAttempt /\ SpendFailure
  /\ UNCHANGED <<kind, githubVars, terminal, ctx, inFlight, late, readAt, edits, changes>>

\* put, cut off between the insert and the update.
PutInserted ==
  /\ pc \in PutPoint /\ row = NoRow
  /\ row' = [state |-> "PENDING", id |-> IF pc = "pend" THEN NoArtifact ELSE art, ctx |-> ctx]
  /\ EndAttempt /\ SpendFailure
  /\ UNCHANGED <<kind, githubVars, terminal, ctx, inFlight, late, readAt, edits, changes>>

\* createIssue, createComment: carried out and answered, carried out with the
\* reply lost, or given up on and still in flight.
Create ==
  /\ pc = "create"
  /\ \/ \E n \in Artifacts :
          /\ IsFresh(n)
          /\ artifact' = [artifact EXCEPT ![n] = Created]
          /\ \/ art' = n /\ Goto("note") /\ UNCHANGED failures
             \/ EndAttempt /\ SpendFailure
          /\ UNCHANGED inFlight
     \/ /\ inFlight' = inFlight + 1
        /\ EndAttempt /\ SpendFailure
        /\ UNCHANGED artifact
  /\ UNCHANGED <<kind, world, row, terminal, ctx, late, readAt, edits, changes>>

\* A write to the artifact, whose reply may be lost.
Write(a, next) ==
  /\ artifact[art].status = "live"
  /\ artifact' = [artifact EXCEPT ![art] = a]
  /\ \/ Goto(next) /\ UNCHANGED <<art, failures>>
     \/ EndAttempt /\ SpendFailure
  /\ UNCHANGED <<kind, world, row, terminal, ctx, inFlight, late, readAt, edits, changes>>

SetLabels    == pc = "labels" /\ Write([artifact[art] EXCEPT !.labels = TRUE], "refresh")
AddToProject == pc = "add" /\ Write([artifact[art] EXCEPT !.item = TRUE], "checkFields")
SetFields    == /\ pc = "fields" /\ artifact[art].item
                /\ Write([artifact[art] EXCEPT !.fields = 2], "readback")

\* setProjectFields fails after some of its four updates.
SetSomeFields ==
  /\ pc = "fields" /\ artifact[art].item /\ artifact[art].status = "live"
  /\ artifact' = [artifact EXCEPT ![art].fields = IF @ = 0 THEN 1 ELSE @]
  /\ EndAttempt /\ SpendFailure
  /\ UNCHANGED <<kind, world, row, terminal, ctx, inFlight, late, readAt, edits, changes>>

Refresh ==
  /\ pc = "refresh" /\ artifact[art].status = "live"
  /\ Goto(IF artifact[art].item THEN "checkFields" ELSE "checkAdd")
  /\ UNCHANGED <<kind, githubVars, row, terminal, ctx, art, inFlight, late, readAt, countVars>>

\* Variant: see Readable.
ReadbackUnchecked ==
  /\ pc = "readback"
  /\ readAt' = edits
  /\ \/ Readable(artifact[art]) /\ Goto("confirm") /\ UNCHANGED art
     \/ ~Readable(artifact[art]) /\ EndAttempt
  /\ UNCHANGED <<kind, githubVars, row, terminal, ctx, inFlight, late, countVars>>

Readback ==
  /\ pc = "readback"
  /\ readAt' = edits
  /\ \/ Exact(artifact[art]) /\ Goto("confirm") /\ UNCHANGED art
     \/ ~Exact(artifact[art]) /\ EndAttempt
  /\ UNCHANGED <<kind, githubVars, row, terminal, ctx, inFlight, late, countVars>>

\* The artifact disappeared under the attempt: the call for it fails.
ArtifactMissing ==
  /\ \/ pc \in {"labels", "refresh", "add", "fields"} /\ artifact[art].status # "live"
     \/ pc = "fields" /\ ~artifact[art].item
  /\ EndAttempt
  /\ UNCHANGED <<kind, githubVars, row, terminal, ctx, inFlight, late, readAt, countVars>>

\* apply returns and the caller records the decision TERMINAL.
Return ==
  /\ pc = "return"
  /\ terminal' = TRUE
  /\ EndAttempt
  /\ UNCHANGED <<kind, githubVars, row, ctx, inFlight, late, readAt, countVars>>

\* Any await fails without effect; the process is killed.
AttemptFails ==
  /\ pc # "idle"
  /\ EndAttempt /\ SpendFailure
  /\ UNCHANGED <<kind, githubVars, row, terminal, ctx, inFlight, late, readAt, edits, changes>>

-----------------------------------------------------------------------------
(***************************************************************************)
(* GitHub and the people who use it.                                       *)
(***************************************************************************)

\* Variant: a request in flight is carried out more than once.
CreateLateAgain ==
  /\ inFlight > 0
  /\ late' = late + 1
  /\ \E n \in Artifacts : IsFresh(n) /\ artifact' = [artifact EXCEPT ![n] = Created]
  /\ UNCHANGED <<kind, world, row, terminal, localVars, inFlight, readAt, countVars>>

CreateLate ==
  /\ inFlight > 0
  /\ inFlight' = inFlight - 1
  /\ late' = late + 1
  /\ \E n \in Artifacts : IsFresh(n) /\ artifact' = [artifact EXCEPT ![n] = Created]
  /\ UNCHANGED <<kind, world, row, terminal, localVars, readAt, countVars>>

ChangeWorld ==
  /\ changes < MaxChanges
  /\ changes' = changes + 1
  /\ world' \in Worlds \ {world}
  /\ UNCHANGED <<kind, artifact, row, terminal, localVars, inFlight, late, readAt, failures, edits>>

\* Closed, assigned or reworded; relabelled; taken off the Project; the marker
\* lost; removed.
Edit ==
  /\ edits < MaxEdits
  /\ edits' = edits + 1
  /\ \E n \in Artifacts :
       /\ artifact[n].status = "live"
       /\ artifact' \in {[artifact EXCEPT ![n].whole = FALSE],
                         [artifact EXCEPT ![n].labels = FALSE],
                         [artifact EXCEPT ![n].item = FALSE, ![n].fields = 0],
                         [artifact EXCEPT ![n].whole = FALSE, ![n].marked = FALSE],
                         [artifact EXCEPT ![n].status = "gone"]}
  /\ UNCHANGED <<kind, world, row, terminal, localVars, inFlight, late, readAt, failures, changes>>

-----------------------------------------------------------------------------
AttemptStep ==
  \/ Begin \/ Get \/ Check \/ Find \/ Put \/ Create
  \/ SetLabels \/ Refresh \/ AddToProject \/ SetFields \/ Readback \/ ArtifactMissing
  \/ Return

Failure == PutInserted \/ SetSomeFields \/ AttemptFails

Next == AttemptStep \/ Failure \/ CreateLate \/ ChangeWorld \/ Edit

Spec == Init /\ [][Next]_vars

\* The decision is attempted again and again -- by the next attempts of the drain
\* and, after those, by Admins who requeue the record -- and GitHub finishes
\* what it has accepted.
FairSpec == Spec /\ WF_vars(AttemptStep) /\ WF_vars(CreateLate)

-----------------------------------------------------------------------------
(***************************************************************************)
(* Properties.                                                             *)
(***************************************************************************)

\* SC-004: retries, lost replies and restarts never leave a second Issue or
\* comment with the decision's marker, but for one per request that GitHub
\* carried out after its caller had given it up -- as long as nobody deletes a
\* comment (see NoDuplicateComment).
NoDuplicate ==
  kind = "CREATED" \/ Deleted = {} => Cardinality(Marked) <= 1 + late

\* A CONFIRMED row names an artifact that was exactly what the decision
\* authorized when it was last read back, whatever failed or was edited on the
\* way; only a later edit can make it differ.
ConfirmedIsExact ==
  row # NoRow /\ row.state = "CONFIRMED" /\ kind # "CONSIDERED" /\ readAt = edits
    => row.id # NoArtifact /\ Exact(artifact[row.id])

\* A decision is TERMINAL only with a CONFIRMED operation.
TerminalIsConfirmed == terminal => row # NoRow /\ row.state = "CONFIRMED"

\* An attempt writes to GitHub only under the precondition snapshot the operation
\* was opened with: what a drifted attempt does stops before its first write.
NoWriteAfterDrift ==
  [][artifact' # artifact /\ edits' = edits /\ late' = late
       => row # NoRow /\ row.ctx = ctx]_vars

\* Lost replies, partial writes and late requests never wedge the operation: if
\* the target stays as it was when the operation was opened, and nobody edits the
\* artifacts, the decision becomes TERMINAL.
Settles ==
  []<>~(world \in ValidWorlds /\ (row # NoRow => row.ctx = world) /\ edits = 0)
    \/ <>terminal

\* The module implements what the triage loop needs of it.
Abstract == INSTANCE Outcome WITH
  considered <- kind = "CONSIDERED",
  call <- IF terminal THEN "done" ELSE IF pc = "idle" THEN "idle" ELSE "calling",
  made <- Cardinality(Made),
  removed <- Cardinality(Made \ Marked),
  orphans <- inFlight

ImplementsOutcome == Abstract!OutcomeSpec

(***************************************************************************)
(* What the documentation says and the code does not do.                   *)
(***************************************************************************)

\* architecture.html: lost replies are recovered without duplicate comments.  A
\* comment made in place of a deleted one is not searched for by its marker: the
\* row still names the deleted one.
NoDuplicateComment == kind = "MERGED" => Cardinality(Marked) <= 1 + late

\* data-model.md: a drifted target is refreshed and decided again -- a decision
\* whose target is valid from some time on does not fail for ever.
DriftIsRefreshed == <>[](world \in ValidWorlds /\ edits = 0) => <>terminal
=============================================================================
