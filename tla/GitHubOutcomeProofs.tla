------------------------ MODULE GitHubOutcomeProofs ------------------------
(***************************************************************************)
(* The safety of the GitHub operation ledger for any preconditions and any  *)
(* numbers of failures, edits and changes: type correctness, TerminalIs-    *)
(* Confirmed, ConfirmedIsExact, NoDuplicate, NoWriteAfterDrift, and that    *)
(* the steps are those of Outcome (ImplementsOutcome).                      *)
(*                                                                         *)
(* Control says what the point of the attempt tells of the row and of the   *)
(* artifact in hand: behind "pend" the row holds the attempt's own snapshot, *)
(* and a CONFIRMED row sends every later attempt from "get" to "return".    *)
(* Unmade counts: an attempt that is about to create has found every marked *)
(* artifact to be a late one.                                              *)
(***************************************************************************)
EXTENDS GitHubOutcome, FiniteSetTheorems, TLAPS

Confirmed == row # NoRow /\ row.state = "CONFIRMED"

\* Every late or outstanding request spent a failure; a readback saw the edits so far.
Counted == inFlight + late <= failures /\ readAt <= edits

\* The points behind the pend row, and those at which an artifact is in hand.
Opened == {"create", "checkLabels", "labels", "refresh", "checkAdd", "add", "checkFields", "fields", "readback"}
InHand == {"note", "checkLabels", "labels", "refresh", "checkAdd", "add", "checkFields", "fields", "readback"}

\* The points from a search that found nothing to the creation.
Missing == {"precheck", "pend", "create"}

Control ==
  /\ Recorded => row.id \in Made
  /\ art # NoArtifact => art \in Made
  /\ pc \in InHand \/ (pc = "confirm" /\ kind # "CONSIDERED") => art # NoArtifact
  /\ kind = "CONSIDERED" => pc \in {"idle", "confirm", "return"}
  /\ pc \in Opened => row # NoRow /\ row.ctx = ctx
  /\ Confirmed /\ kind # "CONSIDERED" => pc \in {"idle", "get", "return"} /\ row.id # NoArtifact
  /\ pc = "return" => Confirmed
  /\ terminal => pc = "idle" /\ Confirmed

\* What the readback before "confirm" saw still stands unless it was edited.
ReadExact ==
  pc = "confirm" /\ kind # "CONSIDERED" /\ readAt = edits => Exact(artifact[art])

Unmade ==
  kind = "CREATED" \/ Deleted = {} =>
    /\ Cardinality(Marked) <= 1 + late
    /\ pc \in Missing => Cardinality(Marked) <= late

IInv == TypeOK /\ Counted /\ Control /\ ReadExact /\ ConfirmedIsExact /\ Unmade

-----------------------------------------------------------------------------
\* The sets the counts are about, and what each kind of write does to them.
LEMMA FiniteMade ==
  /\ IsFiniteSet(Made) /\ IsFiniteSet(Marked) /\ IsFiniteSet(Made \ Marked)
  /\ Cardinality(Made) \in Nat /\ Cardinality(Marked) \in Nat /\ Cardinality(Made \ Marked) \in Nat
<1>1. IsFiniteSet(Artifacts)
  BY FS_Interval, OutcomeAssumption DEF Artifacts
<1>2. Made \subseteq Artifacts /\ Marked \subseteq Artifacts
  BY DEF Made, Marked
<1>3. IsFiniteSet(Made) /\ IsFiniteSet(Marked)
  BY <1>1, <1>2, FS_Subset
<1>4. IsFiniteSet(Made \ Marked)
  BY <1>3, FS_Subset
<1>5. QED
  BY <1>3, <1>4, FS_CardinalityType

LEMMA MarkedIsMade == Marked \subseteq Made
BY DEF Marked, Made

LEMMA SameArtifacts ==
  ASSUME artifact' = artifact
  PROVE  Made' = Made /\ Marked' = Marked /\ Deleted' = Deleted
BY DEF Made, Marked, Deleted

LEMMA WrittenArtifact ==
  ASSUME TypeOK, NEW n \in Artifacts, NEW a,
         artifact' = [artifact EXCEPT ![n] = a],
         a.status = artifact[n].status, a.marked = artifact[n].marked
  PROVE  Made' = Made /\ Marked' = Marked /\ Deleted' = Deleted
BY DEF TypeOK, Made, Marked, Deleted

LEMMA FreshArtifact ==
  ASSUME TypeOK, NEW n \in Artifacts, IsFresh(n), artifact' = [artifact EXCEPT ![n] = Created]
  PROVE  /\ n \notin Made
         /\ Made' = Made \cup {n} /\ Marked' = Marked \cup {n} /\ Deleted' = Deleted
         /\ Cardinality(Made') = Cardinality(Made) + 1
         /\ Cardinality(Marked') = Cardinality(Marked) + 1
<1>1. n \notin Made /\ n \notin Marked
  BY MarkedIsMade DEF IsFresh
<1>2. \A m \in Artifacts : artifact'[m] = IF m = n THEN Created ELSE artifact[m]
  BY DEF TypeOK
<1>3. Made' = Made \cup {n}
  BY <1>2 DEF Made, Created
<1>4. Marked' = Marked \cup {n}
  BY <1>2 DEF Marked, Created
<1>5. Deleted' = Deleted
  <2>1. n \notin Deleted
    BY <1>1 DEF Deleted, Made
  <2>2. QED
    BY <1>2, <2>1 DEF Deleted, Created
<1>6. QED
  BY <1>1, <1>3, <1>4, <1>5, FiniteMade, FS_AddElement

\* Edit marks an artifact no longer, or removes it; none appears.
LEMMA EditedArtifact ==
  ASSUME TypeOK, Edit
  PROVE  /\ Made' = Made /\ Deleted \subseteq Deleted'
         /\ Marked' \subseteq Marked
         /\ \/ Marked' = Marked
            \/ \E n \in Marked : Marked' = Marked \ {n}
<1>1. PICK n \in Artifacts :
        /\ artifact[n].status = "live"
        /\ artifact' \in {[artifact EXCEPT ![n].whole = FALSE],
                          [artifact EXCEPT ![n].labels = FALSE],
                          [artifact EXCEPT ![n].item = FALSE, ![n].fields = 0],
                          [artifact EXCEPT ![n].whole = FALSE, ![n].marked = FALSE],
                          [artifact EXCEPT ![n].status = "gone"]}
  BY DEF Edit
<1>2. /\ \A m \in Artifacts \ {n} : artifact'[m] = artifact[m]
      /\ artifact'[n].status \in {"live", "gone"}
      /\ artifact'[n].marked => artifact[n].marked
  BY <1>1 DEF TypeOK, Artifact
<1>3. Made' = Made /\ Deleted \subseteq Deleted'
  BY <1>1, <1>2 DEF Made, Deleted
<1>4. Marked' \subseteq Marked /\ Marked \ {n} \subseteq Marked'
  BY <1>1, <1>2 DEF Marked
<1>5. QED
  BY <1>3, <1>4

-----------------------------------------------------------------------------
\* A step that leaves GitHub alone keeps Unmade, if it goes to no creation unchecked.
LEMMA UnmadeStands ==
  ASSUME Unmade, artifact' = artifact, late' = late, kind' = kind, pc' \in Missing => pc \in Missing
  PROVE  Unmade'
BY SameArtifacts DEF Unmade

-----------------------------------------------------------------------------
(***************************************************************************)
(* Type correctness.                                                       *)
(***************************************************************************)
LEMMA StoredRow ==
  ASSUME row \in Row \cup {NoRow}, ctx \in Worlds,
         NEW state \in {"PENDING", "CONFIRMED"}, NEW id \in Artifacts \cup {NoArtifact}
  PROVE  Stored(state, id) \in Row
BY DEF Stored, Row

LEMMA CreatedIsArtifact == Created \in Artifact
BY DEF Created, Artifact

\* What the writes and the edits make of an artifact.
LEMMA RewrittenArtifact ==
  ASSUME NEW a \in Artifact
  PROVE  /\ [a EXCEPT !.labels = TRUE] \in Artifact
         /\ [a EXCEPT !.item = TRUE] \in Artifact
         /\ [a EXCEPT !.fields = 2] \in Artifact
         /\ [a EXCEPT !.fields = IF @ = 0 THEN 1 ELSE @] \in Artifact
         /\ [a EXCEPT !.whole = FALSE] \in Artifact
         /\ [a EXCEPT !.labels = FALSE] \in Artifact
         /\ [a EXCEPT !.item = FALSE, !.fields = 0] \in Artifact
         /\ [a EXCEPT !.whole = FALSE, !.marked = FALSE] \in Artifact
         /\ [a EXCEPT !.status = "gone"] \in Artifact
<1>1. [a EXCEPT !.labels = TRUE] \in Artifact
  BY DEF Artifact
<1>2. [a EXCEPT !.item = TRUE] \in Artifact
  BY DEF Artifact
<1>3. [a EXCEPT !.fields = 2] \in Artifact
  BY DEF Artifact
<1>4. [a EXCEPT !.fields = IF @ = 0 THEN 1 ELSE @] \in Artifact
  BY DEF Artifact
<1>5. [a EXCEPT !.whole = FALSE] \in Artifact
  BY DEF Artifact
<1>6. [a EXCEPT !.labels = FALSE] \in Artifact
  BY DEF Artifact
<1>7. [a EXCEPT !.item = FALSE, !.fields = 0] \in Artifact
  <2>1. [a EXCEPT !.item = FALSE] \in Artifact
    BY DEF Artifact
  <2>2. \A b \in Artifact : [b EXCEPT !.fields = 0] \in Artifact
    BY DEF Artifact
  <2>3. [a EXCEPT !.item = FALSE, !.fields = 0] = [[a EXCEPT !.item = FALSE] EXCEPT !.fields = 0]
    OBVIOUS
  <2>4. QED
    BY <2>1, <2>2, <2>3
<1>8. [a EXCEPT !.whole = FALSE, !.marked = FALSE] \in Artifact
  BY DEF Artifact
<1>9. [a EXCEPT !.status = "gone"] \in Artifact
  BY DEF Artifact
<1>10. QED
  BY <1>1, <1>2, <1>3, <1>4, <1>5, <1>6, <1>7, <1>8, <1>9

LEMMA TypeStep ==
  ASSUME IInv, [Next]_vars
  PROVE  TypeOK' /\ Counted'
<1> USE OutcomeAssumption DEF IInv, EndAttempt, SpendFailure, Goto, githubVars, localVars, countVars
<1>1. CASE Begin
  <2>1. pc' \in Point
    BY <1>1 DEF Begin, Point, PutPoint
  <2>2. QED
    BY <1>1, <2>1 DEF Begin, TypeOK, Counted
<1>2. CASE Get
  <2>1. pc' \in Point
    BY <1>2 DEF Get, Point, CheckPoint
  <2>2. QED
    BY <1>2, <2>1 DEF Get, TypeOK, Counted
<1>3. CASE Check
  <2>1. pc' \in Point
    BY <1>3 DEF Check, Point, AfterCheck, CheckPoint, PutPoint
  <2>2. QED
    BY <1>3, <2>1 DEF Check, TypeOK, Counted
<1>4. CASE Find
  <2>1. row # NoRow => row \in Row
    BY DEF TypeOK
  <2>2. art' \in Artifacts \cup {NoArtifact}
    BY <1>4, <2>1 DEF Find, TypeOK, Recorded, Row, Marked
  <2>3. pc' \in Point
    BY <1>4 DEF Find, Point, PutPoint, CheckPoint
  <2>4. QED
    BY <1>4, <2>2, <2>3 DEF Find, TypeOK, Counted
<1>5. CASE Put
  <2>1. row' \in Row \cup {NoRow}
    BY <1>5, StoredRow DEF Put, TypeOK, StoredBy, PutPoint
  <2>2. pc' \in Point /\ art' \in Artifacts \cup {NoArtifact}
    BY <1>5 DEF Put, TypeOK, AfterPut, PutPoint, CheckPoint, Point
  <2>3. failures' \in 0..MaxFailures /\ failures <= failures'
    BY <1>5 DEF Put, TypeOK
  <2>4. QED
    BY <1>5, <2>1, <2>2, <2>3 DEF Put, TypeOK, Counted
<1>6. CASE Create
  <2>1. artifact' \in [Artifacts -> Artifact]
    BY <1>6, CreatedIsArtifact DEF Create, TypeOK
  <2>2. pc' \in Point /\ art' \in Artifacts \cup {NoArtifact}
    BY <1>6 DEF Create, TypeOK, PutPoint, Point
  <2>3. failures' \in 0..MaxFailures /\ inFlight' \in Nat /\ Counted'
    BY <1>6 DEF Create, TypeOK, Counted
  <2>4. inFlight' \in 0..MaxFailures
    BY <1>6, <2>3 DEF Create, TypeOK, Counted
  <2>5. QED
    BY <1>6, <2>1, <2>2, <2>3, <2>4 DEF Create, TypeOK
<1>7. ASSUME NEW a \in Artifact, NEW next \in Point, Write(a, next) PROVE TypeOK' /\ Counted'
  <2>1. artifact' \in [Artifacts -> Artifact]
    BY <1>7 DEF Write, TypeOK
  <2>2. pc' \in Point /\ art' \in Artifacts \cup {NoArtifact} /\ failures' \in 0..MaxFailures /\ failures <= failures'
    BY <1>7 DEF Write, TypeOK, Point
  <2>3. QED
    BY <1>7, <2>1, <2>2 DEF Write, TypeOK, Counted
<1>8. CASE SetLabels \/ AddToProject \/ SetFields
  <2>1. artifact[art] \in Artifact
    BY <1>8 DEF Control, InHand, Made, TypeOK, SetLabels, AddToProject, SetFields
  <2>2. /\ [artifact[art] EXCEPT !.labels = TRUE] \in Artifact
        /\ [artifact[art] EXCEPT !.item = TRUE] \in Artifact
        /\ [artifact[art] EXCEPT !.fields = 2] \in Artifact
    BY <2>1, RewrittenArtifact
  <2>3. {"refresh", "checkFields", "readback"} \subseteq Point
    BY DEF Point, CheckPoint
  <2>4. QED
    BY <1>7, <1>8, <2>2, <2>3 DEF SetLabels, AddToProject, SetFields
<1>9. CASE SetSomeFields
  <2>1. art \in Artifacts /\ artifact[art] \in Artifact
    BY <1>9 DEF Control, InHand, Made, TypeOK, SetSomeFields
  <2>2. artifact' \in [Artifacts -> Artifact]
    <3>1. artifact' = [artifact EXCEPT ![art] = [artifact[art] EXCEPT !.fields = IF @ = 0 THEN 1 ELSE @]]
      BY <1>9 DEF SetSomeFields
    <3>2. [artifact[art] EXCEPT !.fields = IF @ = 0 THEN 1 ELSE @] \in Artifact
      BY <2>1, RewrittenArtifact
    <3>3. QED
      BY <2>1, <3>1, <3>2 DEF TypeOK
  <2>3. QED
    BY <1>9, <2>2 DEF SetSomeFields, TypeOK, Counted, Point
<1>10. CASE Refresh
  BY <1>10 DEF Refresh, TypeOK, Counted, Point, CheckPoint
<1>11. CASE Readback
  BY <1>11 DEF Readback, TypeOK, Counted, Point, PutPoint
<1>12. CASE ArtifactMissing
  BY <1>12 DEF ArtifactMissing, TypeOK, Counted, Point
<1>13. CASE Return
  BY <1>13 DEF Return, TypeOK, Counted, Point
<1>14. CASE PutInserted
  <2>1. row' \in Row
    BY <1>14 DEF PutInserted, TypeOK, Row
  <2>2. QED
    BY <1>14, <2>1 DEF PutInserted, TypeOK, Counted, Point
<1>15. CASE AttemptFails
  BY <1>15 DEF AttemptFails, TypeOK, Counted, Point
<1>16. CASE CreateLate
  <2>1. artifact' \in [Artifacts -> Artifact]
    BY <1>16, CreatedIsArtifact DEF CreateLate, TypeOK
  <2>2. inFlight' \in 0..MaxFailures /\ late' \in 0..MaxFailures /\ Counted'
    BY <1>16 DEF CreateLate, TypeOK, Counted
  <2>3. QED
    BY <1>16, <2>1, <2>2 DEF CreateLate, TypeOK
<1>17. CASE ChangeWorld
  BY <1>17 DEF ChangeWorld, TypeOK, Counted
<1>18. CASE Edit
  <2>1. artifact' \in [Artifacts -> Artifact]
    <3>1. PICK n \in Artifacts :
            artifact' \in {[artifact EXCEPT ![n].whole = FALSE],
                           [artifact EXCEPT ![n].labels = FALSE],
                           [artifact EXCEPT ![n].item = FALSE, ![n].fields = 0],
                           [artifact EXCEPT ![n].whole = FALSE, ![n].marked = FALSE],
                           [artifact EXCEPT ![n].status = "gone"]}
      BY <1>18 DEF Edit
    <3>2. artifact[n] \in Artifact
      BY DEF TypeOK
    <3>3. artifact' \in {[artifact EXCEPT ![n] = a] : a \in Artifact}
      <4> DEFINE a == artifact[n]
      <4>1. /\ [artifact EXCEPT ![n].whole = FALSE] = [artifact EXCEPT ![n] = [a EXCEPT !.whole = FALSE]]
            /\ [artifact EXCEPT ![n].labels = FALSE] = [artifact EXCEPT ![n] = [a EXCEPT !.labels = FALSE]]
            /\ [artifact EXCEPT ![n].status = "gone"] = [artifact EXCEPT ![n] = [a EXCEPT !.status = "gone"]]
        OBVIOUS
      <4>2. [artifact EXCEPT ![n].item = FALSE, ![n].fields = 0]
              = [artifact EXCEPT ![n] = [a EXCEPT !.item = FALSE, !.fields = 0]]
        BY DEF TypeOK
      <4>3. [artifact EXCEPT ![n].whole = FALSE, ![n].marked = FALSE]
              = [artifact EXCEPT ![n] = [a EXCEPT !.whole = FALSE, !.marked = FALSE]]
        BY DEF TypeOK
      <4>4. QED
        BY <3>1, <3>2, <4>1, <4>2, <4>3, RewrittenArtifact
    <3>4. QED
      BY <3>3 DEF TypeOK
  <2>2. QED
    BY <1>18, <2>1 DEF Edit, TypeOK, Counted
<1>19. CASE UNCHANGED vars
  BY <1>19 DEF vars, TypeOK, Counted
<1>20. QED
  BY <1>1, <1>2, <1>3, <1>4, <1>5, <1>6, <1>8, <1>9, <1>10, <1>11, <1>12, <1>13, <1>14, <1>15, <1>16, <1>17,
     <1>18, <1>19 DEF Next, AttemptStep, Failure
-----------------------------------------------------------------------------
(***************************************************************************)
(* Control.                                                                *)
(***************************************************************************)
\* Where an attempt writes to the artifact in hand, it is one of Made.
LEMMA ArtInHand ==
  ASSUME IInv, pc \in InHand
  PROVE  art \in Artifacts /\ art \in Made /\ kind # "CONSIDERED" /\ ~Confirmed /\ ~terminal
BY DEF IInv, Control, InHand, Made

\* A write to the artifact in hand keeps all the counts.
LEMMA WriteStands ==
  ASSUME IInv, SetLabels \/ AddToProject \/ SetFields \/ SetSomeFields
  PROVE  Made' = Made /\ Marked' = Marked /\ Deleted' = Deleted
<1> DEFINE a == artifact[art]
<1>1. art \in Artifacts /\ a \in Artifact
  BY ArtInHand DEF IInv, TypeOK, InHand, SetLabels, AddToProject, SetFields, SetSomeFields
<1>2. ASSUME NEW b, artifact' = [artifact EXCEPT ![art] = b], b.status = a.status, b.marked = a.marked
      PROVE  Made' = Made /\ Marked' = Marked /\ Deleted' = Deleted
  BY <1>1, <1>2, WrittenArtifact DEF IInv
<1>3. /\ [a EXCEPT !.labels = TRUE].status = a.status /\ [a EXCEPT !.labels = TRUE].marked = a.marked
      /\ [a EXCEPT !.item = TRUE].status = a.status /\ [a EXCEPT !.item = TRUE].marked = a.marked
      /\ [a EXCEPT !.fields = 2].status = a.status /\ [a EXCEPT !.fields = 2].marked = a.marked
      /\ [a EXCEPT !.fields = IF @ = 0 THEN 1 ELSE @].status = a.status
      /\ [a EXCEPT !.fields = IF @ = 0 THEN 1 ELSE @].marked = a.marked
  BY <1>1 DEF Artifact
<1>4. CASE SetLabels
  BY <1>2, <1>3, <1>4 DEF SetLabels, Write
<1>5. CASE AddToProject
  BY <1>2, <1>3, <1>5 DEF AddToProject, Write
<1>6. CASE SetFields
  BY <1>2, <1>3, <1>6 DEF SetFields, Write
<1>7. CASE SetSomeFields
  <2>1. artifact' = [artifact EXCEPT ![art] = [a EXCEPT !.fields = IF @ = 0 THEN 1 ELSE @]]
    BY <1>7 DEF SetSomeFields
  <2>2. QED
    BY <1>2, <1>3, <2>1
<1>8. QED
  BY <1>4, <1>5, <1>6, <1>7

\* What a put leaves in the row, by the point it is called from.
LEMMA PutRow ==
  ASSUME IInv, pc \in PutPoint, ~Drifted, row' = StoredBy(pc)
  PROVE  /\ row' \in Row /\ row' # NoRow /\ row'.ctx = ctx
         /\ row'.id \in {art, NoArtifact} \/ (Recorded /\ row'.id = row.id)
         /\ pc = "confirm" => row'.state = "CONFIRMED"
         /\ pc = "confirm" /\ art # NoArtifact => row'.id = art
         /\ pc \in {"pend", "note"} /\ ~Confirmed => row'.state = "PENDING"
<1>1. row' \in Row /\ row' # NoRow
  BY StoredRow, NoRowAssumption DEF IInv, TypeOK, StoredBy, PutPoint
<1>2. row # NoRow => row \in Row
  BY DEF IInv, TypeOK
<1>3. QED
  BY <1>1, <1>2 DEF Drifted, StoredBy, Stored, PutPoint, Recorded, Row, Confirmed

LEMMA ControlStep ==
  ASSUME IInv, [Next]_vars
  PROVE  Control'
<1> USE DEF EndAttempt, SpendFailure, Goto, githubVars, localVars, countVars, InHand, Opened, Recorded, Confirmed
<1>1. CASE Begin
  BY <1>1, SameArtifacts DEF Begin, IInv, Control
<1>2. CASE Get
  BY <1>2, SameArtifacts DEF Get, IInv, Control
<1>3. CASE Check
  BY <1>3, SameArtifacts DEF Check, IInv, Control, CheckPoint, AfterCheck
<1>4. CASE Find
  <2>1. Marked \subseteq Made /\ Made' = Made
    BY <1>4, SameArtifacts, MarkedIsMade DEF Find
  <2>2. \A n \in Marked : n # NoArtifact
    BY OutcomeAssumption DEF Marked, Artifacts, NoArtifact
  <2>3. QED
    BY <1>4, <2>1, <2>2 DEF Find, IInv, Control
<1>5. CASE Put
  <2>1. Made' = Made
    BY <1>5, SameArtifacts DEF Put
  <2>2. CASE Drifted
    BY <1>5, <2>1, <2>2 DEF Put, IInv, Control
  <2>3. CASE ~Drifted
    <3>1. row' = StoredBy(pc)
      BY <1>5, <2>3 DEF Put
    <3>2. /\ row' # NoRow /\ row'.ctx = ctx
          /\ row'.id \in {art, NoArtifact} \/ (Recorded /\ row'.id = row.id)
          /\ pc = "confirm" => row'.state = "CONFIRMED"
          /\ pc = "confirm" /\ art # NoArtifact => row'.id = art
          /\ pc \in {"pend", "note"} /\ ~Confirmed => row'.state = "PENDING"
      BY <1>5, <2>3, <3>1, PutRow DEF Put
    <3>3. pc \in {"pend", "note", "confirm"} /\ ~terminal
      BY <1>5 DEF Put, PutPoint, IInv, Control
    <3>4. (pc' = AfterPut(pc) /\ art' = art) \/ (pc' = "idle" /\ art' = NoArtifact)
      BY <1>5, <2>3 DEF Put
    <3>5. /\ pc = "pend" => AfterPut(pc) = "create"
          /\ pc = "note" => AfterPut(pc) \in {"checkLabels", "readback"}
          /\ pc = "confirm" => AfterPut(pc) = "return"
      BY DEF AfterPut
    <3>6. kind' = kind /\ ctx' = ctx /\ terminal' = terminal
      BY <1>5 DEF Put
    <3>7. QED
      BY <2>1, <3>2, <3>3, <3>4, <3>5, <3>6 DEF IInv, Control
  <2>4. QED
    BY <2>2, <2>3
<1>6. CASE Create
  <2>1. ASSUME artifact' = artifact, pc' = "idle", art' = NoArtifact PROVE Control'
    BY <1>6, <2>1, SameArtifacts DEF Create, IInv, Control
  <2>2. ASSUME NEW n \in Artifacts, IsFresh(n), artifact' = [artifact EXCEPT ![n] = Created],
               \/ art' = n /\ pc' = "note"
               \/ art' = NoArtifact /\ pc' = "idle"
        PROVE  Control'
    <3>1. Made' = Made \cup {n}
      BY <2>2, FreshArtifact DEF IInv
    <3>2. n # NoArtifact
      BY OutcomeAssumption DEF Artifacts, NoArtifact
    <3>3. QED
      BY <1>6, <2>2, <3>1, <3>2 DEF Create, IInv, Control
  <2>3. QED
    BY <1>6, <2>1, <2>2 DEF Create
<1>7. CASE SetLabels \/ AddToProject \/ SetFields \/ SetSomeFields
  <2>1. Made' = Made
    BY <1>7, WriteStands
  <2>2. QED
    BY <1>7, <2>1 DEF SetLabels, AddToProject, SetFields, SetSomeFields, Write, IInv, Control
<1>8. CASE Refresh \/ Readback \/ ArtifactMissing \/ Return \/ AttemptFails \/ ChangeWorld
  BY <1>8, SameArtifacts DEF Refresh, Readback, ArtifactMissing, Return, AttemptFails, ChangeWorld, IInv, Control
<1>9. CASE PutInserted
  <2>1. row' # NoRow /\ row'.state = "PENDING" /\ row'.id \in {art, NoArtifact}
    BY <1>9, NoRowAssumption DEF PutInserted, Row, IInv, TypeOK
  <2>2. QED
    BY <1>9, <2>1, SameArtifacts DEF PutInserted, PutPoint, IInv, Control
<1>10. CASE CreateLate
  <2>1. Made \subseteq Made'
    BY <1>10, FreshArtifact DEF CreateLate, IInv
  <2>2. QED
    BY <1>10, <2>1 DEF CreateLate, IInv, Control
<1>11. CASE Edit
  <2>1. Made' = Made
    BY <1>11, EditedArtifact DEF IInv
  <2>2. QED
    BY <1>11, <2>1 DEF Edit, IInv, Control
<1>12. CASE UNCHANGED vars
  BY <1>12, SameArtifacts DEF vars, IInv, Control
<1>13. QED
  BY <1>1, <1>2, <1>3, <1>4, <1>5, <1>6, <1>7, <1>8, <1>9, <1>10, <1>11, <1>12 DEF Next, AttemptStep, Failure
-----------------------------------------------------------------------------
(***************************************************************************)
(* ConfirmedIsExact.                                                       *)
(***************************************************************************)
\* While a row is CONFIRMED, or about to be, no attempt writes to an artifact.
LEMMA ExactStep ==
  ASSUME IInv, [Next]_vars
  PROVE  ReadExact' /\ ConfirmedIsExact'
<1> USE DEF EndAttempt, SpendFailure, Goto, githubVars, localVars, countVars, Confirmed
<1>1. ASSUME artifact' = artifact, row' = row, kind' = kind, edits' = edits, readAt' = readAt, pc' # "confirm"
      PROVE  ReadExact' /\ ConfirmedIsExact'
  BY <1>1 DEF IInv, ReadExact, ConfirmedIsExact, Exact
<1>2. ASSUME ~Confirmed', pc' # "confirm"
      PROVE  ReadExact' /\ ConfirmedIsExact'
  BY <1>2 DEF ReadExact, ConfirmedIsExact
<1>3. CASE Begin
  <2>1. kind = "CONSIDERED" \/ pc' = "get"
    BY <1>3 DEF Begin
  <2>2. QED
    BY <1>1, <1>3, <2>1 DEF Begin, IInv, ReadExact, ConfirmedIsExact, Exact
<1>4. CASE Get \/ Check \/ Find \/ Refresh \/ ArtifactMissing \/ Return \/ AttemptFails \/ ChangeWorld
  <2>1. pc' # "confirm" \/ (pc' = pc /\ art' = art)
    BY <1>4 DEF Get, Check, AfterCheck, CheckPoint, Find, Refresh, ArtifactMissing, Return, AttemptFails, ChangeWorld
  <2>2. /\ artifact' = artifact /\ row' = row /\ kind' = kind /\ edits' = edits /\ readAt' = readAt
    BY <1>4 DEF Get, Check, Find, Refresh, ArtifactMissing, Return, AttemptFails, ChangeWorld
  <2>3. QED
    BY <2>1, <2>2 DEF IInv, ReadExact, ConfirmedIsExact, Exact
<1>5. CASE Put
  <2>1. CASE Drifted
    BY <1>1, <1>5, <2>1 DEF Put
  <2>2. CASE ~Drifted
    <3>1. row' = StoredBy(pc) /\ pc \in PutPoint
      BY <1>5, <2>2 DEF Put
    <3>2. pc' # "confirm"
      BY <1>5, <2>2 DEF Put, AfterPut, PutPoint
    <3>3. UNCHANGED <<artifact, kind, edits, readAt>>
      BY <1>5 DEF Put
    <3>4. CASE pc = "confirm"
      <4>1. kind # "CONSIDERED" => art # NoArtifact
        BY <3>4 DEF IInv, Control
      <4>2. kind # "CONSIDERED" => row'.id = art
        BY <2>2, <3>1, <3>4, <4>1, PutRow
      <4>3. QED
        BY <3>2, <3>3, <3>4, <4>1, <4>2 DEF IInv, ReadExact, ConfirmedIsExact, Exact
    <3>5. CASE pc \in {"pend", "note"}
      <4>1. ~Confirmed
        BY <3>5 DEF IInv, Control
      <4>2. row'.state = "PENDING"
        BY <2>2, <3>1, <3>5, <4>1, PutRow
      <4>3. QED
        BY <1>2, <3>2, <4>2
    <3>6. QED
      BY <3>1, <3>4, <3>5 DEF PutPoint
  <2>3. QED
    BY <2>1, <2>2
<1>6. CASE Create \/ SetLabels \/ AddToProject \/ SetFields \/ SetSomeFields
  <2>1. ~Confirmed
    BY <1>6 DEF IInv, Control, Create, SetLabels, AddToProject, SetFields, SetSomeFields
  <2>2. row' = row /\ pc' # "confirm"
    BY <1>6 DEF Create, SetLabels, AddToProject, SetFields, SetSomeFields, Write
  <2>3. QED
    BY <1>2, <2>1, <2>2
<1>7. CASE Readback
  <2>1. ~Confirmed /\ row' = row
    BY <1>7 DEF IInv, Control, InHand, Readback
  <2>2. pc' = "confirm" => Exact(artifact[art]) /\ art' = art
    BY <1>7 DEF Readback
  <2>3. artifact' = artifact /\ kind' = kind
    BY <1>7 DEF Readback
  <2>4. QED
    BY <2>1, <2>2, <2>3 DEF ReadExact, ConfirmedIsExact, Exact
<1>8. CASE PutInserted
  <2>1. row'.state = "PENDING" /\ pc' = "idle"
    BY <1>8 DEF PutInserted
  <2>2. QED
    BY <1>2, <2>1
<1>9. CASE CreateLate
  <2>1. PICK n \in Artifacts : IsFresh(n) /\ artifact' = [artifact EXCEPT ![n] = Created]
    BY <1>9 DEF CreateLate
  <2>2. n \notin Made
    BY <2>1, FreshArtifact DEF IInv
  <2>3. \A m \in Made : artifact'[m] = artifact[m]
    BY <2>1, <2>2 DEF Made, IInv, TypeOK
  <2>4. UNCHANGED <<kind, row, pc, art, readAt, edits>>
    BY <1>9 DEF CreateLate
  <2>5. pc = "confirm" /\ kind # "CONSIDERED" => art \in Made
    BY DEF IInv, Control
  <2>6. Recorded => row.id \in Made
    BY DEF IInv, Control
  <2>7. QED
    BY <2>3, <2>4, <2>5, <2>6 DEF IInv, ReadExact, ConfirmedIsExact, Exact, Recorded
<1>10. CASE Edit
  <2>1. readAt' # edits'
    BY <1>10 DEF Edit, IInv, Counted, TypeOK
  <2>2. QED
    BY <2>1 DEF ReadExact, ConfirmedIsExact
<1>11. CASE UNCHANGED vars
  BY <1>11 DEF vars, IInv, ReadExact, ConfirmedIsExact, Exact
<1>12. QED
  BY <1>3, <1>4, <1>5, <1>6, <1>7, <1>8, <1>9, <1>10, <1>11 DEF Next, AttemptStep, Failure

-----------------------------------------------------------------------------
(***************************************************************************)
(* NoDuplicate.                                                            *)
(***************************************************************************)
LEMMA UnmadeStep ==
  ASSUME IInv, [Next]_vars
  PROVE  Unmade'
<1> USE DEF EndAttempt, SpendFailure, Goto, githubVars, localVars, countVars, Missing
<1>1. CASE Begin \/ Get \/ Check \/ Put \/ Readback \/ Refresh \/ ArtifactMissing \/ Return \/ PutInserted
           \/ AttemptFails \/ ChangeWorld
  <2>1. artifact' = artifact /\ late' = late /\ kind' = kind
    BY <1>1 DEF Begin, Get, Check, Put, Readback, Refresh, ArtifactMissing, Return, PutInserted, AttemptFails,
                ChangeWorld
  <2>2. pc' \in Missing => pc \in Missing
    BY <1>1 DEF Begin, Get, Check, AfterCheck, CheckPoint, Put, AfterPut, PutPoint, Readback, Refresh,
                ArtifactMissing, Return, PutInserted, AttemptFails, ChangeWorld
  <2>3. QED
    BY <2>1, <2>2, UnmadeStands DEF IInv
<1>2. CASE Find
  <2>1. Marked' = Marked /\ Deleted' = Deleted /\ late' = late /\ kind' = kind
    BY <1>2, SameArtifacts DEF Find
  <2>2. CASE ~Recorded /\ Marked = {}
    <3>1. Cardinality(Marked) = 0
      BY <2>2, FS_EmptySet
    <3>2. QED
      BY <2>1, <3>1 DEF Unmade, IInv, TypeOK
  <2>3. CASE Recorded /\ artifact[row.id].status # "live" /\ kind = "MERGED"
    <3>1. row.id \in Made /\ row.id \in Artifacts
      BY <2>3 DEF IInv, Control, Made
    <3>2. artifact[row.id].status = "gone"
      BY <2>3, <3>1 DEF Made, IInv, TypeOK, Artifact
    <3>3. row.id \in Deleted
      BY <3>1, <3>2 DEF Deleted
    <3>4. QED
      BY <2>1, <2>3, <3>3 DEF Unmade
  <2>4. CASE pc' \notin Missing
    BY <1>2, <2>4, UnmadeStands DEF IInv, Find
  <2>5. QED
    BY <1>2, <2>2, <2>3, <2>4 DEF Find
<1>3. CASE Create
  <2>1. CASE artifact' = artifact /\ pc' = "idle"
    BY <1>3, <2>1, UnmadeStands DEF IInv, Create
  <2>2. ASSUME NEW n \in Artifacts, IsFresh(n), artifact' = [artifact EXCEPT ![n] = Created],
               pc' \in {"note", "idle"}
        PROVE  Unmade'
    <3>1. Cardinality(Marked') = Cardinality(Marked) + 1 /\ Deleted' = Deleted
      BY <2>2, FreshArtifact DEF IInv
    <3>2. late' = late /\ kind' = kind /\ pc = "create"
      BY <1>3 DEF Create
    <3>3. Cardinality(Marked) \in Nat /\ late \in Nat
      BY FiniteMade DEF IInv, TypeOK
    <3>4. QED
      BY <2>2, <3>1, <3>2, <3>3 DEF IInv, Unmade
  <2>3. QED
    BY <1>3, <2>1, <2>2 DEF Create
<1>4. CASE SetLabels \/ AddToProject \/ SetFields \/ SetSomeFields
  <2>1. Marked' = Marked /\ Deleted' = Deleted
    BY <1>4, WriteStands
  <2>2. late' = late /\ kind' = kind /\ pc' \notin Missing
    BY <1>4 DEF SetLabels, AddToProject, SetFields, SetSomeFields, Write
  <2>3. QED
    BY <2>1, <2>2 DEF IInv, Unmade
<1>5. CASE CreateLate
  <2>1. Cardinality(Marked') = Cardinality(Marked) + 1 /\ Deleted' = Deleted
    BY <1>5, FreshArtifact DEF CreateLate, IInv
  <2>2. late' = late + 1 /\ kind' = kind /\ pc' = pc
    BY <1>5 DEF CreateLate
  <2>3. Cardinality(Marked) \in Nat /\ late \in Nat
    BY FiniteMade DEF IInv, TypeOK
  <2>4. QED
    BY <2>1, <2>2, <2>3 DEF IInv, Unmade
<1>6. CASE Edit
  <2>1. Marked' \subseteq Marked /\ Deleted \subseteq Deleted'
    BY <1>6, EditedArtifact DEF IInv
  <2>2. Cardinality(Marked') <= Cardinality(Marked) /\ Cardinality(Marked') \in Nat /\ Cardinality(Marked) \in Nat
    BY <2>1, FiniteMade, FS_Subset, FS_CardinalityType
  <2>3. late' = late /\ kind' = kind /\ pc' = pc /\ late \in Nat
    BY <1>6 DEF Edit, IInv, TypeOK
  <2>4. QED
    BY <2>1, <2>2, <2>3 DEF IInv, Unmade
<1>7. CASE UNCHANGED vars
  BY <1>7, UnmadeStands DEF vars, IInv
<1>8. QED
  BY <1>1, <1>2, <1>3, <1>4, <1>5, <1>6, <1>7 DEF Next, AttemptStep, Failure

-----------------------------------------------------------------------------
LEMMA InitIInv == Init => IInv
<1> SUFFICES ASSUME Init PROVE IInv
  OBVIOUS
<1>1. TypeOK /\ Counted
  <2>1. Absent \in Artifact
    BY DEF Absent, Artifact
  <2>2. artifact \in [Artifacts -> Artifact] /\ world \in Worlds
    BY <2>1, OutcomeAssumption DEF Init
  <2>3. pc \in Point
    BY DEF Init, Point
  <2>4. 0 \in 0..MaxFailures /\ 0 \in 0..MaxEdits /\ 0 \in 0..MaxChanges
    BY OutcomeAssumption
  <2>5. kind \in {"CREATED", "MERGED", "CONSIDERED"} /\ terminal \in BOOLEAN
    BY DEF Init
  <2>6. row \in Row \cup {NoRow} /\ ctx \in Worlds /\ art \in Artifacts \cup {NoArtifact}
    BY <2>2 DEF Init
  <2>7. /\ inFlight \in 0..MaxFailures /\ late \in 0..MaxFailures /\ failures \in 0..MaxFailures
        /\ readAt \in 0..MaxEdits /\ edits \in 0..MaxEdits /\ changes \in 0..MaxChanges
    BY <2>4 DEF Init
  <2>8. Counted
    BY DEF Init, Counted
  <2>9. QED
    BY <2>2, <2>3, <2>5, <2>6, <2>7, <2>8 DEF TypeOK
<1>2. Control /\ ReadExact /\ ConfirmedIsExact
  BY DEF Init, Control, ReadExact, ConfirmedIsExact, Confirmed, Recorded, InHand, Opened
<1>3. Unmade
  <2>1. Marked = {}
    BY DEF Init, Marked, Absent
  <2>2. Cardinality(Marked) = 0
    BY <2>1, FS_EmptySet
  <2>3. QED
    BY <2>2 DEF Init, Unmade
<1>4. QED
  BY <1>1, <1>2, <1>3 DEF IInv

LEMMA NextIInv == IInv /\ [Next]_vars => IInv'
BY TypeStep, ControlStep, ExactStep, UnmadeStep DEF IInv

LEMMA SpecIInv == Spec => []IInv
BY InitIInv, NextIInv, PTL DEF Spec

\* Every point of an attempt, with any failure, leaves well-formed rows and artifacts.
THEOREM TypeCorrect == Spec => []TypeOK
<1>1. IInv => TypeOK
  BY DEF IInv
<1>2. QED
  BY <1>1, SpecIInv, PTL

\* However often apply is retried, GitHub holds one marked Issue or comment of the decision and
\* one more for each request it carried out late (github_operations, outcome-applier.ts).
THEOREM OneArtifact == Spec => []NoDuplicate
<1>1. IInv => NoDuplicate
  BY DEF IInv, Unmade, NoDuplicate
<1>2. QED
  BY <1>1, SpecIInv, PTL

\* A CONFIRMED row names what was read back exactly as authorized (the readbacks before put).
THEOREM ExactReadback == Spec => []ConfirmedIsExact
<1>1. IInv => ConfirmedIsExact
  BY DEF IInv
<1>2. QED
  BY <1>1, SpecIInv, PTL

\* No decision is TERMINAL on the word of an operation that was not confirmed.
THEOREM ConfirmedFirst == Spec => []TerminalIsConfirmed
<1>1. IInv => TerminalIsConfirmed
  BY DEF IInv, Control, Confirmed, TerminalIsConfirmed
<1>2. QED
  BY <1>1, SpecIInv, PTL

\* An attempt writes to GitHub only under the snapshot its operation was opened with (put's
\* comparison, postgres-ledger.ts).
THEOREM DriftWritesNothing == Spec => NoWriteAfterDrift
<1> DEFINE Undrifted == artifact' # artifact /\ edits' = edits /\ late' = late => row # NoRow /\ row.ctx = ctx
<1>1. IInv /\ [Next]_vars => [Undrifted]_vars
  <2> SUFFICES ASSUME IInv, [Next]_vars, artifact' # artifact, edits' = edits, late' = late
               PROVE  row # NoRow /\ row.ctx = ctx
    OBVIOUS
  <2>1. pc \in Opened
    <3> USE DEF githubVars
    <3>1. ~(UNCHANGED vars) /\ ~Begin /\ ~Get /\ ~Check /\ ~Find /\ ~Put /\ ~Refresh /\ ~Readback
          /\ ~ArtifactMissing /\ ~Return /\ ~PutInserted /\ ~AttemptFails /\ ~ChangeWorld
      BY DEF vars, Begin, Get, Check, Find, Put, Refresh, Readback, ArtifactMissing, Return, PutInserted,
             AttemptFails, ChangeWorld
    <3>2. ~Edit /\ ~CreateLate
      BY DEF Edit, CreateLate, IInv, TypeOK
    <3>3. Create \/ SetLabels \/ AddToProject \/ SetFields \/ SetSomeFields
      BY <3>1, <3>2 DEF Next, AttemptStep, Failure
    <3>4. QED
      BY <3>3 DEF Create, SetLabels, AddToProject, SetFields, SetSomeFields, Opened
  <2>2. QED
    BY <2>1 DEF IInv, Control
<1>2. Spec => [][Undrifted]_vars
  BY <1>1, SpecIInv, PTL DEF Spec
<1>3. QED
  BY <1>2 DEF NoWriteAfterDrift

-----------------------------------------------------------------------------
(***************************************************************************)
(* The refinement: every step of an attempt is a step of Outcome, or none.  *)
(***************************************************************************)
CallOf(t, p) == IF t THEN "done" ELSE IF p = "idle" THEN "idle" ELSE "calling"

Counts == <<Cardinality(Made), Cardinality(Made \ Marked)>>

LEMMA SameCounts ==
  ASSUME Made' = Made, Marked' = Marked
  PROVE  Counts' = Counts
BY DEF Counts

\* The attempt goes on, ends, or starts, without a new artifact.
LEMMA Going ==
  ASSUME IInv, Counts' = Counts, UNCHANGED <<kind, terminal, late, inFlight>>,
         ~terminal, pc # "idle" \/ pc' = pc \/ Begin
  PROVE  [Abstract!OutcomeNext]_(Abstract!outcomeVars)
<1> DEFINE call == CallOf(terminal, pc)
<1>1. Cardinality(Made)' = Cardinality(Made) /\ Cardinality(Made \ Marked)' = Cardinality(Made \ Marked)
  BY DEF Counts
<1>2. CASE call' = call
  BY <1>1, <1>2 DEF Abstract!outcomeVars, CallOf
<1>3. CASE call = "idle" /\ call' = "calling"
  BY <1>1, <1>3 DEF Abstract!OutcomeNext, Abstract!Call, CallOf
<1>4. CASE call = "calling" /\ call' = "idle"
  BY <1>1, <1>4 DEF Abstract!OutcomeNext, Abstract!GiveUp, CallOf
<1>5. QED
  BY <1>2, <1>3, <1>4 DEF CallOf

LEMMA OutcomeStep ==
  ASSUME IInv, [Next]_vars
  PROVE  [Abstract!OutcomeNext]_(Abstract!outcomeVars)
<1> USE DEF EndAttempt, SpendFailure, Goto, githubVars, localVars, countVars
<1>1. CASE Begin \/ Get \/ Check \/ Find \/ Put \/ PutInserted \/ Refresh \/ Readback \/ ArtifactMissing
           \/ AttemptFails \/ ChangeWorld
  <2>1. artifact' = artifact /\ UNCHANGED <<kind, terminal, late, inFlight>>
    BY <1>1 DEF Begin, Get, Check, Find, Put, PutInserted, Refresh, Readback, ArtifactMissing, AttemptFails,
                ChangeWorld
  <2>2. CASE ChangeWorld
    <3>1. pc' = pc /\ Counts' = Counts
      BY <2>1, <2>2, SameArtifacts, SameCounts DEF ChangeWorld
    <3>2. QED
      BY <2>1, <3>1 DEF Abstract!outcomeVars, Counts
  <2>3. CASE ~ChangeWorld
    <3>1. ~terminal
      BY <1>1, <2>3 DEF IInv, Control, Begin, Get, Check, CheckPoint, Find, Put, PutInserted, PutPoint, Refresh,
                        Readback, ArtifactMissing, AttemptFails
    <3>2. Begin \/ pc # "idle"
      BY <1>1, <2>3 DEF Get, Check, CheckPoint, Find, Put, PutInserted, PutPoint, Refresh,
                        Readback, ArtifactMissing, AttemptFails
    <3>3. QED
      BY <2>1, <3>1, <3>2, SameArtifacts, SameCounts, Going
  <2>4. QED
    BY <2>2, <2>3
<1>2. CASE SetLabels \/ AddToProject \/ SetFields \/ SetSomeFields
  <2>1. Counts' = Counts
    BY <1>2, WriteStands, SameCounts
  <2>2. UNCHANGED <<kind, terminal, late, inFlight>> /\ pc \in InHand
    BY <1>2 DEF SetLabels, AddToProject, SetFields, SetSomeFields, Write, InHand
  <2>3. ~terminal /\ pc # "idle"
    BY <2>2, ArtInHand DEF InHand
  <2>4. QED
    BY <2>1, <2>2, <2>3, Going
<1>3. CASE Return
  <2>1. Counts' = Counts /\ pc # "idle" /\ ~terminal
    BY <1>3, SameArtifacts, SameCounts DEF Return, IInv, Control
  <2>2. kind = "CONSIDERED" \/ Cardinality(Made) > 0
    <3>1. SUFFICES ASSUME kind # "CONSIDERED" PROVE Cardinality(Made) > 0
      OBVIOUS
    <3>2. Made # {}
      BY <1>3, <3>1 DEF Return, IInv, Control, Confirmed, Recorded
    <3>3. QED
      BY <3>2, FiniteMade, FS_EmptySet
  <2>3. QED
    BY <1>3, <2>1, <2>2 DEF Return, Counts, Abstract!OutcomeNext, Abstract!Succeed
<1>4. CASE Create
  <2>1. kind # "CONSIDERED" /\ ~terminal /\ pc = "create"
    BY <1>4 DEF Create, IInv, Control
  <2>2. CASE artifact' = artifact /\ inFlight' = inFlight + 1 /\ pc' = "idle"
    <3>1. Counts' = Counts
      BY <2>2, SameArtifacts, SameCounts
    <3>2. QED
      BY <1>4, <2>1, <2>2, <3>1 DEF Create, Counts, Abstract!OutcomeNext, Abstract!GiveUp
  <2>3. ASSUME NEW n \in Artifacts, IsFresh(n), artifact' = [artifact EXCEPT ![n] = Created],
               pc' \in {"note", "idle"}, inFlight' = inFlight
        PROVE  Abstract!Mutate
    <3>1. /\ Made' = Made \cup {n} /\ Marked' = Marked \cup {n}
          /\ Cardinality(Made)' = Cardinality(Made) + 1
      BY <2>3, FreshArtifact DEF IInv
    <3>2. Cardinality(Made \ Marked)' = Cardinality(Made \ Marked)
      <4>1. n \notin Made
        BY <2>3, FreshArtifact DEF IInv
      <4>2. Made' \ Marked' = Made \ Marked
        BY <3>1, <4>1
      <4>3. QED
        BY <4>2
    <3>3. Cardinality(Made) <= late \/ Cardinality(Made \ Marked) > 0
      <4>1. CASE Made \ Marked = {}
        <5>1. Made = Marked
          BY <4>1, MarkedIsMade
        <5>2. Deleted = {}
          BY <5>1 DEF Deleted, Made, Marked
        <5>3. QED
          BY <2>1, <5>1, <5>2 DEF IInv, Unmade, Missing
      <4>2. CASE Made \ Marked # {}
        BY <4>2, FiniteMade, FS_EmptySet
      <4>3. QED
        BY <4>1, <4>2
    <3>4. QED
      BY <1>4, <2>1, <2>3, <3>1, <3>2, <3>3 DEF Create, Abstract!Mutate
  <2>4. QED
    BY <1>4, <2>2, <2>3 DEF Create, Abstract!OutcomeNext
<1>5. CASE CreateLate
  <2>1. PICK n \in Artifacts : IsFresh(n) /\ artifact' = [artifact EXCEPT ![n] = Created]
    BY <1>5 DEF CreateLate
  <2>2. /\ n \notin Made
        /\ Made' = Made \cup {n} /\ Marked' = Marked \cup {n}
        /\ Cardinality(Made)' = Cardinality(Made) + 1
    BY <2>1, FreshArtifact DEF IInv
  <2>3. Cardinality(Made \ Marked)' = Cardinality(Made \ Marked)
    <3>1. Made' \ Marked' = Made \ Marked
      BY <2>2
    <3>2. QED
      BY <3>1
  <2>4. QED
    BY <1>5, <2>2, <2>3 DEF CreateLate, Abstract!OutcomeNext, Abstract!MutateLate
<1>6. CASE Edit
  <2>1. Made' = Made /\ UNCHANGED <<kind, terminal, late, inFlight, pc>>
    BY <1>6, EditedArtifact DEF Edit, IInv
  <2>2. CASE Marked' = Marked
    BY <2>1, <2>2 DEF Abstract!outcomeVars
  <2>3. ASSUME NEW n \in Marked, Marked' = Marked \ {n} PROVE Abstract!Remove
    <3>1. n \in Made /\ n \notin Made \ Marked /\ Made' \ Marked' = (Made \ Marked) \cup {n}
      BY <2>1, <2>3, MarkedIsMade
    <3>2. Cardinality(Made \ Marked)' = Cardinality(Made \ Marked) + 1
      BY <3>1, FiniteMade, FS_AddElement
    <3>3. Cardinality(Made \ Marked) < Cardinality(Made)
      <4>1. Made \ Marked \subseteq Made /\ Made \ Marked # Made
        BY <3>1
      <4>2. QED
        BY <4>1, FiniteMade, FS_Subset
    <3>4. QED
      BY <2>1, <3>2, <3>3 DEF Abstract!Remove
  <2>4. QED
    BY <1>6, <2>2, <2>3, EditedArtifact DEF IInv, Abstract!OutcomeNext
<1>7. CASE UNCHANGED vars
  <2>1. Made' = Made /\ Marked' = Marked
    BY <1>7, SameArtifacts DEF vars
  <2>2. QED
    BY <1>7, <2>1 DEF vars, Abstract!outcomeVars
<1>8. QED
  BY <1>1, <1>2, <1>3, <1>4, <1>5, <1>6, <1>7 DEF Next, AttemptStep, Failure

LEMMA OutcomeStart == Init => Abstract!OutcomeInit
<1> SUFFICES ASSUME Init PROVE Abstract!OutcomeInit
  OBVIOUS
<1>1. Made = {} /\ Made \ Marked = {}
  BY DEF Init, Made, Absent
<1>2. Cardinality(Made) = 0 /\ Cardinality(Made \ Marked) = 0
  BY <1>1, FS_EmptySet
<1>3. QED
  BY <1>2 DEF Init, Abstract!OutcomeInit

\* GitHubOutcomeApplier.apply, with its ledger and every failure between its awaits, is the call
\* the triage loop counts on: one mutation, or one more for each late request or removed artifact.
THEOREM Implements == Spec => ImplementsOutcome
BY OutcomeStart, OutcomeStep, SpecIInv, PTL DEF Spec, ImplementsOutcome, Abstract!OutcomeSpec
=============================================================================
