--------------------------- MODULE DecisionProofs ---------------------------
(***************************************************************************)
(* PlanIsGrounded and RiskIsReviewed for any numbers of records, Issues,    *)
(* batches and registrations, and for any answers of the model.             *)
(*                                                                         *)
(* A cached snapshot belongs to the version it is filed under (Filed), so   *)
(* the packet is of the registration the record was leased under (Packed).  *)
(* What decideValidated let through satisfied every check against the       *)
(* packet that is still there (Decided), and no second answer is asked for  *)
(* only when the first gave no reason to (Undisputed).                      *)
(***************************************************************************)
EXTENDS Decision, WellFoundedInduction, TLAPS

Known ==
  /\ version \in 1..MaxVersion
  /\ seen \in 1..MaxVersion
  /\ board \in Boards

Filed ==
  /\ cache \in [1..MaxVersion -> Snapshots \cup {None}]
  /\ \A v \in 1..MaxVersion : cache[v] # None => cache[v].of = v

\* Once the Project is collected the snapshot, then the packet, is that of the leased version.
Packed ==
  /\ pc = "packet" => cache[seen].of = seen
  /\ pc \in {"primary", "review", "plan"} => packet.of = seen

Checked(result) == result.decision \in Decisions /\ Valid(result.decision, result.sources)

\* review is what the second model answered, None when it was not asked.
Decided ==
  /\ pc \in {"review", "plan"} => Checked(primary)
  /\ pc = "plan" /\ review # None => Checked(review)

Undisputed ==
  /\ pc \in {"snapshot", "collect", "packet", "primary", "review"} => review = None
  /\ pc = "plan" /\ review = None => ReviewReasons(primary.decision) = {}

\* plan is that of the last record until the next one is leased.
PlanStands == plan # None => pc \in {"lease", "stopped"}

IInv ==
  /\ Known /\ Filed /\ Packed /\ Decided /\ Undisputed /\ PlanStands
  /\ PlanIsGrounded /\ RiskIsReviewed

-----------------------------------------------------------------------------
\* What validateTriageDecision has checked of each unit of a valid decision.
LEMMA ValidUnit ==
  ASSUME NEW d \in Decisions, NEW sources, Valid(d, sources), NEW i \in DOMAIN d.units
  PROVE  LET u == d.units[i] IN
         /\ u \in Units
         /\ u.evidence \subseteq packet.issues
         /\ Len(d.units) > 1 => "MIXED_FEEDBACK" \in u.flags
         /\ u.mutation # "NO_GITHUB_CHANGE" => u.cites \subseteq sources
         /\ u.mutation = Expected(u.disposition)
         /\ u.disposition = "MERGED" => Eligible(u.target)
         /\ u.disposition = "MERGED" /\ packet.board[u.target] = "In Progress"
              => "ACTIVE_ISSUE_MATCH" \in u.flags
<1> DEFINE u == d.units[i]
<1>1. u \in Units
  BY DEF Decisions
<1>2. ASSUME NEW c \in DOMAIN Checks PROVE ~Fails(Checks[c], u, d, sources)
  <2>1. <<i, c>> \in (DOMAIN d.units) \X (DOMAIN Checks)
    OBVIOUS
  <2>2. <<i, c>>[1] = i /\ <<i, c>>[2] = c
    OBVIOUS
  <2>3. <<i, c>> \notin UnitFaults(d, sources)
    BY DEF Valid
  <2>4. QED
    BY <2>1, <2>2, <2>3 DEF UnitFaults
<1>3. /\ ~Fails("EVIDENCE", u, d, sources) /\ ~Fails("MIXED", u, d, sources)
      /\ ~Fails("CITATION", u, d, sources) /\ ~Fails("MUTATION", u, d, sources)
      /\ ~Fails("TARGET", u, d, sources) /\ ~Fails("ACTIVE", u, d, sources)
  <2>1. /\ \A c \in 1..10 : c \in DOMAIN Checks
        /\ Checks[1] = "EVIDENCE" /\ Checks[2] = "MIXED" /\ Checks[5] = "CITATION"
        /\ Checks[6] = "MUTATION" /\ Checks[7] = "TARGET" /\ Checks[8] = "ACTIVE"
    BY DEF Checks
  <2>2. QED
    BY <1>2, <2>1
<1>4. u.evidence \subseteq packet.issues
  BY <1>3 DEF Fails
<1>5. Len(d.units) > 1 => "MIXED_FEEDBACK" \in u.flags
  BY <1>3 DEF Fails
<1>6. u.mutation # "NO_GITHUB_CHANGE" => u.cites \subseteq sources
  BY <1>3 DEF Fails
<1>7. u.mutation = Expected(u.disposition)
  BY <1>3 DEF Fails
<1>8. u.disposition = "MERGED" => Eligible(u.target)
  BY <1>3 DEF Fails
<1>9. u.disposition = "MERGED" /\ packet.board[u.target] = "In Progress" => "ACTIVE_ISSUE_MATCH" \in u.flags
  BY <1>3, <1>8 DEF Fails
<1>10. QED
  BY <1>1, <1>4, <1>5, <1>6, <1>7, <1>8, <1>9

\* Every kind of risk is a reason to ask again.
LEMMA RiskIsAReason ==
  ASSUME NEW d \in Decisions, NEW sources, Valid(d, sources),
         Len(d.units) > 1 \/ \E u \in ToSet(d.units) : Risky(u)
  PROVE  ReviewReasons(d) # {}
<1>1. \E i \in DOMAIN d.units : ReasonsOf(d.units[i]) # {}
  <2>1. CASE Len(d.units) > 1
    <3>1. 1 \in DOMAIN d.units
      BY <2>1 DEF Decisions
    <3>2. "MIXED_FEEDBACK" \in d.units[1].flags
      BY <2>1, <3>1, ValidUnit
    <3>3. "MIXED_FEEDBACK" \in ReasonsOf(d.units[1])
      BY <3>2 DEF ReasonsOf
    <3>4. QED
      BY <3>1, <3>3
  <2>2. ASSUME NEW i \in DOMAIN d.units, Risky(d.units[i]) PROVE ReasonsOf(d.units[i]) # {}
    <3>1. d.units[i].disposition = "MERGED" /\ packet.board[d.units[i].target] = "In Progress"
            => "ACTIVE_ISSUE_MATCH" \in d.units[i].flags
      BY ValidUnit
    <3>2. QED
      BY <2>2, <3>1 DEF Risky, ReasonsOf
  <2>3. QED
    BY <2>1, <2>2 DEF ToSet
<1>2. QED
  BY <1>1 DEF ReviewReasons, ToSet

\* Two valid decisions with one signature give every unit the same authority.
LEMMA SignatureIsAuthority ==
  ASSUME NEW d \in Decisions, NEW e \in Decisions, NEW s, NEW t, Valid(d, s), Valid(e, t),
         AuthoritySignature(d) = AuthoritySignature(e)
  PROVE  /\ Len(d.units) = Len(e.units)
         /\ \A i \in DOMAIN d.units : SameAuthority(d.units[i], e.units[i])
<1>1. DOMAIN d.units = DOMAIN e.units
  <2>1. DOMAIN AuthoritySignature(d) = DOMAIN d.units /\ DOMAIN AuthoritySignature(e) = DOMAIN e.units
    BY DEF AuthoritySignature
  <2>2. QED
    BY <2>1
<1>2. Len(d.units) = Len(e.units)
  <2>1. d.units \in Seq(Units) /\ e.units \in Seq(Units)
    BY DEF Decisions
  <2>2. QED
    BY <1>1, <2>1
<1>3. ASSUME NEW i \in DOMAIN d.units PROVE SameAuthority(d.units[i], e.units[i])
  <2> DEFINE u == d.units[i]  v == e.units[i]
  <2>1. AuthorityOf(u) = AuthorityOf(v)
    <3>1. AuthoritySignature(d)[i] = AuthorityOf(u) /\ AuthoritySignature(e)[i] = AuthorityOf(v)
      BY <1>1 DEF AuthoritySignature
    <3>2. QED
      BY <3>1
  <2>2. u.disposition = v.disposition /\ u.mutation = v.mutation
    BY <2>1 DEF AuthorityOf
  <2>3. u.mutation = "MERGE_COMMENT" => u.target = v.target
    BY <2>1, <2>2 DEF AuthorityOf
  <2>4. u.mutation = "CREATE_ISSUE" => u.fields = v.fields
    BY <2>1, <2>2 DEF AuthorityOf
  <2>5. u.mutation = Expected(u.disposition)
    BY ValidUnit
  <2>6. u.disposition = "MERGED" => u.mutation = "MERGE_COMMENT"
    BY <2>5 DEF Expected
  <2>7. u.disposition = "CREATED" => u.mutation = "CREATE_ISSUE"
    BY <2>5 DEF Expected
  <2>8. QED
    BY <2>2, <2>3, <2>4, <2>6, <2>7 DEF SameAuthority
<1>4. QED
  BY <1>2, <1>3

-----------------------------------------------------------------------------
\* The checks read nothing but the answer and the packet.
LEMMA CheckedStands ==
  ASSUME packet' = packet
  PROVE  /\ primary' = primary /\ Checked(primary) => Checked(primary)'
         /\ review' = review /\ Checked(review) => Checked(review)'
<1>1. ASSUME NEW d, NEW sources PROVE UnitFaults(d, sources)' = UnitFaults(d, sources)
  BY DEF UnitFaults, Fails, Eligible
<1>2. ASSUME primary' = primary, Checked(primary) PROVE Checked(primary)'
  BY <1>1, <1>2 DEF Checked, Valid
<1>3. ASSUME review' = review, Checked(review) PROVE Checked(review)'
  BY <1>1, <1>3 DEF Checked, Valid
<1>4. QED
  BY <1>2, <1>3

\* A step outside the batch changes nothing the batch holds.
LEMMA OutsideIInv ==
  ASSUME IInv, Known', UNCHANGED <<cache, seen, pc, packet, primary, review, plan>>
  PROVE  IInv'
<1>1. Filed' /\ Packed'
  BY DEF IInv, Filed, Packed
<1>2. Decided'
  BY CheckedStands DEF IInv, Decided
<1>3. Undisputed' /\ PlanStands'
  BY DEF IInv, Undisputed, PlanStands, ReviewReasons, ReasonsOf
<1>4. PlanIsGrounded' /\ RiskIsReviewed'
  BY DEF IInv, PlanIsGrounded, RiskIsReviewed, Risky, SameAuthority
<1>5. QED
  BY <1>1, <1>2, <1>3, <1>4 DEF IInv

\* A step before the plan is stored leaves none.
LEMMA NoPlan ==
  ASSUME plan' = None
  PROVE  PlanStands' /\ PlanIsGrounded' /\ RiskIsReviewed'
BY DEF PlanStands, PlanIsGrounded, RiskIsReviewed

\* An error drops the record between the batch's statements, before a plan.
LEMMA ThrowIInv ==
  ASSUME IInv, NEW why, Throw(why), pc \notin {"lease", "stopped"}, pc' \in {"lease", "stopped"}
  PROVE  IInv'
<1>1. Known' /\ Filed'
  BY DEF IInv, Known, Filed, Throw, world, source
<1>2. Packed' /\ Decided' /\ Undisputed'
  BY DEF Packed, Decided, Undisputed
<1>3. plan' = None
  BY DEF IInv, PlanStands, Throw
<1>4. QED
  BY <1>1, <1>2, <1>3, NoPlan DEF IInv

LEMMA LeaseIInv ==
  ASSUME IInv, NEW r \in Records, Lease(r)
  PROVE  IInv'
<1>1. Known' /\ Filed'
  BY DEF IInv, Known, Filed, Lease, world, source
<1>2. pc' \in {"lease", "snapshot"} /\ review' = None /\ plan' = None
  BY DEF Lease
<1>3. Packed' /\ Decided' /\ Undisputed'
  BY <1>2 DEF Packed, Decided, Undisputed
<1>4. QED
  BY <1>1, <1>2, <1>3, NoPlan DEF IInv

LEMMA GetSnapshotIInv ==
  ASSUME IInv, GetSnapshot
  PROVE  IInv'
<1>1. Known' /\ Filed'
  BY DEF IInv, Known, Filed, GetSnapshot, world, source, run
<1>2. Packed'
  BY DEF IInv, Known, Filed, Packed, GetSnapshot, run
<1>3. Decided' /\ Undisputed'
  BY DEF IInv, Decided, Undisputed, GetSnapshot
<1>4. plan' = None
  BY DEF IInv, PlanStands, GetSnapshot
<1>5. QED
  BY <1>1, <1>2, <1>3, <1>4, NoPlan DEF IInv

LEMMA CollectProjectIInv ==
  ASSUME IInv, CollectProject
  PROVE  IInv'
<1> DEFINE snapshot == [board |-> board, of |-> seen]
<1>1. snapshot \in Snapshots /\ snapshot.of = seen
  BY DEF IInv, Known, Snapshots
<1>2. cache' = [cache EXCEPT ![seen] = snapshot] /\ seen' = seen
  BY DEF CollectProject
<1>3. Known' /\ Filed'
  <2>1. Known'
    BY DEF IInv, Known, CollectProject, world, source
  <2>2. QED
    BY <1>1, <1>2, <2>1 DEF IInv, Known, Filed
<1>4. Packed'
  BY <1>1, <1>2 DEF IInv, Known, Filed, Packed, CollectProject
<1>5. Decided' /\ Undisputed'
  BY DEF IInv, Decided, Undisputed, CollectProject
<1>6. plan' = None
  BY DEF IInv, PlanStands, CollectProject
<1>7. QED
  BY <1>3, <1>4, <1>5, <1>6, NoPlan DEF IInv

LEMMA BuildPacketIInv ==
  ASSUME IInv, BuildPacket
  PROVE  IInv'
<1>1. Known' /\ Filed'
  BY DEF IInv, Known, Filed, BuildPacket, world, source, run
<1>2. Packed'
  <2>1. packet'.of = cache[seen].of
    BY DEF BuildPacket
  <2>2. QED
    BY <2>1 DEF IInv, Packed, BuildPacket, run
<1>3. Decided' /\ Undisputed'
  BY DEF IInv, Decided, Undisputed, BuildPacket
<1>4. plan' = None
  BY DEF IInv, PlanStands, BuildPacket
<1>5. QED
  BY <1>1, <1>2, <1>3, <1>4, NoPlan DEF IInv

\* An adapter returns pages it searched or pages the answer cites.
LEMMA SourcesAreUrls ==
  ASSUME NEW d \in Decisions, NEW sources \in SourcesOf(d)
  PROVE  sources \subseteq Urls
<1>1. CitedBy(d) \subseteq Urls
  <2>1. ASSUME NEW u \in ToSet(d.units) PROVE u.cites \subseteq Urls
    <3>1. d.units \in Seq(Units)
      BY DEF Decisions
    <3>2. PICK i \in DOMAIN d.units : u = d.units[i]
      BY DEF ToSet
    <3>3. u \in Units
      BY <3>1, <3>2
    <3>4. QED
      BY <3>3 DEF Units
  <2>2. QED
    BY <2>1 DEF CitedBy
<1>2. QED
  BY <1>1 DEF SourcesOf

\* The answer and its sources are a result, so review is no longer None.
LEMMA AcceptIInv ==
  ASSUME IInv, NEW d \in Responses, NEW sources, sources \in SourcesOf(d), Valid(d, sources), Accept(d, sources)
  PROVE  IInv'
<1> DEFINE result == [decision |-> d, sources |-> sources]
<1>1. d \in Decisions
  BY DecisionAssumption
<1>2. sources \subseteq Urls
  BY <1>1, SourcesAreUrls
<1>3. result \in Results /\ result # None
  BY <1>1, <1>2, DecisionAssumption DEF Results
<1>4. Known' /\ Filed'
  BY DEF IInv, Known, Filed, Accept, world, source, run
<1>5. Packed'
  BY DEF IInv, Packed, Accept, run
<1>6. plan' = None
  BY DEF IInv, PlanStands, Accept
<1>7. Decided' /\ Undisputed'
  <2>1. Checked(result)
    BY <1>1 DEF Checked
  <2>2. UnitFaults(d, sources)' = UnitFaults(d, sources)
    BY DEF Accept, UnitFaults, Fails, Eligible
  <2>3. CASE pc = "primary"
    <3>1. primary' = result /\ review' = None
      BY <2>3 DEF IInv, Undisputed, Accept
    <3>2. Checked(primary)'
      BY <2>1, <2>2, <3>1 DEF Checked, Valid
    <3>3. pc' = "plan" => ReviewReasons(d) = {}
      BY <2>3 DEF Accept
    <3>4. (ReviewReasons(primary.decision))' = ReviewReasons(d)
      BY <3>1 DEF ReviewReasons, ReasonsOf
    <3>5. QED
      BY <3>1, <3>2, <3>3, <3>4 DEF Decided, Undisputed
  <2>4. CASE pc = "review"
    <3>1. review' = result /\ primary' = primary /\ pc' = "plan" /\ packet' = packet
      BY <2>4 DEF Accept
    <3>2. Checked(review)'
      BY <2>1, <2>2, <3>1 DEF Checked, Valid
    <3>3. Checked(primary)'
      BY <2>4, <3>1, CheckedStands DEF IInv, Decided
    <3>4. QED
      BY <1>3, <3>1, <3>2, <3>3 DEF Decided, Undisputed
  <2>5. QED
    BY <2>3, <2>4 DEF Accept
<1>8. QED
  BY <1>4, <1>5, <1>6, <1>7, NoPlan DEF IInv

LEMMA RespondIInv ==
  ASSUME IInv, Respond
  PROVE  IInv'
<1>1. PICK d \in Responses : \E sources \in SourcesOf(d) : Consider(d, sources)
  BY DEF Respond
<1>2. PICK sources \in SourcesOf(d) : Consider(d, sources)
  BY <1>1
<1>3. CASE Valid(d, sources) /\ Accept(d, sources)
  BY <1>3, AcceptIInv
<1>4. CASE AskForCorrection
  <2>1. Known'
    BY <1>4 DEF IInv, Known, AskForCorrection, world, source, run
  <2>2. QED
    BY <1>4, <2>1, OutsideIInv DEF AskForCorrection, run
<1>5. CASE FailDecision(Fault(d, sources))
  BY <1>5, ThrowIInv DEF FailDecision, EndRecord, StopBatch, Respond
<1>6. QED
  BY <1>2, <1>3, <1>4, <1>5 DEF Consider

LEMMA PersistPlanIInv ==
  ASSUME IInv, PersistPlan
  PROVE  IInv'
<1> DEFINE d == primary.decision  e == review.decision
<1>1. Known' /\ Filed' /\ Packed' /\ Decided' /\ Undisputed' /\ PlanStands'
  <2>1. Known' /\ Filed'
    BY DEF IInv, Known, Filed, PersistPlan, world, source, run
  <2>2. pc' = "lease"
    BY DEF PersistPlan
  <2>3. QED
    BY <2>1, <2>2 DEF Packed, Decided, Undisputed, PlanStands
<1>2. /\ plan'.decision = d /\ plan'.review = review /\ plan'.ready = ~Disagree
      /\ primary.sources \subseteq plan'.sources
      /\ packet' = packet /\ seen' = seen
  BY DEF PersistPlan, run
<1>3. d \in Decisions /\ Valid(d, primary.sources)
  BY DEF IInv, Decided, PersistPlan, Checked
<1>4. PlanIsGrounded'
  <2>1. packet.of = seen
    BY DEF IInv, Packed, PersistPlan
  <2>2. ASSUME NEW u \in ToSet(d.units)
        PROVE  /\ u.evidence \subseteq packet.issues
               /\ u.mutation # "NO_GITHUB_CHANGE" => u.cites \subseteq primary.sources
               /\ u.disposition = "MERGED" => packet.board[u.target] # "Done"
    <3>1. PICK i \in DOMAIN d.units : u = d.units[i]
      BY DEF ToSet
    <3>2. QED
      BY <1>3, <3>1, ValidUnit DEF Eligible
  <2>3. QED
    BY <1>2, <2>1, <2>2 DEF PlanIsGrounded
<1>5. RiskIsReviewed'
  <2>1. SUFFICES ASSUME ~Disagree, Len(d.units) > 1 \/ \E u \in ToSet(d.units) : Risky(u)
                 PROVE  /\ review # None
                        /\ Len(e.units) = Len(d.units)
                        /\ \A i \in DOMAIN d.units : SameAuthority(d.units[i], e.units[i])
    BY <1>2 DEF RiskIsReviewed, Risky, SameAuthority
  <2>2. review # None
    BY <1>3, <2>1, RiskIsAReason DEF IInv, Undisputed, PersistPlan
  <2>3. e \in Decisions /\ Valid(e, review.sources)
    BY <2>2 DEF IInv, Decided, PersistPlan, Checked
  <2>4. AuthoritySignature(d) = AuthoritySignature(e)
    BY <2>1, <2>2 DEF Disagree
  <2>5. QED
    BY <1>3, <2>2, <2>3, <2>4, SignatureIsAuthority
<1>6. QED
  BY <1>1, <1>4, <1>5 DEF IInv

LEMMA NextBatchIInv ==
  ASSUME IInv, NextBatch
  PROVE  IInv'
<1>1. Known' /\ Filed'
  BY DEF IInv, Known, Filed, NextBatch, world, source
<1>2. Packed' /\ Decided' /\ Undisputed' /\ PlanStands'
  BY DEF Packed, Decided, Undisputed, PlanStands, NextBatch
<1>3. PlanIsGrounded' /\ RiskIsReviewed'
  BY DEF IInv, PlanIsGrounded, RiskIsReviewed, Risky, SameAuthority, NextBatch
<1>4. QED
  BY <1>1, <1>2, <1>3 DEF IInv

LEMMA NextIInv == IInv /\ [Next]_vars => IInv'
<1> SUFFICES ASSUME IInv, [Next]_vars PROVE IInv'
  OBVIOUS
<1>1. ASSUME NEW r \in Records, Lease(r) PROVE IInv'
  BY <1>1, LeaseIInv
<1>2. CASE GetSnapshot
  BY <1>2, GetSnapshotIInv
<1>3. CASE SourceChanged
  BY <1>3, ThrowIInv DEF SourceChanged, FailResearch, StopBatch
<1>4. CASE CollectProject
  BY <1>4, CollectProjectIInv
<1>5. CASE ResearchFails
  BY <1>5, ThrowIInv DEF ResearchFails, FailResearch, StopBatch
<1>6. CASE BuildPacket
  BY <1>6, BuildPacketIInv
<1>7. CASE Respond
  BY <1>7, RespondIInv
<1>8. CASE ModelFails
  BY <1>8, ThrowIInv DEF ModelFails, FailDecision, EndRecord, StopBatch
<1>9. CASE PersistPlan
  BY <1>9, PersistPlanIInv
<1>10. CASE NextBatch
  BY <1>10, NextBatchIInv
<1>11. CASE UpdateSourceApp
  <2>1. Known'
    BY <1>11, DecisionAssumption DEF IInv, Known, UpdateSourceApp, run
  <2>2. QED
    BY <1>11, <2>1, OutsideIInv DEF UpdateSourceApp, run
<1>12. ASSUME NEW i \in Issues, MoveIssue(i) PROVE IInv'
  <2>1. Known'
    BY <1>12 DEF IInv, Known, MoveIssue, source, run, Boards
  <2>2. QED
    BY <1>12, <2>1, OutsideIInv DEF MoveIssue, run
<1>13. CASE UNCHANGED vars
  <2>1. Known'
    BY <1>13 DEF IInv, Known, vars, world, source, run
  <2>2. QED
    BY <1>13, <2>1, OutsideIInv DEF vars, world, run
<1>14. QED
  BY <1>1, <1>2, <1>3, <1>4, <1>5, <1>6, <1>7, <1>8, <1>9, <1>10, <1>11, <1>12, <1>13 DEF Next

LEMMA InitIInv == Init => IInv
<1> SUFFICES ASSUME Init PROVE IInv
  OBVIOUS
<1>1. Known /\ Filed
  BY DecisionAssumption DEF Init, Known, Filed
<1>2. Packed /\ Decided /\ Undisputed /\ PlanStands
  BY DEF Init, Packed, Decided, Undisputed, PlanStands
<1>3. PlanIsGrounded /\ RiskIsReviewed
  BY DEF Init, PlanIsGrounded, RiskIsReviewed
<1>4. QED
  BY <1>1, <1>2, <1>3 DEF IInv

LEMMA SpecIInv == Spec => []IInv
BY InitIInv, NextIInv, PTL DEF Spec

\* A stored plan rests on the packet of its own run: evidence, citations, an Issue that was not
\* Done, and the registration the record was leased under (decision-validator.ts, batch-cache.ts).
THEOREM Grounded == Spec => []PlanIsGrounded
<1>1. IInv => PlanIsGrounded
  BY DEF IInv
<1>2. QED
  BY <1>1, SpecIInv, PTL

\* No risky plan is READY without a second answer of the same authority (orchestrator.ts,
\* risk-review.ts), whatever the model answers.
THEOREM RiskReviewed == Spec => []RiskIsReviewed
<1>1. IInv => RiskIsReviewed
  BY DEF IInv
<1>2. QED
  BY <1>1, SpecIInv, PTL
-----------------------------------------------------------------------------
(***************************************************************************)
(* Types.  That the fault of an invalid answer is one of the validator's    *)
(* (FaultIsAnError) needs the first failing check of the first failing unit *)
(* to exist: a set of numbers that is not empty has a least one.           *)
(***************************************************************************)
LEMMA LeastOfRelation ==
  ASSUME NEW S \in SUBSET Nat, NEW R,
         \E x \in S : \A y \in S : ~(<<y, x>> \in R),
         \A x, y \in S : y < x => <<y, x>> \in R
  PROVE  Min(S) \in S
<1>1. PICK x \in S : \A y \in S : ~(<<y, x>> \in R)
  OBVIOUS
<1>2. \A y \in S : x <= y
  <2>1. TAKE y \in S
  <2>2. ~(y < x)
    BY <1>1
  <2>3. x \in Nat /\ y \in Nat
    OBVIOUS
  <2>4. QED
    BY <2>2, <2>3
<1>3. QED
  BY <1>2 DEF Min

LEMMA LeastExists ==
  ASSUME NEW S \in SUBSET Nat, S # {}
  PROVE  Min(S) \in S
<1>1. \E x \in S : \A y \in S : ~(<<y, x>> \in OpToRel(<, Nat))
  BY NatLessThanWellFounded, WFMin, Zenon
<1>2. \A x, y \in S : y < x => <<y, x>> \in OpToRel(<, Nat)
  BY DEF OpToRel
<1>3. QED
  BY <1>1, <1>2, LeastOfRelation, Zenon

LEMMA FirstFaultIsACheck ==
  ASSUME NEW d \in Decisions, NEW sources, UnitFaults(d, sources) # {}
  PROVE  \E c \in DOMAIN Checks : FirstFault(UnitFaults(d, sources)) = Checks[c]
<1> DEFINE faults == UnitFaults(d, sources)
           units == {f[1] : f \in faults}
           unit == Min(units)
           checks == {f[2] : f \in {g \in faults : g[1] = unit}}
<1>1. faults \subseteq (DOMAIN d.units) \X (DOMAIN Checks)
  BY DEF UnitFaults
<1>2. DOMAIN d.units \subseteq Nat /\ DOMAIN Checks \subseteq Nat
  BY DEF Decisions, Checks
<1>3. units \in SUBSET Nat /\ units # {}
  BY <1>1, <1>2
<1>4. unit \in units
  <2> HIDE DEF units
  <2>1. QED
    BY <1>3, LeastExists
<1>5. checks \in SUBSET (DOMAIN Checks) /\ checks # {}
  BY <1>1, <1>4
<1>6. Min(checks) \in checks
  <2> HIDE DEF checks
  <2>1. checks \in SUBSET Nat
    BY <1>2, <1>5
  <2>2. QED
    BY <1>5, <2>1, LeastExists
<1>7. FirstFault(faults) = Checks[Min(checks)]
  BY DEF FirstFault
<1> HIDE DEF checks, faults
<1>8. QED
  BY <1>5, <1>6, <1>7 DEF faults

LEMMA FaultIsAnError ==
  ASSUME NEW d \in Decisions, NEW sources, ~Valid(d, sources)
  PROVE  Fault(d, sources) \in Errors
<1>1. d.schema \in BOOLEAN /\ d.unsafe \in BOOLEAN /\ d.sequential \in BOOLEAN
  BY DEF Decisions
<1>2. CASE ~d.schema \/ d.unsafe \/ ~d.sequential
  BY <1>1, <1>2 DEF Fault, Errors
<1>3. CASE d.schema /\ ~d.unsafe /\ d.sequential
  <2>1. UnitFaults(d, sources) # {}
    BY <1>3 DEF Valid
  <2>2. PICK c \in DOMAIN Checks : FirstFault(UnitFaults(d, sources)) = Checks[c]
    BY <2>1, FirstFaultIsACheck
  <2>3. Checks[c] \in Errors
    BY DEF Checks, Errors
  <2>4. Fault(d, sources) = FirstFault(UnitFaults(d, sources))
    BY <1>3 DEF Fault
  <2>5. QED
    BY <2>2, <2>3, <2>4
<1>4. QED
  BY <1>1, <1>2, <1>3

\* While a record is being decided the batch names it, and the snapshot it is about
\* to use is there.
Placed ==
  /\ pc \in {"snapshot", "collect", "packet", "primary", "review", "plan"} => at \in Records
  /\ pc = "packet" => cache[seen] \in Snapshots

TypeInv == TypeOK /\ Placed

LEMMA ThrowTyped ==
  ASSUME TypeInv, NEW why \in Errors, Throw(why), Set(at, "NEEDS_ATTENTION") \/ Set(at, "QUEUED"),
         pc' \in {"lease", "stopped"}
  PROVE  TypeInv'
<1>1. TypeOK'
  BY DEF TypeInv, TypeOK, Throw, Set, world, source
<1>2. Placed'
  BY DEF Placed
<1>3. QED
  BY <1>1, <1>2 DEF TypeInv

LEMMA FailTyped ==
  ASSUME TypeInv, NEW why \in Errors, EndRecord(why) \/ StopBatch(why) \/ FailDecision(why)
  PROVE  TypeInv'
BY ThrowTyped DEF EndRecord, StopBatch, FailDecision

LEMMA LeaseTyped ==
  ASSUME TypeInv, NEW r \in Records, Lease(r)
  PROVE  TypeInv'
<1>1. TypeOK'
  BY DEF TypeInv, TypeOK, Lease, Set, world, source, Errors
<1>2. Placed'
  BY DEF TypeInv, TypeOK, Placed, Lease
<1>3. QED
  BY <1>1, <1>2 DEF TypeInv

LEMMA CollectTyped ==
  ASSUME TypeInv, CollectProject
  PROVE  TypeInv'
<1> DEFINE snapshot == [board |-> board, of |-> seen]
<1>1. snapshot \in Snapshots
  BY DEF TypeInv, TypeOK, Snapshots
<1>2. cache' = [cache EXCEPT ![seen] = snapshot]
  BY DEF CollectProject
<1>3. cache' \in [1..MaxVersion -> Snapshots \cup {None}]
  BY <1>1, <1>2 DEF TypeInv, TypeOK
<1>4. TypeOK'
  BY <1>3 DEF TypeInv, TypeOK, CollectProject, world, source
<1>5. cache'[seen'] = snapshot
  BY <1>2 DEF TypeInv, TypeOK, CollectProject
<1>6. QED
  BY <1>1, <1>4, <1>5 DEF TypeInv, Placed, CollectProject

LEMMA PacketTyped ==
  ASSUME TypeInv, BuildPacket
  PROVE  TypeInv'
<1>1. cache[seen] \in Snapshots /\ at \in Records
  BY DEF TypeInv, TypeOK, Placed, BuildPacket
<1>2. packet' \in Packets
  <2>1. PICK ranked \in SUBSET Issues :
          packet' = [board |-> cache[seen].board, of |-> cache[seen].of, issues |-> ranked,
                     images |-> {a \in shots[at] : ModelSafe(a)}]
    BY DEF BuildPacket
  <2>2. {a \in shots[at] : ModelSafe(a)} \in SUBSET [decode: {"VALIDATED"}, scan: Scans]
    BY <1>1 DEF TypeInv, TypeOK
  <2>3. QED
    BY <1>1, <2>1, <2>2 DEF Packets, Snapshots
<1>3. TypeOK'
  BY <1>2 DEF TypeInv, TypeOK, BuildPacket, Set, world, source, run
<1>4. QED
  BY <1>1, <1>3 DEF TypeInv, Placed, BuildPacket, run

LEMMA RespondTyped ==
  ASSUME TypeInv, Respond
  PROVE  TypeInv'
<1>1. PICK d \in Responses : \E sources \in SourcesOf(d) : Consider(d, sources)
  BY DEF Respond
<1>2. PICK sources \in SourcesOf(d) : Consider(d, sources)
  BY <1>1
<1>3. d \in Decisions
  BY DecisionAssumption
<1>4. CASE Accept(d, sources)
  <2>1. [decision |-> d, sources |-> sources] \in Results
    BY <1>3, SourcesAreUrls DEF Results
  <2>2. TypeOK'
    BY <1>4, <2>1 DEF TypeInv, TypeOK, Accept, world, source, run
  <2>3. QED
    BY <1>4, <2>2 DEF TypeInv, Placed, Accept, run
<1>5. CASE AskForCorrection
  BY <1>5 DEF TypeInv, TypeOK, Placed, AskForCorrection, world, source, run
<1>6. CASE ~Valid(d, sources) /\ FailDecision(Fault(d, sources))
  BY <1>3, <1>6, FaultIsAnError, FailTyped
<1>7. QED
  BY <1>2, <1>4, <1>5, <1>6 DEF Consider

LEMMA NextTyped == TypeInv /\ [Next]_vars => TypeInv'
<1> SUFFICES ASSUME TypeInv, [Next]_vars PROVE TypeInv'
  OBVIOUS
<1>1. ASSUME NEW r \in Records, Lease(r) PROVE TypeInv'
  BY <1>1, LeaseTyped
<1>2. CASE GetSnapshot
  <2>1. TypeOK'
    BY <1>2 DEF TypeInv, TypeOK, GetSnapshot, world, source, run
  <2>2. cache' = cache /\ seen' = seen /\ at' = at /\ cache[seen] \in Snapshots \cup {None}
    BY <1>2 DEF TypeInv, TypeOK, GetSnapshot, run
  <2>3. QED
    BY <1>2, <2>1, <2>2 DEF TypeInv, Placed, GetSnapshot
<1>3. CASE SourceChanged \/ ResearchFails
  <2>1. "RESEARCH" \in Errors
    BY DEF Errors
  <2>2. QED
    BY <1>3, <2>1, FailTyped DEF SourceChanged, ResearchFails, FailResearch
<1>4. CASE CollectProject
  BY <1>4, CollectTyped
<1>5. CASE BuildPacket
  BY <1>5, PacketTyped
<1>6. CASE Respond
  BY <1>6, RespondTyped
<1>7. CASE ModelFails
  <2>1. "PROVIDER" \in Errors /\ "JSON" \in Errors
    BY DEF Errors
  <2>2. QED
    BY <1>7, <2>1, FailTyped DEF ModelFails
<1>8. CASE PersistPlan
  <2>1. TypeOK'
    BY <1>8 DEF TypeInv, TypeOK, PersistPlan, Set, Errors, world, source, run
  <2>2. QED
    BY <1>8, <2>1 DEF TypeInv, Placed, PersistPlan
<1>9. CASE NextBatch
  <2>1. TypeOK'
    BY <1>9, DecisionAssumption DEF TypeInv, TypeOK, NextBatch, world, source
  <2>2. QED
    BY <1>9, <2>1 DEF TypeInv, Placed, NextBatch
<1>10. CASE UpdateSourceApp
  <2>1. TypeOK'
    BY <1>10, DecisionAssumption DEF TypeInv, TypeOK, UpdateSourceApp, run
  <2>2. QED
    BY <1>10, <2>1 DEF TypeInv, Placed, UpdateSourceApp, run
<1>11. ASSUME NEW i \in Issues, MoveIssue(i) PROVE TypeInv'
  <2>1. TypeOK'
    BY <1>11, DecisionAssumption DEF TypeInv, TypeOK, MoveIssue, Boards, source, run
  <2>2. QED
    BY <1>11, <2>1 DEF TypeInv, Placed, MoveIssue, run
<1>12. CASE UNCHANGED vars
  BY <1>12 DEF TypeInv, TypeOK, Placed, vars, world, source, run
<1>13. QED
  BY <1>1, <1>2, <1>3, <1>4, <1>5, <1>6, <1>7, <1>8, <1>9, <1>10, <1>11, <1>12 DEF Next

LEMMA InitTyped == Init => TypeInv
<1> SUFFICES ASSUME Init PROVE TypeInv
  OBVIOUS
<1>1. shots \in [Records -> SUBSET [decode: {"VALIDATED"}, scan: Scans]]
  BY DEF Init, StoredAs
<1>2. /\ version \in 1..MaxVersion /\ seen \in 1..MaxVersion /\ batch \in 1..MaxBatches /\ moves \in 0..MaxMoves
      /\ at \in Records \cup {None} /\ error \in Errors \cup {None}
  BY DecisionAssumption DEF Init
<1>3. QED
  BY <1>1, <1>2 DEF Init, TypeInv, TypeOK, Placed

\* The batch, its cache, packets and answers keep their types; every error it ends with is
\* one that processRecord, the orchestrator or the validator raises (process-record.ts).
THEOREM TypeCorrect == Spec => []TypeOK
<1>1. TypeInv => TypeOK
  BY DEF TypeInv
<1>2. QED
  BY InitTyped, NextTyped, <1>1, PTL DEF Spec
=============================================================================
