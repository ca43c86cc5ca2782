------------------------------ MODULE Decision ------------------------------
(***************************************************************************)
(* How one triage batch decides its records: processRecord reads the source *)
(* app, RuntimeResearchProvider takes (or reuses) a snapshot of its Project  *)
(* and builds the evidence packet, DecisionOrchestrator asks the model, has  *)
(* an invalid answer corrected once, has a risky one reviewed once more, and *)
(* the plan is stored; an error ends the record or the batch.  Meanwhile an  *)
(* Owner edits the source app and people move Issues on GitHub.              *)
(*                                                                         *)
(* One source app; a batch is one process, so its records are decided in     *)
(* turn and its cache dies with it.  The answers of the model are any member *)
(* of Responses; leases, crashes and the application of plans are            *)
(* TriageQueue's.                                                           *)
(***************************************************************************)
EXTENDS Naturals, Sequences, FiniteSetsExt, SequencesExt

CONSTANTS
  Providers,   \* among "OLLAMA_CLOUD" and "OPENAI_CODEX"
  NumRecords,  \* queued records, in the order of their sequence
  Issues,      \* Issues on the Project
  Urls,        \* web sources
  Scans,       \* scan_status of the screenshots a record may have
  Responses,   \* what the model may answer
  MaxRanked,   \* limits.maxRankedIssues
  MaxVersion,  \* bound: versions of the source app
  MaxMoves,    \* bound: Status changes on the Project
  MaxBatches,  \* bound: batches
  None

Records == 1..NumRecords
Statuses == {"Backlog", "In Progress", "Done"}
Boards == [Issues -> Statuses]

Flags == {"NEW_ISSUE", "LOW_CONFIDENCE", "SECURITY", "PRIVACY", "MULTIPLE_MATCHES",
          "ACTIVE_ISSUE_MATCH", "MIXED_FEEDBACK"}

\* triageDecisionSchema, as far as the validators look: `low` is confidence < 0.7,
\* `fields` the labels and Project fields of a new Issue, `cites` its source URLs.
Units == [kind: {"SECURITY", "OTHER"}, disposition: {"MERGED", "CREATED", "CONSIDERED"},
          mutation: {"MERGE_COMMENT", "CREATE_ISSUE", "NO_GITHUB_CHANGE"},
          target: Issues \cup {None}, fields: {"these", "those", "unregistered", None},
          low: BOOLEAN, flags: SUBSET Flags, evidence: SUBSET Issues, cites: SUBSET Urls]

Decisions == [schema: BOOLEAN, unsafe: BOOLEAN, sequential: BOOLEAN, units: Seq(Units)]

\* An answer with the web sources its adapter found for it.
Results == [decision: Decisions, sources: SUBSET Urls]

ASSUME DecisionAssumption ==
  /\ Providers \subseteq {"OLLAMA_CLOUD", "OPENAI_CODEX"}
  /\ \A d \in Responses : d \in Decisions /\ d.units # << >>
  /\ {NumRecords, MaxRanked, MaxMoves} \subseteq Nat
  /\ {MaxVersion, MaxBatches} \subseteq Nat \ {0}
  /\ None \notin Results

VARIABLES
  version, usable,  \* source_apps: version; enabled, not paused and VALID
  board,            \* the Project on GitHub
  moves,            \* Status changes so far
  shots,            \* the attachments rows of each record
  batch, provider,  \* number of the batch, the provider of the model it runs with
  cache,            \* BatchSourceSnapshotCache: the board taken for each version
  state,            \* feedback_records.state
  pc, at, seen,     \* the statement and the record processRecord is at; sa.version it read
  packet,           \* what prepare returned
  second,           \* the model is asked for a correction
  primary, review,  \* what decideValidated returned: [decision, sources]
  plan,             \* the last plan stored
  error             \* the error that ended the last record without a READY plan

source == <<version, usable>>
world == <<source, board, moves, shots>>
run == <<batch, provider, cache, at, seen>>
vars == <<world, run, state, pc, packet, second, primary, review, plan, error>>

Packets == [board: Boards, of: 1..MaxVersion, issues: SUBSET Issues,
            images: SUBSET [decode: {"VALIDATED"}, scan: Scans]]

Errors == {"UNAVAILABLE", "RESEARCH", "PROVIDER", "JSON", "DISAGREEMENT", "SCHEMA", "UNSAFE", "KEYS",
           "EVIDENCE", "MIXED", "CONFIDENCE", "SECURITY", "CITATION", "MUTATION", "TARGET", "ACTIVE",
           "NEW_ISSUE", "AREA"}

\* What GitHub and the database hand over: `of` is the registration a board was read for.
Snapshots == [board: Boards, of: 1..MaxVersion]

TypeOK ==
  /\ version \in 1..MaxVersion /\ usable \in BOOLEAN
  /\ board \in Boards
  /\ moves \in 0..MaxMoves
  /\ shots \in [Records -> SUBSET [decode: {"VALIDATED"}, scan: Scans]]
  /\ batch \in 1..MaxBatches /\ provider \in Providers
  /\ cache \in [1..MaxVersion -> Snapshots \cup {None}]
  /\ state \in [Records -> {"QUEUED", "RESEARCHING", "DECIDING", "APPLYING", "NEEDS_ATTENTION"}]
  /\ pc \in {"lease", "snapshot", "collect", "packet", "primary", "review", "plan", "stopped"}
  /\ at \in Records \cup {None}
  /\ seen \in 1..MaxVersion
  /\ packet \in Packets \cup {None}
  /\ second \in BOOLEAN
  /\ primary \in Results \cup {None}
  /\ review \in Results \cup {None}
  /\ error \in Errors \cup {None}

\* createFeedback stores every screenshot it accepts as VALIDATED.
StoredAs(scans) == {[decode |-> "VALIDATED", scan |-> s] : s \in scans}

Init ==
  /\ version = 1 /\ usable = TRUE
  /\ board \in Boards
  /\ moves = 0
  /\ \E scans \in [Records -> SUBSET Scans] : shots = [r \in Records |-> StoredAs(scans[r])]
  /\ batch = 1 /\ provider \in Providers
  /\ cache = [v \in 1..MaxVersion |-> None]
  /\ state = [r \in Records |-> "QUEUED"]
  /\ pc = "lease"
  /\ at = None
  /\ seen = 1
  /\ packet = None
  /\ second = FALSE
  /\ primary = None /\ review = None
  /\ plan = None
  /\ error = None

Set(r, s) == state' = [state EXCEPT ![r] = s]

-----------------------------------------------------------------------------
(***************************************************************************)
(* Errors.  validationFailure looks for words in the message of the error:  *)
(* an error it recognises ends the record, any other stops the batch, whose  *)
(* record goes back to the queue.                                           *)
(***************************************************************************)
Recognised ==
  {"SCHEMA", "UNSAFE", "KEYS", "EVIDENCE", "CONFIDENCE", "SECURITY", "CITATION", "MUTATION", "TARGET",
   "AREA", "JSON"}

\* What processRecord held is gone; plan and review were not reached.
Throw(why) ==
  /\ error' = why
  /\ at' = None /\ packet' = None /\ primary' = None /\ second' = FALSE
  /\ UNCHANGED <<world, batch, provider, cache, seen, review, plan>>

EndRecord(why) == Throw(why) /\ Set(at, "NEEDS_ATTENTION") /\ pc' = "lease"

StopBatch(why) == Throw(why) /\ Set(at, "QUEUED") /\ pc' = "stopped"

\* The two catch blocks of processRecord around prepare and decide.
FailResearch == StopBatch("RESEARCH")

FailDecision(why) == IF why \in Recognised THEN EndRecord(why) ELSE StopBatch(why)

-----------------------------------------------------------------------------
(***************************************************************************)
(* Research.                                                               *)
(***************************************************************************)
Lease(r) ==
  /\ pc = "lease"
  /\ state[r] = "QUEUED"
  /\ \A q \in Records : state[q] = "QUEUED" => r <= q
  /\ primary' = None /\ review' = None /\ packet' = None /\ plan' = None
  /\ second' = FALSE
  /\ \/ /\ usable
        /\ at' = r
        /\ seen' = version
        /\ error' = None
        /\ Set(r, "RESEARCHING")
        /\ pc' = "snapshot"
     \/ /\ ~usable
        /\ error' = "UNAVAILABLE"
        /\ Set(r, "NEEDS_ATTENTION")
        /\ UNCHANGED <<pc, at, seen>>
  /\ UNCHANGED <<world, batch, provider, cache>>

\* A cache that knows a source app but not its version.
GetSnapshotByApp ==
  /\ pc = "snapshot"
  /\ \/ \E v \in 1..seen : /\ cache[v] # None
                          /\ cache' = [cache EXCEPT ![seen] = cache[v]]
                          /\ pc' = "packet"
     \/ /\ \A v \in 1..seen : cache[v] = None
        /\ usable /\ version = seen
        /\ pc' = "collect"
        /\ UNCHANGED cache
  /\ UNCHANGED <<world, batch, provider, at, seen, state, packet, second, primary, review, plan, error>>

\* BatchSourceSnapshotCache.get; on a miss #source reads the registration again.
GetSnapshot ==
  /\ pc = "snapshot"
  /\ \/ cache[seen] # None /\ pc' = "packet"
     \/ cache[seen] = None /\ usable /\ version = seen /\ pc' = "collect"
  /\ UNCHANGED <<world, run, state, packet, second, primary, review, plan, error>>

SourceChanged ==
  /\ pc = "snapshot"
  /\ cache[seen] = None
  /\ ~usable \/ version # seen
  /\ FailResearch

CollectProject ==
  /\ pc = "collect"
  /\ cache' = [cache EXCEPT ![seen] = [board |-> board, of |-> seen]]
  /\ pc' = "packet"
  /\ UNCHANGED <<world, batch, provider, at, seen, state, packet, second, primary, review, plan, error>>

\* GitHub, git or a file refuses; the promise of a snapshot that failed is forgotten.
ResearchFails ==
  /\ pc \in {"collect", "packet"}
  /\ FailResearch

\* The where clause of #attachments.
ModelSafe(a) == a.decode = "NORMALIZED" /\ a.scan = "ACCEPTED"

\* Every non-Done Issue is eligible; the best MaxRanked of them that fit the byte budget
\* become evidence.
BuildPacket ==
  /\ pc = "packet"
  /\ LET snapshot == cache[seen]
         eligible == {i \in Issues : snapshot.board[i] # "Done"} IN
     \E ranked \in SUBSET eligible :
       /\ Cardinality(ranked) <= MaxRanked
       /\ packet' = [board |-> snapshot.board, of |-> snapshot.of, issues |-> ranked,
                     images |-> {a \in shots[at] : ModelSafe(a)}]
  /\ Set(at, "DECIDING")
  /\ pc' = "primary"
  /\ UNCHANGED <<world, run, second, primary, review, plan, error>>

-----------------------------------------------------------------------------
(***************************************************************************)
(* validateTriageDecision: the first check that fails, in the code's order.  *)
(***************************************************************************)
Checks == <<"EVIDENCE", "MIXED", "CONFIDENCE", "SECURITY", "CITATION", "MUTATION", "TARGET", "ACTIVE",
            "NEW_ISSUE", "AREA">>

Expected(disposition) ==
  CASE disposition = "MERGED" -> "MERGE_COMMENT"
    [] disposition = "CREATED" -> "CREATE_ISSUE"
    [] disposition = "CONSIDERED" -> "NO_GITHUB_CHANGE"

Eligible(i) == i \in Issues /\ packet.board[i] # "Done"

Fails(check, u, d, sources) ==
  CASE check = "EVIDENCE" -> ~(u.evidence \subseteq packet.issues)
    [] check = "MIXED" -> Len(d.units) > 1 /\ "MIXED_FEEDBACK" \notin u.flags
    [] check = "CONFIDENCE" -> u.low /\ "LOW_CONFIDENCE" \notin u.flags
    [] check = "SECURITY" -> u.kind = "SECURITY" /\ "SECURITY" \notin u.flags
    [] check = "CITATION" -> u.mutation # "NO_GITHUB_CHANGE" /\ ~(u.cites \subseteq sources)
    [] check = "MUTATION" -> u.mutation # Expected(u.disposition)
    [] check = "TARGET" -> u.disposition = "MERGED" /\ ~Eligible(u.target)
    [] check = "ACTIVE" -> /\ u.disposition = "MERGED" /\ Eligible(u.target)
                           /\ packet.board[u.target] = "In Progress"
                           /\ "ACTIVE_ISSUE_MATCH" \notin u.flags
    [] check = "NEW_ISSUE" -> u.disposition = "CREATED" /\ "NEW_ISSUE" \notin u.flags
    [] check = "AREA" -> u.disposition = "CREATED" /\ u.fields = "unregistered"

UnitFaults(d, sources) ==
  {f \in (DOMAIN d.units) \X (DOMAIN Checks) : Fails(Checks[f[2]], d.units[f[1]], d, sources)}

FirstFault(faults) ==
  LET unit == Min({f[1] : f \in faults}) IN Checks[Min({f[2] : f \in {g \in faults : g[1] = unit}})]

Valid(d, sources) == d.schema /\ ~d.unsafe /\ d.sequential /\ UnitFaults(d, sources) = {}

\* What is wrong with a decision that is not valid.
Fault(d, sources) ==
  CASE ~d.schema -> "SCHEMA"
    [] d.schema /\ d.unsafe -> "UNSAFE"
    [] d.schema /\ ~d.unsafe /\ ~d.sequential -> "KEYS"
    [] d.schema /\ ~d.unsafe /\ d.sequential -> FirstFault(UnitFaults(d, sources))

\* reviewReasons that trust the kind and the disposition alone.
ReasonsWithoutFlags(u) ==
  {x \in {"NEW_ISSUE"} : u.disposition = "CREATED"}
    \cup {x \in {"SECURITY"} : u.kind = "SECURITY"}
    \cup {x \in {"LOW_CONFIDENCE"} : u.low}

ReasonsOf(u) ==
  {x \in {"NEW_ISSUE"} : u.disposition = "CREATED"}
    \cup {x \in {"SECURITY"} : u.kind = "SECURITY"}
    \cup {x \in {"LOW_CONFIDENCE"} : u.low}
    \cup (u.flags \cap {"PRIVACY", "MULTIPLE_MATCHES", "ACTIVE_ISSUE_MATCH", "MIXED_FEEDBACK"})

ReviewReasons(d) == UNION {ReasonsOf(u) : u \in ToSet(d.units)}

AuthorityOf(u) ==
  [kind |-> u.kind, disposition |-> u.disposition, mutation |-> u.mutation,
   target |-> IF u.mutation = "MERGE_COMMENT" THEN u.target ELSE None,
   fields |-> IF u.mutation = "CREATE_ISSUE" THEN u.fields ELSE None]

AuthoritySignature(d) == [i \in DOMAIN d.units |-> AuthorityOf(d.units[i])]

-----------------------------------------------------------------------------
(***************************************************************************)
(* DecisionOrchestrator.decide, over a model adapter.                      *)
(***************************************************************************)
\* The sources an adapter returns with an answer: Ollama's are what its own search found,
\* Codex's are the URLs the answer cites.
CitedBy(d) == UNION {u.cites : u \in {v \in ToSet(d.units) : v.mutation # "NO_GITHUB_CHANGE"}}

SourcesOf(d) == IF provider = "OLLAMA_CLOUD" THEN SUBSET Urls ELSE {CitedBy(d)}

\* An answer passes, as the primary decision or as its review.
Accept(d, sources) ==
  /\ \/ /\ pc = "primary"
        /\ primary' = [decision |-> d, sources |-> sources]
        /\ pc' = IF ReviewReasons(d) = {} THEN "plan" ELSE "review"
        /\ UNCHANGED review
     \/ /\ pc = "review"
        /\ review' = [decision |-> d, sources |-> sources]
        /\ pc' = "plan"
        /\ UNCHANGED primary
  /\ second' = FALSE
  /\ UNCHANGED <<world, run, state, packet, plan, error>>

AskForCorrection ==
  /\ second' = TRUE
  /\ UNCHANGED <<world, run, state, pc, packet, primary, review, plan, error>>

\* One correction is offered, and none for unsafe content.
Correctable(why) == ~second /\ why # "UNSAFE"

Consider(d, sources) ==
  \/ Valid(d, sources) /\ Accept(d, sources)
  \/ ~Valid(d, sources) /\ Correctable(Fault(d, sources)) /\ AskForCorrection
  \/ ~Valid(d, sources) /\ ~Correctable(Fault(d, sources)) /\ FailDecision(Fault(d, sources))

Respond ==
  /\ pc \in {"primary", "review"}
  /\ \E d \in Responses : \E sources \in SourcesOf(d) : Consider(d, sources)

\* The provider refuses, times out or uses a forbidden tool; Codex's answer is not JSON.
\* (Ollama asks once more by itself and then reports the provider's error.)
ModelFails ==
  /\ pc \in {"primary", "review"}
  /\ \/ FailDecision("PROVIDER")
     \/ provider = "OPENAI_CODEX" /\ FailDecision("JSON")

\* Is the primary decision held back?
Disagree ==
  review # None /\ AuthoritySignature(primary.decision) # AuthoritySignature(review.decision)

\* persistPlan, and what follows it: applyOutcomes for a READY plan.
PersistPlan ==
  /\ pc = "plan"
  /\ plan' = [ready |-> ~Disagree, decision |-> primary.decision, review |-> review,
              sources |-> primary.sources \cup (IF review = None THEN {} ELSE review.sources)]
  /\ IF Disagree
       THEN Set(at, "NEEDS_ATTENTION") /\ error' = "DISAGREEMENT"
       ELSE Set(at, "APPLYING") /\ UNCHANGED error
  /\ pc' = "lease"
  /\ UNCHANGED <<world, run, packet, second, primary, review>>

\* A stopped batch is over; the next one is a new process, with the model selected then.
NextBatch ==
  /\ pc = "stopped" /\ batch < MaxBatches
  /\ batch' = batch + 1 /\ provider' \in Providers
  /\ cache' = [v \in 1..MaxVersion |-> None]
  /\ pc' = "lease"
  /\ UNCHANGED <<world, at, seen, state, packet, second, primary, review, plan, error>>

-----------------------------------------------------------------------------
(***************************************************************************)
(* An Owner edits the source app; people move Issues on the Project.        *)
(***************************************************************************)
UpdateSourceApp ==
  /\ version < MaxVersion
  /\ version' = version + 1
  /\ usable' \in BOOLEAN
  /\ UNCHANGED <<board, moves, shots, run, state, pc, packet, second, primary, review, plan, error>>

MoveIssue(i) ==
  /\ moves < MaxMoves
  /\ moves' = moves + 1
  /\ \E s \in Statuses \ {board[i]} : board' = [board EXCEPT ![i] = s]
  /\ UNCHANGED <<source, shots, run, state, pc, packet, second, primary, review, plan, error>>

Next ==
  \/ \E r \in Records : Lease(r)
  \/ GetSnapshot \/ SourceChanged \/ CollectProject \/ ResearchFails \/ BuildPacket
  \/ Respond \/ ModelFails \/ PersistPlan \/ NextBatch
  \/ UpdateSourceApp
  \/ \E i \in Issues : MoveIssue(i)

Spec == Init /\ [][Next]_vars

-----------------------------------------------------------------------------
(***************************************************************************)
(* Properties.  packet, seen and plan are those of the record last planned. *)
(***************************************************************************)
\* What makes a unit risky, whatever the model says of it.
Risky(u) ==
  \/ u.disposition = "CREATED" \/ u.kind = "SECURITY" \/ u.low
  \/ u.disposition = "MERGED" /\ packet.board[u.target] = "In Progress"

SameAuthority(u, v) ==
  /\ u.disposition = v.disposition
  /\ u.disposition = "MERGED" => u.target = v.target
  /\ u.disposition = "CREATED" => u.fields = v.fields

\* Nothing risky is acted on at one model answer's word: a plan that creates an Issue, touches
\* work in progress, concerns security, is unsure or splits its record is READY only when a
\* second answer, asked for as a review, gave every unit the same authority - also when either
\* answer had to be corrected first (orchestrator.ts, decision-validator.ts, risk-review.ts).
RiskIsReviewed ==
  plan # None /\ plan.ready /\ (Len(plan.decision.units) > 1 \/ \E u \in ToSet(plan.decision.units) : Risky(u))
    => /\ plan.review # None
       /\ Len(plan.review.decision.units) = Len(plan.decision.units)
       /\ \A i \in DOMAIN plan.decision.units : SameAuthority(plan.decision.units[i], plan.review.decision.units[i])

\* A stored plan stands on what its own run read: its evidence was in the packet, every page it
\* cites is among the captures stored with it, an Issue it merges into was not Done when the
\* Project was read, and that was the Project of the registration the record was leased under,
\* although the batch reuses its snapshots and Owners edit the registration meanwhile
\* (batch-cache.ts, runtime.ts, decision-validator.ts, persistPlan).
PlanIsGrounded ==
  plan # None =>
    /\ packet.of = seen
    /\ \A u \in ToSet(plan.decision.units) :
         /\ u.evidence \subseteq packet.issues
         /\ u.mutation # "NO_GITHUB_CHANGE" => u.cites \subseteq plan.sources
         /\ u.disposition = "MERGED" => packet.board[u.target] # "Done"

\* "Bounded, sanitized excerpts and normalized screenshots form the model packet" (plan.md:70):
\* the screenshots intake stored for a record are in its packet.
ScreenshotsReachTheModel == packet # None /\ at # None => packet.images = shots[at]

\* "A record-specific terminal failure MUST move only that record to Needs Attention"
\* (FR-029A, spec.md:157): an answer that fails validation never stops the batch.
InvalidOutputEndsOneRecord == pc = "stopped" => error \in {"RESEARCH", "PROVIDER"}
=============================================================================
