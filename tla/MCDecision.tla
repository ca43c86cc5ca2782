----------------------------- MODULE MCDecision -----------------------------
(***************************************************************************)
(* A small instance of Decision: answers that pass every validator, answers *)
(* that fail each of them, and the pairs the review tells apart.            *)
(***************************************************************************)
EXTENDS Decision

CONSTANTS i1, i2, w1

MCIssues == {i1, i2}
MCUrls == {w1}

Considered ==
  [kind |-> "OTHER", disposition |-> "CONSIDERED", mutation |-> "NO_GITHUB_CHANGE", target |-> None,
   fields |-> None, low |-> FALSE, flags |-> {}, evidence |-> {}, cites |-> {}]

Merge(i, flags) ==
  [Considered EXCEPT !.disposition = "MERGED", !.mutation = "MERGE_COMMENT", !.target = i, !.flags = flags,
                     !.evidence = {i}, !.cites = {w1}]

Create(fields, flags) ==
  [Considered EXCEPT !.disposition = "CREATED", !.mutation = "CREATE_ISSUE", !.fields = fields, !.flags = flags]

MCUnits ==
  {Considered,
   [Considered EXCEPT !.low = TRUE],
   [Considered EXCEPT !.kind = "SECURITY"],
   [Considered EXCEPT !.kind = "SECURITY", !.flags = {"SECURITY"}],
   [Considered EXCEPT !.disposition = "CREATED"],
   Merge(i1, {}), Merge(i1, {"ACTIVE_ISSUE_MATCH"}), Merge(i2, {"ACTIVE_ISSUE_MATCH"}),
   Create("these", {"NEW_ISSUE"}), Create("those", {"NEW_ISSUE"}), Create("these", {}),
   Create("unregistered", {"NEW_ISSUE"})}

Answer(units) == [schema |-> TRUE, unsafe |-> FALSE, sequential |-> TRUE, units |-> units]

MCResponses ==
  {Answer(<<u>>) : u \in MCUnits}
    \cup {Answer(<<Merge(i1, flags), [Considered EXCEPT !.flags = flags]>>) : flags \in {{}, {"MIXED_FEEDBACK"}}}
    \cup {[Answer(<<Considered>>) EXCEPT !.schema = FALSE], [Answer(<<Considered>>) EXCEPT !.unsafe = TRUE],
          [Answer(<<Considered>>) EXCEPT !.sequential = FALSE]}
=============================================================================
