------------------------------ MODULE Lifecycle ------------------------------
(***************************************************************************)
(* feedback_records.state as the parts of the program see it of each       *)
(* other: intake, withdrawal and retention test it, an Owner's PATCH of a  *)
(* source app counts it, and the drain moves it.  Whatever the drain does  *)
(* with a record it has leased is one phase, "LEASED".                     *)
(*                                                                         *)
(* This is the contract between them: TriageQueue keeps it, and the other  *)
(* modules let triage do no more and no less than what it allows.          *)
(***************************************************************************)
CONSTANT Records

VARIABLE phase

Phases == {"ABSENT", "QUEUED", "LEASED", "NEEDS_ATTENTION", "TRIAGED", "WITHDRAWN"}

Init == phase = [r \in Records |-> "ABSENT"]

Move(r, from, to) == phase[r] = from /\ phase' = [phase EXCEPT ![r] = to]

\* createFeedback, withdrawFeedback, requeueFeedback.
Submit(r)   == Move(r, "ABSENT", "QUEUED")
Withdraw(r) == Move(r, "QUEUED", "WITHDRAWN")
Requeue(r)  == Move(r, "NEEDS_ATTENTION", "QUEUED")

\* leaseOldest takes the record; so does the late write of a runner whose lease
\* has been recovered.
Take(r)     == Move(r, "QUEUED", "LEASED")
GiveBack(r) == Move(r, "LEASED", "QUEUED")
Settle(r)   == Move(r, "LEASED", "TRIAGED")

\* failLease and an exhausted budget; the record may be back in the queue by then.
Stop(r) == Move(r, "LEASED", "NEEDS_ATTENTION") \/ Move(r, "QUEUED", "NEEDS_ATTENTION")

\* Recovery queues a record again although its plan is for a human; a runner that
\* has lost its lease goes on with a record that recovery has given up.
Resume(r) == Move(r, "NEEDS_ATTENTION", "QUEUED") \/ Move(r, "NEEDS_ATTENTION", "LEASED")

\* The commit of completeLease was reported as failed, and retryLease overwrites it.
Reopen(r) == Move(r, "TRIAGED", "QUEUED")

Work(r) == Take(r) \/ GiveBack(r) \/ Settle(r) \/ Stop(r) \/ Resume(r)

Next == \E r \in Records : Submit(r) \/ Withdraw(r) \/ Requeue(r) \/ Work(r) \/ Reopen(r)

Spec == Init /\ [][Next]_phase
=============================================================================
