------------------------------- MODULE Outcome -------------------------------
(***************************************************************************)
(* What the triage loop needs of `outcomes.apply` for one decision: it may *)
(* be called again and again, each call fails or succeeds, a success means *)
(* that the GitHub mutation has been made, and a call makes the mutation   *)
(* only if it has not been made yet.                                       *)
(*                                                                         *)
(* Two things outside the program soften "exactly once".  A request whose  *)
(* caller has given up can still be carried out by GitHub later, which     *)
(* excuses one more mutation each time.  And once a person has removed     *)
(* what the mutation left (or the marker in it), it may be made again.     *)
(***************************************************************************)
EXTENDS Naturals

VARIABLES
  considered,  \* the disposition is CONSIDERED: there is no mutation to make
  call,        \* "idle", "calling" or, once the caller has recorded it, "done"
  made,        \* mutations carried out
  late,        \* those of them carried out after their call had given up
  removed,     \* those of them that a person has removed
  orphans      \* requests given up by their call and not carried out yet

outcomeVars == <<considered, call, made, late, removed, orphans>>

OutcomeInit ==
  /\ considered \in BOOLEAN
  /\ call = "idle"
  /\ made = 0 /\ late = 0 /\ removed = 0 /\ orphans = 0

Call == call = "idle" /\ call' = "calling" /\ UNCHANGED <<considered, made, late, removed, orphans>>

\* The call makes the mutation; its reply may be lost, which ends the call.
Mutate ==
  /\ call = "calling" /\ ~considered
  /\ made <= late \/ removed > 0
  /\ made' = made + 1
  /\ call' \in {"calling", "idle"}
  /\ UNCHANGED <<considered, late, removed, orphans>>

GiveUp ==
  /\ call = "calling"
  /\ call' = "idle"
  /\ orphans' \in IF considered THEN {orphans} ELSE {orphans, orphans + 1}
  /\ UNCHANGED <<considered, made, late, removed>>

Succeed ==
  /\ call = "calling"
  /\ considered \/ made > 0
  /\ call' = "done"
  /\ UNCHANGED <<considered, made, late, removed, orphans>>

MutateLate ==
  /\ orphans > 0
  /\ orphans' = orphans - 1
  /\ made' = made + 1 /\ late' = late + 1
  /\ UNCHANGED <<considered, call, removed>>

Remove == removed < made /\ removed' = removed + 1 /\ UNCHANGED <<considered, call, made, late, orphans>>

OutcomeNext == Call \/ Mutate \/ GiveUp \/ Succeed \/ MutateLate \/ Remove

OutcomeSpec == OutcomeInit /\ [][OutcomeNext]_outcomeVars
=============================================================================
