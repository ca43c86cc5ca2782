--------------------------- MODULE MCTriageQueue ---------------------------
(***************************************************************************)
(* Small instances of TriageQueue.                                         *)
(***************************************************************************)
EXTENDS TriageQueue, TLC

CONSTANTS p1, p2

MCRunners == {p1, p2}
RunnerSymmetry == Permutations(MCRunners)
=============================================================================
