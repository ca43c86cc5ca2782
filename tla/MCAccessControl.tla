--------------------------- MODULE MCAccessControl ---------------------------
(***************************************************************************)
(* A small instance of AccessControl: two requests at a time.              *)
(***************************************************************************)
EXTENDS AccessControl, TLC

CONSTANTS s1, s2, r1, r2

MCSubjects == {s1, s2}
MCRequests == {r1, r2}
MCOffered == {[role |-> "OWNER", status |-> "ACTIVE"], [role |-> "ADMIN", status |-> "ACTIVE"],
              [role |-> "OWNER", status |-> "SUSPENDED"], [role |-> "USER", status |-> "ACTIVE"]}
MCSymmetry == Permutations(MCSubjects) \cup Permutations(MCRequests)
=============================================================================
