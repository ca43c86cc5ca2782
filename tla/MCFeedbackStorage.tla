-------------------------- MODULE MCFeedbackStorage --------------------------
(***************************************************************************)
(* A small instance of FeedbackStorage: two requests race for one launch,  *)
(* and two retention jobs for its record.                                  *)
(***************************************************************************)
EXTENDS FeedbackStorage

CONSTANTS q1, q2, j1, j2

MCRequests == {q1, q2}
MCJobs == {j1, j2}
=============================================================================
