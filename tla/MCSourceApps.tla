---------------------------- MODULE MCSourceApps ----------------------------
(***************************************************************************)
(* A small instance of SourceApps: two Owners, two targets, two kids.      *)
(***************************************************************************)
EXTENDS SourceApps, TLC

CONSTANTS u1, u2, l1, l2, t1, t2, k1, k2, m1, m2, repo1, repo2

MCUpdates == {u1, u2}
MCLaunches == {l1, l2}
MCTokens == {t1, t2}
MCSignedBy == t1 :> [kid |-> k1, material |-> m1] @@ t2 :> [kid |-> k2, material |-> m2]

Form(target, enabled, keyed) == [target |-> target, enabled |-> enabled, paused |-> FALSE, keys |-> keyed]
MCForms == {Form(repo1, TRUE, k1 :> m1),
            Form(repo1, TRUE, k1 :> m1 @@ k2 :> m2),
            Form(repo2, TRUE, k2 :> m2),
            [Form(repo2, FALSE, k2 :> m1) EXCEPT !.paused = TRUE]}
MCSymmetry == Permutations(MCUpdates) \cup Permutations(MCLaunches)
=============================================================================
