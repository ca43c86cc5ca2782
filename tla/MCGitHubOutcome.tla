-------------------------- MODULE MCGitHubOutcome --------------------------
(***************************************************************************)
(* Small instances of GitHubOutcome: two snapshots that satisfy the        *)
(* preconditions and one that does not.                                    *)
(***************************************************************************)
EXTENDS GitHubOutcome

CONSTANTS asDecided, changedButValid, drifted

MCValidWorlds == {asDecided, changedButValid}
MCWorlds == MCValidWorlds \cup {drifted}
=============================================================================
