--------------------------- MODULE MCModelSettings ---------------------------
(***************************************************************************)
(* A small instance of ModelSettings: two providers are connected, the     *)
(* third has never been.                                                   *)
(***************************************************************************)
EXTENDS ModelSettings

CONSTANTS t1, t2, ollama, codex, other, m1, m2

MCRequests == {t1, t2}
MCProviders == {ollama, codex, other}
MCModels == {m1, m2}
MCKnown == {ollama, codex}
=============================================================================
