---------------------------- MODULE Configuration ----------------------------
(***************************************************************************)
(* What the Owner's settings promise: each of selecting a model, connecting *)
(* a provider and disconnecting one happens at once, and the selected model *)
(* is always one that a connected provider offers, or none.                *)
(***************************************************************************)
CONSTANTS Providers, Models, None

VARIABLES
  offers,    \* models each provider offers; none while it is not connected
  current    \* the selected model and its provider, or None

vars == <<offers, current>>

Init == /\ offers \in [Providers -> SUBSET Models]
        /\ current = None

Select(p, m) ==
  /\ m \in offers[p]
  /\ current' = [provider |-> p, model |-> m]
  /\ UNCHANGED offers

\* Connecting, refreshing the catalog, and disconnecting (nothing is offered): a
\* selection the provider no longer offers is dropped in the same step.
Offer(p, catalog) ==
  /\ offers' = [offers EXCEPT ![p] = catalog]
  /\ current' = IF current # None /\ current.provider = p /\ current.model \notin catalog
                THEN None ELSE current

Next == \E p \in Providers :
          \/ \E m \in Models : Select(p, m)
          \/ \E catalog \in SUBSET Models : Offer(p, catalog)

Spec == Init /\ [][Next]_vars
=============================================================================
