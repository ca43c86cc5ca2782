---------------------------- MODULE ModelSettings ----------------------------
(***************************************************************************)
(* The Owner's settings: application_settings (one row per version, the    *)
(* last one current), model_profiles and provider_connections, changed by  *)
(* concurrent READ COMMITTED transactions: updateSettings,                 *)
(* saveConnectedProvider, disconnectProvider, and refreshProviderCredential *)
(* of a triage runner.                                                     *)
(*                                                                         *)
(* A transaction takes its row locks one statement at a time; its writes   *)
(* are seen when it commits, and are one action.  A statement that waits   *)
(* for a row chose that row before it waited and looks at it again         *)
(* afterwards: PostgreSQL re-evaluates the condition of this row, and does *)
(* not look for other rows.  Transactions that wait for each other are     *)
(* ended by the deadlock detector.                                         *)
(***************************************************************************)
EXTENDS Integers, Sequences, FiniteSets

CONSTANTS
  Requests,       \* web requests of Owners and runners, one transaction at a time
  Providers,
  Models,
  Known,          \* providers connected before; the others have no row
  MaxOperations,  \* bound: transactions begun
  MaxFaults,      \* bound: transactions cut short by a failure
  None

ASSUME SettingsAssumption ==
  /\ None \notin Requests
  /\ Known \subseteq Providers
  /\ MaxOperations \in Nat
  /\ MaxFaults \in Nat

VARIABLES
  settings,    \* the application_settings row that is not superseded
  profile,     \* model_profiles, in the order of their versions
  connection,  \* provider_connections; version 0 means there is no row
  operation,   \* what each request asks for, and the version its Owner saw
  pc,          \* the statement each request is at
  targets,     \* rows this statement has chosen and not yet locked
  held,        \* row locks of each request
  operations, faults

rowVars == <<settings, profile, connection>>
vars == <<rowVars, operation, pc, targets, held, operations, faults>>

Profile == [provider : Providers, model : Models, active : BOOLEAN]
\* The associated data of an encrypted credential: row id and credential version.
Envelope == [id : Requests \cup {None}, version : Nat]
Connection == [id : Requests \cup {None}, version : Nat, connected : BOOLEAN,
               catalog : SUBSET Models, credentialVersion : Nat, envelope : Envelope]
Operation == [kind : {"select", "connect", "disconnect", "refresh"}, provider : Providers,
              models : SUBSET Models, seen : Nat, envelope : Envelope]
Lock == ({"settings", "profile"} \X Nat) \cup ({"provider", "share"} \X Providers)
Point == {"begin", "insert", "offer", "scan", "profiles", "clear", "settings", "commit"}
NoEnvelope == [id |-> None, version |-> 0]

TypeOK ==
  /\ settings \in [version : Nat, selected : Nat]
  /\ settings.selected \in 0..Len(profile)
  /\ profile \in Seq(Profile)
  /\ connection \in [Providers -> Connection]
  /\ operation \in [Requests -> Operation \cup {None}]
  /\ pc \in [Requests -> Point \cup {"idle"}]
  /\ \A t \in Requests : operation[t] \in IF pc[t] = "idle" THEN {None} ELSE Operation
  /\ targets \in [Requests -> SUBSET Nat]
  /\ held \in [Requests -> SUBSET Lock]
  /\ operations \in 0..MaxOperations
  /\ faults \in 0..MaxFaults

Init ==
  /\ settings = [version |-> 1, selected |-> 0]
  /\ profile = <<>>
  /\ connection = [p \in Providers |->
       IF p \in Known
       THEN [id |-> None, version |-> 1, connected |-> TRUE, catalog |-> Models,
             credentialVersion |-> 1, envelope |-> [id |-> None, version |-> 1]]
       ELSE [id |-> None, version |-> 0, connected |-> FALSE, catalog |-> {},
             credentialVersion |-> 0, envelope |-> NoEnvelope]]
  /\ operation = [t \in Requests |-> None]
  /\ pc = [t \in Requests |-> "idle"]
  /\ targets = [t \in Requests |-> {}]
  /\ held = [t \in Requests |-> {}]
  /\ operations = 0
  /\ faults = 0

-----------------------------------------------------------------------------
Kind(t) == operation[t].kind
Provider(t) == operation[t].provider
CurrentRow == <<"settings", settings.version>>

\* for update excludes everybody, for share only for update.
Conflicts(l, u) ==
  \/ l \in held[u]
  \/ l[1] = "provider" /\ <<"share", l[2]>> \in held[u]
  \/ l[1] = "share" /\ <<"provider", l[2]>> \in held[u]

Free(t, l) == \A u \in Requests \ {t} : ~Conflicts(l, u)
Take(t, l) == Free(t, l) /\ held' = [held EXCEPT ![t] = @ \cup {l}]
Goto(t, point) == pc' = [pc EXCEPT ![t] = point]

\* Commit or rollback: the locks go.
Finish(t) ==
  /\ Goto(t, "idle")
  /\ operation' = [operation EXCEPT ![t] = None]
  /\ targets' = [targets EXCEPT ![t] = {}]
  /\ held' = [held EXCEPT ![t] = {}]

-----------------------------------------------------------------------------
(***************************************************************************)
(* The requests.                                                           *)
(***************************************************************************)

\* An Owner sends a form, or a runner the credential its provider has renewed.
Open(t) ==
  /\ pc[t] = "idle" /\ operations < MaxOperations
  /\ operations' = operations + 1
  /\ \E kind \in {"select", "connect", "disconnect", "refresh"}, p \in Providers, ms \in SUBSET Models :
       /\ kind = "select" => Cardinality(ms) = 1
       /\ kind \in {"disconnect", "refresh"} => ms = {}
       /\ operation' = [operation EXCEPT ![t] =
            [kind |-> kind, provider |-> p, models |-> ms, envelope |-> NoEnvelope,
             seen |-> IF kind = "select" THEN settings.version ELSE connection[p].version]]
  /\ Goto(t, "begin")
  /\ UNCHANGED <<rowVars, targets, held, faults>>

\* updateSettings: select .. for update of the current row.  A row superseded
\* during the wait is not returned: another version conflict.
LockSettings(t) ==
  /\ pc[t] = "begin" /\ Kind(t) = "select"
  /\ \/ /\ operation[t].seen = settings.version
        /\ Take(t, CurrentRow)
        /\ Goto(t, "offer")
        /\ UNCHANGED <<operation, targets>>
     \/ operation[t].seen # settings.version /\ Finish(t)
  /\ UNCHANGED <<rowVars, operations, faults>>

\* Variant: the provider row is read without a lock.
ReadOffer(t) ==
  /\ pc[t] = "offer"
  /\ \/ operation[t].models \subseteq connection[Provider(t)].catalog
        /\ Goto(t, "scan") /\ UNCHANGED <<operation, targets, held>>
     \/ ~(operation[t].models \subseteq connection[Provider(t)].catalog) /\ Finish(t)
  /\ UNCHANGED <<rowVars, operations, faults>>

\* select .. where status = 'CONNECTED' for share, and the check of its catalog.
LockOffer(t) ==
  /\ pc[t] = "offer"
  /\ Free(t, <<"share", Provider(t)>>)
  /\ LET c == connection[Provider(t)] IN
     \/ /\ c.connected /\ operation[t].models \subseteq c.catalog
        /\ Take(t, <<"share", Provider(t)>>)
        /\ Goto(t, "scan")
        /\ UNCHANGED <<operation, targets>>
     \/ ~(c.connected /\ operation[t].models \subseteq c.catalog) /\ Finish(t)
  /\ UNCHANGED <<rowVars, operations, faults>>

EnvelopeOf(t, id, version) ==
  operation' = [operation EXCEPT ![t].envelope = [id |-> id, version |-> version]]

\* PROVIDER_VERSION_CONFLICT for Owners, PROVIDER_NOT_CONNECTED for runners.
Accepted(t) ==
  IF Kind(t) = "refresh" THEN connection[Provider(t)].connected
  ELSE operation[t].seen = connection[Provider(t)].version

NextOf(t) == CASE Kind(t) = "connect" -> "insert"
               [] Kind(t) = "disconnect" -> "scan"
               [] Kind(t) = "refresh" -> "commit"

\* Variant: the expected version is compared before the row is locked.
LockConnectionUnchecked(t) ==
  /\ pc[t] = "begin" /\ Kind(t) # "select" /\ connection[Provider(t)].version > 0
  /\ Take(t, <<"provider", Provider(t)>>)
  /\ EnvelopeOf(t, connection[Provider(t)].id, connection[Provider(t)].credentialVersion + 1)
  /\ Goto(t, NextOf(t))
  /\ UNCHANGED <<rowVars, targets, operations, faults>>

\* Variant: a refused request leaves its transaction open.
LockConnectionLeft(t) ==
  /\ pc[t] = "begin" /\ Kind(t) # "select" /\ connection[Provider(t)].version > 0
  /\ Take(t, <<"provider", Provider(t)>>)
  /\ \/ /\ Accepted(t)
        /\ EnvelopeOf(t, connection[Provider(t)].id, connection[Provider(t)].credentialVersion + 1)
        /\ Goto(t, NextOf(t))
     \/ /\ ~Accepted(t)
        /\ operation' = [operation EXCEPT ![t] = None]
        /\ Goto(t, "idle")
  /\ UNCHANGED <<rowVars, targets, operations, faults>>

\* select .. for update of an existing provider row, and the checks that follow.
LockConnection(t) ==
  /\ pc[t] = "begin" /\ Kind(t) # "select" /\ connection[Provider(t)].version > 0
  /\ \/ /\ Accepted(t)
        /\ Take(t, <<"provider", Provider(t)>>)
        /\ EnvelopeOf(t, connection[Provider(t)].id, connection[Provider(t)].credentialVersion + 1)
        /\ Goto(t, NextOf(t))
        /\ UNCHANGED targets
     \/ /\ ~Accepted(t)
        /\ Free(t, <<"provider", Provider(t)>>)
        /\ Finish(t)
  /\ UNCHANGED <<rowVars, operations, faults>>

\* The same with no row to lock: only connecting goes on, with a new id.
NoConnection(t) ==
  /\ pc[t] = "begin" /\ Kind(t) # "select" /\ connection[Provider(t)].version = 0
  /\ \/ /\ Kind(t) = "connect"
        /\ EnvelopeOf(t, t, 1)
        /\ Goto(t, "insert")
        /\ UNCHANGED <<targets, held>>
     \/ Kind(t) # "connect" /\ Finish(t)
  /\ UNCHANGED <<rowVars, operations, faults>>

\* insert .. on conflict (provider) do update: waits for the row, or for another
\* insert of it.
Upsert(t) ==
  /\ pc[t] = "insert"
  /\ Take(t, <<"provider", Provider(t)>>)
  /\ Goto(t, "scan")
  /\ UNCHANGED <<rowVars, operation, targets, operations, faults>>

\* The statement on the active profiles: of any provider if a model is selected,
\* of this one if it is connected or disconnected.
ScanProfiles(t) ==
  /\ pc[t] = "scan"
  /\ targets' = [targets EXCEPT ![t] = {i \in DOMAIN profile :
       profile[i].active /\ (Kind(t) # "select" => profile[i].provider = Provider(t))}]
  /\ Goto(t, "profiles")
  /\ UNCHANGED <<rowVars, operation, held, operations, faults>>

LockProfile(t) ==
  /\ pc[t] = "profiles"
  /\ \/ \E i \in targets[t] :
          /\ Take(t, <<"profile", i>>)
          /\ targets' = [targets EXCEPT ![t] = @ \ {i}]
          /\ UNCHANGED pc
     \/ /\ targets[t] = {}
        /\ Goto(t, IF Kind(t) = "select" THEN "commit" ELSE "clear")
        /\ UNCHANGED <<targets, held>>
  /\ UNCHANGED <<rowVars, operation, operations, faults>>

\* Locked profiles that are still active and that the statement deactivates.
Deactivated(t) == {i \in DOMAIN profile :
  /\ <<"profile", i>> \in held[t]
  /\ profile[i].active
  /\ Kind(t) = "connect" => profile[i].model \notin operation[t].models}

\* Profiles the current settings must not go on naming.
Dropped(t) == IF Kind(t) = "connect" THEN Deactivated(t)
              ELSE {i \in DOMAIN profile : profile[i].provider = Provider(t)}

\* update application_settings set model_profile_id = null
ScanSettings(t) ==
  /\ pc[t] = "clear"
  /\ targets' = [targets EXCEPT ![t] = IF settings.selected \in Dropped(t) THEN {settings.version} ELSE {}]
  /\ Goto(t, "settings")
  /\ UNCHANGED <<rowVars, operation, held, operations, faults>>

LockSelection(t) ==
  /\ pc[t] = "settings"
  /\ \/ \E v \in targets[t] :
          /\ Take(t, <<"settings", v>>)
          /\ targets' = [targets EXCEPT ![t] = @ \ {v}]
          /\ UNCHANGED pc
     \/ /\ targets[t] = {}
        /\ Goto(t, "commit")
        /\ UNCHANGED <<targets, held>>
  /\ UNCHANGED <<rowVars, operation, operations, faults>>

-----------------------------------------------------------------------------
Deactivate(t) == [i \in DOMAIN profile |->
  [profile[i] EXCEPT !.active = @ /\ i \notin Deactivated(t)]]

\* Variant: the profile that was active stays so.
CommitSelectOnly(t) ==
  /\ pc[t] = "commit" /\ Kind(t) = "select"
  /\ \E m \in operation[t].models :
       profile' = Append(profile, [provider |-> Provider(t), model |-> m, active |-> TRUE])
  /\ settings' = [version |-> settings.version + 1, selected |-> Len(profile) + 1]
  /\ Finish(t)
  /\ UNCHANGED <<connection, operations, faults>>

\* updateSettings: a new profile, and a new version of the settings that names it.
CommitSelect(t) ==
  /\ pc[t] = "commit" /\ Kind(t) = "select"
  /\ \E m \in operation[t].models :
       profile' = Append(Deactivate(t), [provider |-> Provider(t), model |-> m, active |-> TRUE])
  /\ settings' = [version |-> settings.version + 1, selected |-> Len(profile) + 1]
  /\ Finish(t)
  /\ UNCHANGED <<connection, operations, faults>>

\* The locked settings row, unless a newer one has superseded it, stops naming a
\* dropped profile.
ClearSelection(t) ==
  settings' = [settings EXCEPT !.selected =
                 IF CurrentRow \in held[t] /\ @ \in Dropped(t) THEN 0 ELSE @]

CommitConnect(t) ==
  /\ pc[t] = "commit" /\ Kind(t) = "connect"
  /\ LET sent == operation[t].envelope
     IN connection' = [connection EXCEPT ![Provider(t)] =
          [id |-> IF @.version = 0 THEN sent.id ELSE @.id, version |-> @.version + 1,
           connected |-> TRUE, catalog |-> operation[t].models,
           credentialVersion |-> sent.version, envelope |-> sent]]
  /\ profile' = Deactivate(t)
  /\ ClearSelection(t)
  /\ Finish(t)
  /\ UNCHANGED <<operations, faults>>

CommitDisconnect(t) ==
  /\ pc[t] = "commit" /\ Kind(t) = "disconnect"
  /\ connection' = [connection EXCEPT ![Provider(t)] =
       [id |-> @.id, version |-> @.version + 1, connected |-> FALSE, catalog |-> {},
        credentialVersion |-> @.credentialVersion, envelope |-> NoEnvelope]]
  /\ profile' = Deactivate(t)
  /\ ClearSelection(t)
  /\ Finish(t)
  /\ UNCHANGED <<operations, faults>>

CommitRefresh(t) ==
  /\ pc[t] = "commit" /\ Kind(t) = "refresh"
  /\ connection' = [connection EXCEPT ![Provider(t)] =
       [id |-> @.id, version |-> @.version + 1, connected |-> @.connected, catalog |-> @.catalog,
        credentialVersion |-> operation[t].envelope.version, envelope |-> operation[t].envelope]]
  /\ Finish(t)
  /\ UNCHANGED <<settings, profile, operations, faults>>

\* A statement fails or the process is killed: rollback.
Rollback(t) ==
  /\ pc[t] # "idle"
  /\ faults < MaxFaults /\ faults' = faults + 1
  /\ Finish(t)
  /\ UNCHANGED <<rowVars, operations>>

-----------------------------------------------------------------------------
(***************************************************************************)
(* PostgreSQL's deadlock detector.                                         *)
(***************************************************************************)
Wanted(t) ==
  CASE pc[t] = "insert"   -> {<<"provider", Provider(t)>>}
    [] pc[t] = "offer"    -> {<<"share", Provider(t)>>}
    [] pc[t] = "profiles" -> {"profile"} \X targets[t]
    [] pc[t] = "settings" -> {"settings"} \X targets[t]
    [] OTHER              -> {}

WaitsFor(t, u) == t # u /\ \E l \in Wanted(t) : Conflicts(l, u)

\* Requests each of which waits for another of them; the smallest such set is a cycle.
Stuck(S) == S # {} /\ \A t \in S : \E u \in S : WaitsFor(t, u)
Cycle(S) == Stuck(S) /\ \A R \in SUBSET S : Stuck(R) => R = S

DetectDeadlock(t) ==
  /\ \E S \in SUBSET Requests : t \in S /\ Cycle(S)
  /\ Finish(t)
  /\ UNCHANGED <<rowVars, operations, faults>>

-----------------------------------------------------------------------------
Advance(t) ==
  \/ LockSettings(t) \/ LockOffer(t) \/ LockConnection(t) \/ NoConnection(t) \/ Upsert(t)
  \/ ScanProfiles(t) \/ LockProfile(t) \/ ScanSettings(t) \/ LockSelection(t)
  \/ CommitSelect(t) \/ CommitConnect(t) \/ CommitDisconnect(t) \/ CommitRefresh(t)

Next == \E t \in Requests : Open(t) \/ Advance(t) \/ Rollback(t) \/ DetectDeadlock(t)

Spec == Init /\ [][Next]_vars

\* PostgreSQL goes on with a statement that is not blocked, and looks for deadlocks.
FairSpec == Spec /\ \A t \in Requests : WF_vars(Advance(t)) /\ WF_vars(DetectDeadlock(t))

-----------------------------------------------------------------------------
(***************************************************************************)
(* Properties.                                                             *)
(***************************************************************************)

\* The settings name a profile exactly when it is the one active profile: what
\* readRuntimeProfile joins is never half of a change.
ActiveIsSelected ==
  {i \in DOMAIN profile : profile[i].active} = {settings.selected} \ {0}

\* FR-044: the selected model is one that a connected provider offers, so
\* readRuntimeProfile never finds a model that is no longer available.
SelectedIsOffered ==
  settings.selected # 0 =>
    LET chosen == profile[settings.selected]
    IN /\ connection[chosen.provider].connected
       /\ chosen.model \in connection[chosen.provider].catalog

\* The optimistic versions: settings and provider rows are replaced only by a
\* request whose Owner has seen the version it replaces, or had no row to see.  A
\* runner that renews a credential replaces whatever is there.
ReplacesWhatItSaw ==
  [][/\ settings'.version # settings.version =>
          \E t \in Requests : /\ pc[t] = "commit" /\ Kind(t) = "select"
                              /\ operation[t].seen = settings.version
     /\ \A p \in Providers : connection'[p].version # connection[p].version =>
          \E t \in Requests :
             /\ pc[t] = "commit" /\ pc'[t] = "idle" /\ Provider(t) = p
             /\ Kind(t) # "refresh" => operation[t].seen \in {connection[p].version, 0}]_vars

\* Every request is answered, whatever it waits for.
EveryRequestEnds == \A t \in Requests : pc[t] # "idle" ~> pc[t] = "idle"

\* data-model.md: the credential of a connected provider is bound to the row and
\* the credential version it is stored with, so that it can be decrypted.
CredentialIsBound ==
  \A p \in Providers : connection[p].connected =>
    connection[p].envelope = [id |-> connection[p].id, version |-> connection[p].credentialVersion]

\* Interleaved transactions have the effect of operations that happen at once.
Abstract == INSTANCE Configuration WITH
  offers <- [p \in Providers |-> connection[p].catalog],
  current <- IF settings.selected = 0 THEN None
             ELSE [provider |-> profile[settings.selected].provider,
                   model |-> profile[settings.selected].model]

ImplementsConfiguration == Abstract!Spec
=============================================================================
