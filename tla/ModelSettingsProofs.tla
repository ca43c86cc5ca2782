------------------------- MODULE ModelSettingsProofs -------------------------
(***************************************************************************)
(* Theorems about ModelSettings, for any numbers of requests, providers,   *)
(* models, operations and failures.                                        *)
(***************************************************************************)
EXTENDS ModelSettings, SequenceTheorems, TLAPS

-----------------------------------------------------------------------------
(***************************************************************************)
(* Types.                                                                  *)
(***************************************************************************)

\* What the row variables are, and what the transactions are.
RowType ==
  /\ settings \in [version : Nat, selected : Nat]
  /\ settings.selected \in 0..Len(profile)
  /\ profile \in Seq(Profile)
  /\ connection \in [Providers -> Connection]

RequestType ==
  /\ operation \in [Requests -> Operation \cup {None}]
  /\ pc \in [Requests -> Point \cup {"idle"}]
  /\ \A t \in Requests : operation[t] \in IF pc[t] = "idle" THEN {None} ELSE Operation
  /\ targets \in [Requests -> SUBSET Nat]
  /\ held \in [Requests -> SUBSET Lock]

BoundType == operations \in 0..MaxOperations /\ faults \in 0..MaxFaults

LEMMA TypeSplit == TypeOK => RowType /\ RequestType /\ BoundType
BY DEF TypeOK, RowType, RequestType, BoundType

LEMMA TypeJoin == RowType' /\ RequestType' /\ BoundType' => TypeOK'
BY DEF TypeOK, RowType, RequestType, BoundType

LEMMA InitType == Init => TypeOK
<1> SUFFICES ASSUME Init PROVE TypeOK
  OBVIOUS
<1>1. profile \in Seq(Profile) /\ Len(profile) = 0
  BY EmptySeq DEF Init
<1>2. connection \in [Providers -> Connection]
  BY DEF Init, Connection, Envelope, NoEnvelope
<1>3. settings \in [version : Nat, selected : Nat] /\ settings.selected \in 0..Len(profile)
  BY <1>1 DEF Init
<1>4. /\ operation \in [Requests -> Operation \cup {None}]
      /\ pc \in [Requests -> Point \cup {"idle"}]
      /\ \A t \in Requests : operation[t] \in IF pc[t] = "idle" THEN {None} ELSE Operation
  BY DEF Init
<1>5. targets \in [Requests -> SUBSET Nat] /\ held \in [Requests -> SUBSET Lock]
  BY DEF Init
<1>6. operations \in 0..MaxOperations /\ faults \in 0..MaxFaults
  BY SettingsAssumption DEF Init
<1> QED BY <1>1, <1>2, <1>3, <1>4, <1>5, <1>6 DEF TypeOK

\* Ending a transaction.
LEMMA FinishType ==
  ASSUME RequestType, NEW t \in Requests, Finish(t)
  PROVE  RequestType'
BY DEF RequestType, Finish, Goto

\* Going on to another statement.
LEMMA GotoType ==
  ASSUME RequestType, NEW t \in Requests, pc[t] # "idle",
         NEW point \in Point, Goto(t, point),
         targets' \in [Requests -> SUBSET Nat],
         held' \in [Requests -> SUBSET Lock],
         \/ operation' = operation
         \/ \E e \in Envelope : operation' = [operation EXCEPT ![t].envelope = e]
  PROVE  RequestType'
<1> USE DEF RequestType, Goto
<1>1. operation[t] \in Operation
  OBVIOUS
<1>2. point # "idle"
  BY DEF Point
<1>3. CASE operation' = operation
  BY <1>1, <1>2, <1>3
<1>4. ASSUME NEW e \in Envelope, operation' = [operation EXCEPT ![t].envelope = e]
      PROVE  RequestType'
  <2>1. [operation[t] EXCEPT !.envelope = e] \in Operation
    BY <1>1 DEF Operation
  <2> QED BY <1>2, <1>4, <2>1
<1> QED BY <1>3, <1>4

\* Taking a lock.
LEMMA TakeType ==
  ASSUME RequestType, NEW t \in Requests, NEW l \in Lock, Take(t, l)
  PROVE  held' \in [Requests -> SUBSET Lock]
BY DEF RequestType, Take

\* A deactivation changes no profile's identity.
LEMMA DeactivateProfiles ==
  ASSUME RowType, NEW t \in Requests
  PROVE  /\ Deactivate(t) \in Seq(Profile)
         /\ Len(Deactivate(t)) = Len(profile)
         /\ DOMAIN Deactivate(t) = DOMAIN profile
         /\ \A i \in DOMAIN profile :
              /\ Deactivate(t)[i].provider = profile[i].provider
              /\ Deactivate(t)[i].model = profile[i].model
              /\ Deactivate(t)[i].active = (profile[i].active /\ i \notin Deactivated(t))
<1>1. DOMAIN profile = 1..Len(profile) /\ Len(profile) \in Nat
  BY LenProperties DEF RowType
<1>2. \A i \in DOMAIN profile : profile[i] \in Profile
  BY ElementOfSeq, <1>1 DEF RowType
<1>3. \A i \in DOMAIN profile : [profile[i] EXCEPT !.active = @ /\ i \notin Deactivated(t)] \in Profile
  BY <1>2, Zenon DEF Profile
<1>4. Deactivate(t) \in [1..Len(profile) -> Profile]
  BY <1>1, <1>3 DEF Deactivate
<1>5. Deactivate(t) \in Seq(Profile)
  BY <1>1, <1>4, IsASeq
<1>6. Len(Deactivate(t)) = Len(profile)
  BY <1>1, <1>4, <1>5, LenProperties
<1>7. ASSUME NEW i \in DOMAIN profile
      PROVE  /\ Deactivate(t)[i].provider = profile[i].provider
             /\ Deactivate(t)[i].model = profile[i].model
             /\ Deactivate(t)[i].active = (profile[i].active /\ i \notin Deactivated(t))
  BY <1>2 DEF Deactivate, Profile
<1> QED BY <1>1, <1>4, <1>5, <1>6, <1>7

LEMMA StatementType ==
  ASSUME TypeOK, NEW t \in Requests,
         \/ LockSettings(t) \/ LockOffer(t) \/ LockConnection(t) \/ NoConnection(t) \/ Upsert(t)
         \/ ScanProfiles(t) \/ LockProfile(t) \/ ScanSettings(t) \/ LockSelection(t)
  PROVE  TypeOK'
<1>1. RowType /\ RequestType /\ BoundType
  BY TypeSplit
<1>2. RowType' /\ BoundType'
  BY <1>1 DEF LockSettings, LockOffer, LockConnection, NoConnection, Upsert, ScanProfiles,
     LockProfile, ScanSettings, LockSelection, rowVars, RowType, BoundType
<1>3. pc[t] # "idle"
  BY DEF LockSettings, LockOffer, LockConnection, NoConnection, Upsert, ScanProfiles,
     LockProfile, ScanSettings, LockSelection
<1>4. operation[t] \in Operation /\ Provider(t) \in Providers
  BY <1>1, <1>3 DEF Operation, Provider, RequestType
<1> SUFFICES RequestType'
  BY <1>2, TypeJoin
<1>5. CASE Finish(t)
  BY <1>1, <1>5, FinishType
\* A statement that ends by going on to another one.
<1>6. ASSUME NEW point \in Point, Goto(t, point),
             targets' \in [Requests -> SUBSET Nat],
             \/ held' = held
             \/ \E l \in Lock : Take(t, l),
             \/ operation' = operation
             \/ \E e \in Envelope : operation' = [operation EXCEPT ![t].envelope = e]
      PROVE  RequestType'
  <2>1. held' \in [Requests -> SUBSET Lock]
    BY <1>1, <1>6, TakeType DEF RequestType
  <2> QED BY <1>1, <1>3, <1>6, <2>1, GotoType
<1>7. /\ CurrentRow \in Lock
      /\ <<"share", Provider(t)>> \in Lock
      /\ <<"provider", Provider(t)>> \in Lock
      /\ \A i \in Nat : <<"profile", i>> \in Lock /\ <<"settings", i>> \in Lock
  BY <1>1, <1>4 DEF CurrentRow, Lock, RowType
<1>8. /\ targets \in [Requests -> SUBSET Nat]
      /\ \A S \in SUBSET Nat : [targets EXCEPT ![t] = S] \in [Requests -> SUBSET Nat]
      /\ \A i \in targets[t] : i \in Nat
  BY <1>1 DEF RequestType
<1>9. DOMAIN profile \in SUBSET Nat /\ settings.version \in Nat
  BY <1>1, LenProperties DEF RowType
<1>10. CASE LockSettings(t)
  BY <1>5, <1>6, <1>7, <1>8, <1>10 DEF LockSettings, Point
<1>11. CASE LockOffer(t)
  BY <1>5, <1>6, <1>7, <1>8, <1>11 DEF LockOffer, Point
<1>12. CASE LockConnection(t)
  <2>1. NextOf(t) \in Point \/ ~Accepted(t) \/ Kind(t) = "select"
    BY <1>4 DEF NextOf, Kind, Operation, Point
  <2>2. connection[Provider(t)] \in Connection
    BY <1>1, <1>4 DEF RowType
  <2>3. [id |-> connection[Provider(t)].id, version |-> connection[Provider(t)].credentialVersion + 1] \in Envelope
    BY <2>2 DEF Connection, Envelope
  <2> QED BY <1>5, <1>6, <1>7, <1>8, <1>12, <2>1, <2>3 DEF LockConnection, EnvelopeOf
<1>13. CASE NoConnection(t)
  <2>1. [id |-> t, version |-> 1] \in Envelope
    BY DEF Envelope
  <2> QED BY <1>5, <1>6, <1>8, <1>13, <2>1 DEF NoConnection, EnvelopeOf, Point
<1>14. CASE Upsert(t)
  BY <1>6, <1>7, <1>8, <1>14 DEF Upsert, Point
<1>15. CASE ScanProfiles(t)
  BY <1>6, <1>8, <1>9, <1>15 DEF ScanProfiles, Point
<1>16. CASE LockProfile(t)
  <2>1. ASSUME NEW i \in targets[t], Take(t, <<"profile", i>>),
               targets' = [targets EXCEPT ![t] = @ \ {i}], UNCHANGED pc
        PROVE  RequestType'
    <3>1. Goto(t, "profiles")
      BY <1>1, <1>16, <2>1 DEF LockProfile, Goto, RequestType
    <3>2. targets' \in [Requests -> SUBSET Nat]
      BY <1>1, <2>1 DEF RequestType
    <3>3. <<"profile", i>> \in Lock
      BY <1>7, <1>8
    <3> QED BY <1>6, <1>16, <2>1, <3>1, <3>2, <3>3 DEF LockProfile, Point
  <2>2. CASE UNCHANGED <<targets, held>> /\ Goto(t, IF Kind(t) = "select" THEN "commit" ELSE "clear")
    BY <1>6, <1>8, <1>16, <2>2 DEF LockProfile, Point
  <2> QED BY <1>16, <2>1, <2>2 DEF LockProfile
<1>17. CASE ScanSettings(t)
  BY <1>6, <1>8, <1>9, <1>17 DEF ScanSettings, Point
<1>18. CASE LockSelection(t)
  <2>1. ASSUME NEW i \in targets[t], Take(t, <<"settings", i>>),
               targets' = [targets EXCEPT ![t] = @ \ {i}], UNCHANGED pc
        PROVE  RequestType'
    <3>1. Goto(t, "settings")
      BY <1>1, <1>18, <2>1 DEF LockSelection, Goto, RequestType
    <3>2. targets' \in [Requests -> SUBSET Nat]
      BY <1>1, <2>1 DEF RequestType
    <3>3. <<"settings", i>> \in Lock
      BY <1>7, <1>8
    <3> QED BY <1>6, <1>18, <2>1, <3>1, <3>2, <3>3 DEF LockSelection, Point
  <2>2. CASE UNCHANGED <<targets, held>> /\ Goto(t, "commit")
    BY <1>6, <1>8, <1>18, <2>2 DEF LockSelection, Point
  <2> QED BY <1>18, <2>1, <2>2 DEF LockSelection
<1> QED BY <1>10, <1>11, <1>12, <1>13, <1>14, <1>15, <1>16, <1>17, <1>18

LEMMA CommitType ==
  ASSUME TypeOK, NEW t \in Requests,
         CommitSelect(t) \/ CommitConnect(t) \/ CommitDisconnect(t) \/ CommitRefresh(t)
  PROVE  TypeOK'
<1>1. RowType /\ RequestType /\ BoundType
  BY TypeSplit
<1>2. Finish(t) /\ BoundType'
  BY <1>1 DEF CommitSelect, CommitConnect, CommitDisconnect, CommitRefresh, BoundType
<1>3. operation[t] \in Operation /\ Provider(t) \in Providers
  BY <1>1 DEF Operation, Provider, RequestType, CommitSelect, CommitConnect, CommitDisconnect, CommitRefresh
<1> SUFFICES RowType'
  BY <1>1, <1>2, FinishType, TypeJoin
<1>4. connection[Provider(t)] \in Connection
  BY <1>1, <1>3 DEF RowType
<1>5. Deactivate(t) \in Seq(Profile) /\ Len(Deactivate(t)) = Len(profile) /\ Len(profile) \in Nat
  BY <1>1, DeactivateProfiles, LenProperties DEF RowType
<1>6. CASE CommitSelect(t)
  <2>1. PICK m \in operation[t].models :
          profile' = Append(Deactivate(t), [provider |-> Provider(t), model |-> m, active |-> TRUE])
    BY <1>6 DEF CommitSelect
  <2>2. [provider |-> Provider(t), model |-> m, active |-> TRUE] \in Profile
    BY <1>3 DEF Profile, Operation
  <2>3. profile' \in Seq(Profile) /\ Len(profile') = Len(profile) + 1
    BY <1>5, <2>1, <2>2, AppendProperties
  <2>4. /\ settings' \in [version : Nat, selected : Nat]
        /\ settings'.selected \in 0..Len(profile')
    BY <1>1, <1>5, <1>6, <2>3 DEF CommitSelect, RowType
  <2> QED BY <1>1, <1>6, <2>3, <2>4 DEF CommitSelect, RowType
<1>7. ASSUME profile' = Deactivate(t), ClearSelection(t) \/ UNCHANGED settings,
             connection' \in [Providers -> Connection]
      PROVE  RowType'
  <2>1. /\ settings' \in [version : Nat, selected : Nat]
        /\ settings'.selected \in 0..Len(profile')
    BY <1>1, <1>5, <1>7 DEF RowType, ClearSelection
  <2> QED BY <1>5, <1>7, <2>1 DEF RowType
<1>8. CASE CommitConnect(t)
  <2> DEFINE c == connection[Provider(t)]
             sent == operation[t].envelope
  <2>1. [id |-> IF c.version = 0 THEN sent.id ELSE c.id, version |-> c.version + 1,
         connected |-> TRUE, catalog |-> operation[t].models,
         credentialVersion |-> sent.version, envelope |-> sent] \in Connection
    BY <1>3, <1>4 DEF Connection, Operation, Envelope
  <2>2. connection' \in [Providers -> Connection]
    BY <1>1, <1>8, <2>1 DEF CommitConnect, RowType
  <2> QED BY <1>7, <1>8, <2>2 DEF CommitConnect
<1>9. CASE CommitDisconnect(t)
  <2> DEFINE c == connection[Provider(t)]
  <2>1. [id |-> c.id, version |-> c.version + 1, connected |-> FALSE, catalog |-> {},
         credentialVersion |-> c.credentialVersion, envelope |-> NoEnvelope] \in Connection
    BY <1>4 DEF Connection, Envelope, NoEnvelope
  <2>2. connection' \in [Providers -> Connection]
    BY <1>1, <1>9, <2>1 DEF CommitDisconnect, RowType
  <2> QED BY <1>7, <1>9, <2>2 DEF CommitDisconnect
<1>10. CASE CommitRefresh(t)
  <2> DEFINE c == connection[Provider(t)]
             sent == operation[t].envelope
  <2>1. [id |-> c.id, version |-> c.version + 1, connected |-> c.connected, catalog |-> c.catalog,
         credentialVersion |-> sent.version, envelope |-> sent] \in Connection
    BY <1>3, <1>4 DEF Connection, Operation, Envelope
  <2>2. connection' \in [Providers -> Connection]
    BY <1>1, <1>10, <2>1 DEF CommitRefresh, RowType
  <2> QED BY <1>1, <1>10, <2>2 DEF CommitRefresh, RowType
<1> QED BY <1>6, <1>8, <1>9, <1>10

LEMMA NextType == TypeOK /\ [Next]_vars => TypeOK'
<1> SUFFICES ASSUME TypeOK, [Next]_vars PROVE TypeOK'
  OBVIOUS
<1>1. RowType /\ RequestType /\ BoundType
  BY TypeSplit
<1>2. ASSUME NEW t \in Requests, Open(t) PROVE TypeOK'
  <2>1. RowType' /\ BoundType'
    BY <1>1, <1>2, SettingsAssumption DEF Open, RowType, BoundType, rowVars
  <2>2. PICK kind \in {"select", "connect", "disconnect", "refresh"}, p \in Providers, ms \in SUBSET Models :
          operation' = [operation EXCEPT ![t] =
            [kind |-> kind, provider |-> p, models |-> ms, envelope |-> NoEnvelope,
             seen |-> IF kind = "select" THEN settings.version ELSE connection[p].version]]
    BY <1>2 DEF Open
  <2>3. connection[p] \in Connection
    BY <1>1 DEF RowType
  <2>4. operation'[t] \in Operation
    BY <1>1, <2>2, <2>3 DEF Operation, Envelope, NoEnvelope, RowType, RequestType, Connection
  <2>5. RequestType'
    BY <1>1, <1>2, <2>2, <2>4 DEF Open, Goto, Point, RequestType
  <2> QED BY <2>1, <2>5, TypeJoin
<1>3. ASSUME NEW t \in Requests, Rollback(t) \/ DetectDeadlock(t) PROVE TypeOK'
  <2>1. RowType' /\ BoundType' /\ Finish(t)
    BY <1>1, <1>3, SettingsAssumption DEF Rollback, DetectDeadlock, RowType, BoundType, rowVars
  <2> QED BY <1>1, <2>1, FinishType, TypeJoin
<1>4. CASE UNCHANGED vars
  BY <1>4 DEF vars, rowVars, TypeOK
<1> QED BY <1>2, <1>3, <1>4, StatementType, CommitType DEF Next, Advance

\* Type correctness of the settings, for any number of requests.
THEOREM TypeCorrect == Spec => []TypeOK
BY InitType, NextType, PTL DEF Spec

-----------------------------------------------------------------------------
(***************************************************************************)
(* Locks.                                                                  *)
(***************************************************************************)
Step(u) == Open(u) \/ Advance(u) \/ Rollback(u) \/ DetectDeadlock(u)

\* A request changes nobody else's statement, targets or locks.
LEMMA Frame ==
  ASSUME TypeOK, NEW u \in Requests, Step(u), NEW t \in Requests, t # u
  PROVE  pc'[t] = pc[t] /\ operation'[t] = operation[t] /\ targets'[t] = targets[t] /\ held'[t] = held[t]
<1> USE DEF TypeOK, Finish, Goto, Take
<1>1. CASE Open(u) \/ Rollback(u) \/ DetectDeadlock(u)
  BY <1>1 DEF Open, Rollback, DetectDeadlock
<1>2. CASE LockSettings(u) \/ LockOffer(u) \/ LockConnection(u) \/ NoConnection(u) \/ Upsert(u)
  BY <1>2 DEF LockSettings, LockOffer, LockConnection, NoConnection, Upsert, EnvelopeOf
<1>3. CASE ScanProfiles(u) \/ LockProfile(u) \/ ScanSettings(u) \/ LockSelection(u)
  BY <1>3 DEF ScanProfiles, LockProfile, ScanSettings, LockSelection
<1>4. CASE CommitSelect(u) \/ CommitConnect(u) \/ CommitDisconnect(u) \/ CommitRefresh(u)
  BY <1>4 DEF CommitSelect, CommitConnect, CommitDisconnect, CommitRefresh
<1> QED BY <1>1, <1>2, <1>3, <1>4 DEF Step, Advance

\* A request keeps its locks, drops them all, or takes one that is free.
LEMMA LockStep ==
  ASSUME TypeOK, NEW u \in Requests, Step(u)
  PROVE  held' = held \/ held'[u] = {} \/ \E l \in Lock : Take(u, l)
<1>1. CASE Open(u) \/ Rollback(u) \/ DetectDeadlock(u)
  BY <1>1 DEF Open, Rollback, DetectDeadlock, TypeOK, Finish
<1>2. CASE CommitSelect(u) \/ CommitConnect(u) \/ CommitDisconnect(u) \/ CommitRefresh(u)
  BY <1>2 DEF CommitSelect, CommitConnect, CommitDisconnect, CommitRefresh, TypeOK, Finish
<1>3. CASE LockSettings(u) \/ LockOffer(u) \/ LockConnection(u) \/ NoConnection(u) \/ Upsert(u)
  <2>1. operation[u] \in Operation
    BY <1>3 DEF TypeOK, LockSettings, LockOffer, LockConnection, NoConnection, Upsert
  <2>2. CurrentRow \in Lock /\ <<"share", Provider(u)>> \in Lock /\ <<"provider", Provider(u)>> \in Lock
    BY <2>1 DEF CurrentRow, Lock, TypeOK, Provider, Operation
  <2>3. held' = held \/ Finish(u) \/ Take(u, CurrentRow) \/ Take(u, <<"share", Provider(u)>>)
        \/ Take(u, <<"provider", Provider(u)>>)
    BY <1>3 DEF LockSettings, LockOffer, LockConnection, NoConnection, Upsert
  <2> QED BY <2>2, <2>3 DEF Finish, TypeOK
<1>4. CASE ScanProfiles(u) \/ LockProfile(u) \/ ScanSettings(u) \/ LockSelection(u)
  <2>1. held' = held \/ \E i \in targets[u] : Take(u, <<"profile", i>>) \/ Take(u, <<"settings", i>>)
    BY <1>4 DEF ScanProfiles, LockProfile, ScanSettings, LockSelection
  <2>2. \A i \in targets[u] : <<"profile", i>> \in Lock /\ <<"settings", i>> \in Lock
    BY DEF TypeOK, Lock
  <2> QED BY <2>1, <2>2
<1> QED BY <1>1, <1>2, <1>3, <1>4 DEF Step, Advance

\* Row locks exclude each other; only shared ones have several holders.
Exclusive ==
  \A t, u \in Requests : t # u =>
    /\ \A v \in Nat : <<"settings", v>> \in held[t] => <<"settings", v>> \notin held[u]
    /\ \A p \in Providers : <<"provider", p>> \in held[t] =>
         <<"provider", p>> \notin held[u] /\ <<"share", p>> \notin held[u]

LEMMA TakeExclusive ==
  ASSUME TypeOK, Exclusive, NEW u \in Requests, NEW l \in Lock, Take(u, l)
  PROVE  Exclusive'
<1>1. held' = [held EXCEPT ![u] = @ \cup {l}] /\ held \in [Requests -> SUBSET Lock]
  BY DEF Take, TypeOK
<1>2. \A t \in Requests \ {u} : ~Conflicts(l, t)
  BY DEF Take, Free
<1>3. ASSUME NEW a \in Requests, NEW b \in Requests, a # b, NEW v \in Nat,
             <<"settings", v>> \in held'[a]
      PROVE  <<"settings", v>> \notin held'[b]
  BY <1>1, <1>2, <1>3 DEF Exclusive, Conflicts
<1>4. ASSUME NEW a \in Requests, NEW b \in Requests, a # b, NEW p \in Providers,
             <<"provider", p>> \in held'[a]
      PROVE  <<"provider", p>> \notin held'[b] /\ <<"share", p>> \notin held'[b]
  <2>1. CASE a # u /\ b # u
    BY <1>1, <1>4, <2>1 DEF Exclusive
  <2>2. CASE a = u /\ l # <<"provider", p>>
    BY <1>1, <1>4, <2>2 DEF Exclusive
  <2>3. CASE a = u /\ l = <<"provider", p>>
    BY <1>1, <1>2, <1>4, <2>3 DEF Conflicts
  <2>4. CASE b = u
    <3>1. a # u /\ <<"provider", p>> \in held[a]
      BY <1>1, <1>4, <2>4
    <3>2. l # <<"provider", p>> /\ l # <<"share", p>>
      BY <1>2, <3>1 DEF Conflicts
    <3> QED BY <1>1, <1>4, <2>4, <3>1, <3>2 DEF Exclusive
  <2> QED BY <2>1, <2>2, <2>3, <2>4
<1> QED BY <1>3, <1>4 DEF Exclusive

LEMMA ExclusiveStep ==
  ASSUME TypeOK, Exclusive, NEW u \in Requests, Step(u)
  PROVE  Exclusive'
<1>1. CASE held' = held
  BY <1>1 DEF Exclusive
<1>2. CASE held'[u] = {}
  <2>1. \A t \in Requests : held'[t] \subseteq held[t]
    BY <1>2, Frame
  <2> QED BY <2>1 DEF Exclusive
<1> QED BY <1>1, <1>2, LockStep, TakeExclusive

-----------------------------------------------------------------------------
(***************************************************************************)
(* What a request holds at each of its statements, and so what cannot      *)
(* change meanwhile.                                                       *)
(***************************************************************************)
Selecting(t) == pc[t] \in {"offer", "scan", "profiles", "commit"} /\ Kind(t) = "select"
OfferLocked(t) == pc[t] \in {"scan", "profiles", "commit"} /\ Kind(t) = "select"
RowLocked(t) == pc[t] \in {"scan", "profiles", "clear", "settings", "commit"} /\ Kind(t) # "select"

Discipline ==
  \A t \in Requests :
    /\ pc[t] = "offer" => Kind(t) = "select"
    /\ pc[t] = "insert" => Kind(t) = "connect"
    /\ pc[t] \in {"scan", "profiles"} => Kind(t) # "refresh"
    /\ pc[t] \in {"clear", "settings"} => Kind(t) \in {"connect", "disconnect"}

Holding ==
  \A t \in Requests :
    /\ Selecting(t) => CurrentRow \in held[t] /\ operation[t].seen = settings.version
    /\ OfferLocked(t) =>
         /\ <<"share", Provider(t)>> \in held[t]
         /\ connection[Provider(t)].connected
         /\ operation[t].models \subseteq connection[Provider(t)].catalog
    /\ RowLocked(t) => <<"provider", Provider(t)>> \in held[t]

\* The profiles a request has locked or wants to lock: rows that exist, and of its
\* own provider unless it selects a model.
Indices ==
  \A t \in Requests :
    /\ pc[t] \in {"idle", "begin"} => held[t] = {}
    /\ \A i \in Nat : <<"profile", i>> \in held[t] \/ (pc[t] = "profiles" /\ i \in targets[t]) =>
         /\ i \in DOMAIN profile
         /\ Kind(t) # "select" => profile[i].provider = Provider(t)

LEMMA DisciplineStep ==
  ASSUME TypeOK, Discipline, NEW u \in Requests, Step(u)
  PROVE  Discipline'
<1> SUFFICES ASSUME NEW t \in Requests
             PROVE  /\ pc'[t] = "offer" => Kind(t)' = "select"
                    /\ pc'[t] = "insert" => Kind(t)' = "connect"
                    /\ pc'[t] \in {"scan", "profiles"} => Kind(t)' # "refresh"
                    /\ pc'[t] \in {"clear", "settings"} => Kind(t)' \in {"connect", "disconnect"}
  BY DEF Discipline
<1>1. CASE t # u
  BY <1>1, Frame DEF Discipline, Kind
<1>2. CASE t = u
  <2> USE <1>2 DEF TypeOK, Discipline, Kind, Goto
  <2>1. CASE pc'[u] \in {"idle", "begin"}
    BY <2>1
  <2>2. CASE LockSettings(u) \/ LockOffer(u)
    BY <2>2 DEF LockSettings, LockOffer, Finish
  <2>3. CASE LockConnection(u)
    <3>1. operation[u] \in Operation /\ Kind(u) # "select"
      BY <2>3 DEF LockConnection
    <3>2. CASE Finish(u)
      BY <3>2 DEF Finish
    <3>3. CASE Goto(u, NextOf(u)) /\ EnvelopeOf(u, connection[Provider(u)].id, connection[Provider(u)].credentialVersion + 1)
      <4>1. operation'[u].kind = operation[u].kind
        BY <3>1, <3>3 DEF EnvelopeOf, Operation
      <4>2. pc'[u] = NextOf(u)
        BY <3>3
      <4>3. operation[u].kind \in {"connect", "disconnect", "refresh"}
        BY <3>1 DEF Operation
      <4> QED BY <4>1, <4>2, <4>3 DEF NextOf
    <3> QED BY <2>3, <3>2, <3>3 DEF LockConnection
  <2>4. CASE NoConnection(u)
    <3>1. operation[u] \in Operation
      BY <2>4 DEF NoConnection
    <3>2. CASE Finish(u)
      BY <3>2 DEF Finish
    <3>3. CASE Kind(u) = "connect" /\ EnvelopeOf(u, u, 1) /\ Goto(u, "insert")
      BY <3>1, <3>3 DEF EnvelopeOf, Operation
    <3> QED BY <2>4, <3>2, <3>3 DEF NoConnection
  <2>5. CASE Upsert(u) \/ ScanProfiles(u)
    BY <2>5 DEF Upsert, ScanProfiles
  <2>6. CASE LockProfile(u)
    <3>1. operation[u] \in Operation
      BY <2>6 DEF LockProfile
    <3> QED BY <2>6, <3>1 DEF LockProfile, Operation
  <2>7. CASE ScanSettings(u) \/ LockSelection(u)
    BY <2>7 DEF ScanSettings, LockSelection
  <2>8. CASE Open(u) \/ Rollback(u) \/ DetectDeadlock(u)
    BY <2>1, <2>8 DEF Open, Rollback, DetectDeadlock, Finish
  <2>9. CASE CommitSelect(u) \/ CommitConnect(u) \/ CommitDisconnect(u) \/ CommitRefresh(u)
    BY <2>1, <2>9 DEF CommitSelect, CommitConnect, CommitDisconnect, CommitRefresh, Finish
  <2> QED BY <2>2, <2>3, <2>4, <2>5, <2>6, <2>7, <2>8, <2>9 DEF Step, Advance
<1> QED BY <1>1, <1>2

\* Who changes the settings and provider rows has them locked.
LEMMA RowsAreLocked ==
  ASSUME TypeOK, Discipline, Holding, NEW u \in Requests, Step(u)
  PROVE  /\ settings'.version # settings.version => CurrentRow \in held[u]
         /\ \A p \in Providers : connection'[p] # connection[p] => <<"provider", p>> \in held[u]
<1> USE DEF rowVars, Holding, Selecting, RowLocked
<1>1. CASE CommitSelect(u)
  BY <1>1 DEF CommitSelect
<1>2. CASE CommitConnect(u)
  BY <1>2 DEF CommitConnect, ClearSelection, TypeOK
<1>3. CASE CommitDisconnect(u)
  BY <1>3 DEF CommitDisconnect, ClearSelection, TypeOK
<1>4. CASE CommitRefresh(u)
  BY <1>4 DEF CommitRefresh, TypeOK
<1>5. CASE UNCHANGED rowVars
  BY <1>5
<1>6. \/ UNCHANGED rowVars
      \/ CommitSelect(u) \/ CommitConnect(u) \/ CommitDisconnect(u) \/ CommitRefresh(u)
  BY DEF Step, Advance, Open, Rollback, DetectDeadlock, LockSettings, LockOffer, LockConnection,
     NoConnection, Upsert, ScanProfiles, LockProfile, ScanSettings, LockSelection
<1> QED BY <1>1, <1>2, <1>3, <1>4, <1>5, <1>6

LEMMA HoldingStep ==
  ASSUME TypeOK, Discipline, Holding, Exclusive, NEW u \in Requests, Step(u)
  PROVE  Holding'
<1> SUFFICES ASSUME NEW t \in Requests
             PROVE  /\ Selecting(t)' => CurrentRow' \in held'[t] /\ operation'[t].seen = settings'.version
                    /\ OfferLocked(t)' =>
                         /\ <<"share", Provider(t)'>> \in held'[t]
                         /\ connection'[Provider(t)'].connected
                         /\ operation'[t].models \subseteq connection'[Provider(t)'].catalog
                    /\ RowLocked(t)' => <<"provider", Provider(t)'>> \in held'[t]
  BY DEF Holding, CurrentRow, Provider
<1>1. CASE t # u
  <2>1. pc'[t] = pc[t] /\ operation'[t] = operation[t] /\ held'[t] = held[t]
    BY <1>1, Frame
  <2>2. pc[t] # "idle" => Provider(t) \in Providers
    BY DEF TypeOK, Operation, Provider
  <2>3. ASSUME Selecting(t)
        PROVE  CurrentRow' = CurrentRow /\ settings'.version = settings.version
    <3>1. CurrentRow \notin held[u]
      BY <1>1, <2>3 DEF Holding, Exclusive, CurrentRow, TypeOK
    <3> QED BY <3>1, RowsAreLocked DEF CurrentRow
  <2>4. ASSUME OfferLocked(t)
        PROVE  connection'[Provider(t)] = connection[Provider(t)]
    <3>1. Provider(t) \in Providers /\ <<"share", Provider(t)>> \in held[t]
      BY <2>2, <2>4 DEF Holding, OfferLocked
    <3>2. <<"provider", Provider(t)>> \notin held[u]
      BY <1>1, <3>1 DEF Exclusive
    <3> QED BY <3>1, <3>2, RowsAreLocked
  <2>5. Kind(t)' = Kind(t) /\ Provider(t)' = Provider(t)
    BY <2>1 DEF Kind, Provider
  <2> QED BY <2>1, <2>3, <2>4, <2>5 DEF Holding, Selecting, OfferLocked, RowLocked
<1>2. CASE t = u
  <2> USE <1>2 DEF TypeOK, Kind, Provider, Goto, Selecting, OfferLocked, RowLocked
  <2>1. CASE pc'[u] \in {"idle", "begin", "insert"}
    BY <2>1
  <2>2. CASE LockSettings(u)
    <3>1. CASE Finish(u)
      BY <2>1, <3>1 DEF Finish
    <3>2. CASE operation[u].seen = settings.version /\ Take(u, CurrentRow) /\ Goto(u, "offer") /\ UNCHANGED <<operation, targets>>
      <4>1. CurrentRow \in held'[u] /\ CurrentRow' = CurrentRow /\ settings' = settings
        BY <2>2, <3>2 DEF LockSettings, Take, rowVars, CurrentRow
      <4> QED BY <2>2, <3>2, <4>1 DEF LockSettings
    <3> QED BY <2>2, <3>1, <3>2 DEF LockSettings
  <2>3. CASE LockOffer(u)
    <3>1. CASE Finish(u)
      BY <2>1, <3>1 DEF Finish
    <3>2. CASE /\ connection[Provider(u)].connected
               /\ operation[u].models \subseteq connection[Provider(u)].catalog
               /\ Take(u, <<"share", Provider(u)>>) /\ Goto(u, "scan") /\ UNCHANGED <<operation, targets>>
      <4>1. <<"share", Provider(u)>> \in held'[u] /\ held[u] \subseteq held'[u]
        BY <3>2 DEF Take
      <4>2. CurrentRow' = CurrentRow /\ settings' = settings /\ connection' = connection
        BY <2>3 DEF LockOffer, rowVars, CurrentRow
      <4>3. CurrentRow \in held[u] /\ operation[u].seen = settings.version /\ Kind(u) = "select"
        BY <2>3 DEF LockOffer, Holding, Discipline
      <4> QED BY <3>2, <4>1, <4>2, <4>3
    <3> QED BY <2>3, <3>1, <3>2 DEF LockOffer
  <2>4. CASE LockConnection(u)
    <3>1. CASE Finish(u)
      BY <2>1, <3>1 DEF Finish
    <3>2. CASE Take(u, <<"provider", Provider(u)>>) /\ EnvelopeOf(u, connection[Provider(u)].id, connection[Provider(u)].credentialVersion + 1)
      <4>1. <<"provider", Provider(u)>> \in held'[u]
        BY <3>2 DEF Take
      <4>2. operation[u] \in Operation
        BY <2>4 DEF LockConnection
      <4>3. operation'[u].provider = operation[u].provider /\ operation'[u].kind = operation[u].kind
        BY <3>2, <4>2 DEF EnvelopeOf, Operation
      <4> QED BY <2>4, <4>1, <4>3 DEF LockConnection
    <3> QED BY <2>4, <3>1, <3>2 DEF LockConnection
  <2>5. CASE Upsert(u)
    <3>1. <<"provider", Provider(u)>> \in held'[u] /\ Kind(u) = "connect"
      BY <2>5 DEF Upsert, Take, Discipline
    <3> QED BY <2>5, <3>1 DEF Upsert
  <2>6. CASE ScanProfiles(u) \/ LockProfile(u) \/ ScanSettings(u) \/ LockSelection(u)
    <3>1. held[u] \subseteq held'[u] /\ operation' = operation /\ UNCHANGED rowVars
      BY <2>6 DEF ScanProfiles, LockProfile, ScanSettings, LockSelection, Take
    <3>2. /\ Selecting(u)' => Selecting(u)
          /\ OfferLocked(u)' => OfferLocked(u)
          /\ RowLocked(u)' => RowLocked(u)
      BY <2>6, <3>1 DEF ScanProfiles, LockProfile, ScanSettings, LockSelection, Discipline
    <3>3. CurrentRow' = CurrentRow /\ settings' = settings /\ connection' = connection
      BY <3>1 DEF rowVars, CurrentRow
    <3> QED BY <3>1, <3>2, <3>3 DEF Holding
  <2>7. CASE Open(u) \/ NoConnection(u) \/ Rollback(u) \/ DetectDeadlock(u)
    BY <2>1, <2>7 DEF Open, NoConnection, Rollback, DetectDeadlock, Finish
  <2>8. CASE CommitSelect(u) \/ CommitConnect(u) \/ CommitDisconnect(u) \/ CommitRefresh(u)
    BY <2>1, <2>8 DEF CommitSelect, CommitConnect, CommitDisconnect, CommitRefresh, Finish
  <2> QED BY <2>2, <2>3, <2>4, <2>5, <2>6, <2>7, <2>8 DEF Step, Advance
<1> QED BY <1>1, <1>2

-----------------------------------------------------------------------------
(***************************************************************************)
(* Profiles: what a step does to them, and which of them a request has     *)
(* found.                                                                  *)
(***************************************************************************)
LEMMA ProfileStep ==
  ASSUME TypeOK, Discipline, NEW u \in Requests, Step(u)
  PROVE  /\ \A i \in DOMAIN profile :
              /\ i \in DOMAIN profile'
              /\ profile'[i].provider = profile[i].provider
              /\ profile'[i].model = profile[i].model
              /\ profile'[i].active => profile[i].active
         /\ \A i \in DOMAIN profile' \ DOMAIN profile :
              /\ CommitSelect(u)
              /\ i = Len(profile) + 1 /\ i = settings'.selected
              /\ profile'[i].provider = Provider(u)
              /\ profile'[i].model \in operation[u].models
<1>1. RowType
  BY TypeSplit
<1>2. /\ Deactivate(u) \in Seq(Profile) /\ Len(Deactivate(u)) = Len(profile)
      /\ DOMAIN Deactivate(u) = DOMAIN profile
      /\ \A i \in DOMAIN profile :
           /\ Deactivate(u)[i].provider = profile[i].provider
           /\ Deactivate(u)[i].model = profile[i].model
           /\ Deactivate(u)[i].active = (profile[i].active /\ i \notin Deactivated(u))
  BY <1>1, DeactivateProfiles
<1>3. DOMAIN profile = 1..Len(profile) /\ Len(profile) \in Nat
  BY <1>1, LenProperties DEF RowType
<1>4. CASE profile' = Deactivate(u)
  BY <1>2, <1>4
<1>5. CASE CommitSelect(u)
  <2>1. PICK m \in operation[u].models :
          profile' = Append(Deactivate(u), [provider |-> Provider(u), model |-> m, active |-> TRUE])
    BY <1>5 DEF CommitSelect
  <2>2. operation[u] \in Operation
    BY <1>5 DEF CommitSelect, TypeOK
  <2>3. [provider |-> Provider(u), model |-> m, active |-> TRUE] \in Profile
    BY <2>2 DEF Profile, Operation, Provider
  <2>4. /\ Len(profile') = Len(profile) + 1 /\ profile' \in Seq(Profile)
        /\ \A i \in 1..Len(profile) : profile'[i] = Deactivate(u)[i]
        /\ profile'[Len(profile) + 1] = [provider |-> Provider(u), model |-> m, active |-> TRUE]
    BY <1>2, <2>1, <2>3, AppendProperties
  <2>5. DOMAIN profile' = 1..(Len(profile) + 1)
    BY <2>4, LenProperties
  <2>6. settings'.selected = Len(profile) + 1
    BY <1>5 DEF CommitSelect
  <2>7. \A i \in DOMAIN profile : i \in DOMAIN profile' /\ profile'[i] = Deactivate(u)[i]
    BY <1>3, <2>4, <2>5
  <2>8. ASSUME NEW i \in DOMAIN profile' \ DOMAIN profile
        PROVE  /\ i = Len(profile) + 1
               /\ profile'[i].provider = Provider(u) /\ profile'[i].model = m
    <3>1. i = Len(profile) + 1
      BY <1>3, <2>5, <2>8
    <3> QED BY <2>4, <3>1
  <2> QED BY <1>2, <1>5, <2>6, <2>7, <2>8
<1>6. profile' = profile \/ profile' = Deactivate(u) \/ CommitSelect(u)
  BY DEF Step, Advance, Open, Rollback, DetectDeadlock, LockSettings, LockOffer, LockConnection,
     NoConnection, Upsert, ScanProfiles, LockProfile, ScanSettings, LockSelection, rowVars,
     CommitConnect, CommitDisconnect, CommitRefresh
<1> QED BY <1>4, <1>5, <1>6

LEMMA IndicesStep ==
  ASSUME TypeOK, Discipline, Indices, NEW u \in Requests, Step(u)
  PROVE  Indices'
<1> SUFFICES ASSUME NEW t \in Requests
             PROVE  /\ pc'[t] \in {"idle", "begin"} => held'[t] = {}
                    /\ \A i \in Nat : <<"profile", i>> \in held'[t] \/ (pc'[t] = "profiles" /\ i \in targets'[t]) =>
                         /\ i \in DOMAIN profile'
                         /\ Kind(t)' # "select" => profile'[i].provider = Provider(t)'
  BY DEF Indices, Provider
<1>1. CASE t # u
  <2>1. pc'[t] = pc[t] /\ operation'[t] = operation[t] /\ held'[t] = held[t] /\ targets'[t] = targets[t]
    BY <1>1, Frame
  <2> QED BY <2>1, ProfileStep DEF Indices, Kind, Provider
<1>2. CASE t = u
  <2> USE <1>2 DEF TypeOK, Goto
  <2>1. CASE held'[u] = {} /\ pc'[u] # "profiles"
    BY <2>1
  <2>2. CASE Open(u)
    BY <2>1, <2>2 DEF Open, Indices
  <2>3. CASE Finish(u)
    BY <2>1, <2>3 DEF Finish
  <2>4. ASSUME NEW l \in Lock, \A i \in Nat : l # <<"profile", i>>, held'[u] \subseteq held[u] \cup {l},
               profile' = profile, pc'[u] \notin {"idle", "begin", "profiles"},
               Kind(u)' = Kind(u), Provider(u)' = Provider(u)
        PROVE  /\ pc'[u] \in {"idle", "begin"} => held'[u] = {}
               /\ \A i \in Nat : <<"profile", i>> \in held'[u] \/ (pc'[u] = "profiles" /\ i \in targets'[u]) =>
                    /\ i \in DOMAIN profile'
                    /\ Kind(u)' # "select" => profile'[i].provider = Provider(u)'
    BY <2>4 DEF Indices
  <2>5. CASE LockSettings(u)
    <3>1. CurrentRow \in Lock /\ \A i \in Nat : CurrentRow # <<"profile", i>>
      BY DEF CurrentRow, Lock
    <3> QED BY <2>3, <2>4, <2>5, <3>1 DEF LockSettings, Take, rowVars, Kind, Provider
  <2>6. ASSUME pc[u] # "idle"
        PROVE  /\ <<"share", Provider(u)>> \in Lock /\ <<"provider", Provider(u)>> \in Lock
               /\ \A i \in Nat : <<"share", Provider(u)>> # <<"profile", i>> /\ <<"provider", Provider(u)>> # <<"profile", i>>
    BY <2>6 DEF Lock, Operation, Provider
  <2>7. CASE LockOffer(u) \/ Upsert(u)
    BY <2>3, <2>4, <2>6, <2>7 DEF LockOffer, Upsert, Take, rowVars, Kind, Provider
  <2>8. CASE LockConnection(u) \/ NoConnection(u)
    <3>1. operation[u] \in Operation /\ pc[u] = "begin"
      BY <2>8 DEF LockConnection, NoConnection
    <3>2. CASE Finish(u)
      BY <2>3, <3>2
    <3>3. ASSUME NEW e \in Envelope, operation' = [operation EXCEPT ![u].envelope = e],
                 held' = held \/ Take(u, <<"provider", Provider(u)>>), pc'[u] \in {"insert", "scan", "commit"},
                 UNCHANGED rowVars
          PROVE  /\ pc'[u] \in {"idle", "begin"} => held'[u] = {}
                 /\ \A i \in Nat : <<"profile", i>> \in held'[u] \/ (pc'[u] = "profiles" /\ i \in targets'[u]) =>
                      /\ i \in DOMAIN profile'
                      /\ Kind(u)' # "select" => profile'[i].provider = Provider(u)'
      <4>1. Kind(u)' = Kind(u) /\ Provider(u)' = Provider(u)
        BY <3>1, <3>3 DEF Kind, Provider, Operation
      <4>2. held'[u] \subseteq held[u] \cup {<<"provider", Provider(u)>>}
        BY <3>3 DEF Take
      <4> QED BY <2>4, <2>6, <3>1, <3>3, <4>1, <4>2 DEF rowVars
    <3>4. CASE NoConnection(u)
      <4>1. [id |-> u, version |-> 1] \in Envelope
        BY DEF Envelope
      <4> QED BY <3>2, <3>3, <3>4, <4>1 DEF NoConnection, EnvelopeOf
    <3>5. CASE LockConnection(u)
      <4>1. connection[Provider(u)] \in Connection
        BY <3>1 DEF Operation, Provider
      <4>2. [id |-> connection[Provider(u)].id, version |-> connection[Provider(u)].credentialVersion + 1] \in Envelope
        BY <4>1 DEF Connection, Envelope
      <4>3. Goto(u, NextOf(u)) /\ Kind(u) # "select" => pc'[u] \in {"insert", "scan", "commit"}
        BY <3>1 DEF NextOf, Kind, Operation
      <4> QED BY <3>2, <3>3, <3>5, <4>2, <4>3 DEF LockConnection, EnvelopeOf
    <3> QED BY <2>8, <3>4, <3>5
  <2>9. CASE ScanProfiles(u)
    BY <2>9 DEF ScanProfiles, rowVars, Indices, Kind, Provider
  <2>10. CASE LockProfile(u)
    <3>1. held'[u] \subseteq held[u] \cup {<<"profile", i>> : i \in targets[u]} /\ pc[u] = "profiles"
      <4>1. held' = held \/ \E i \in targets[u] : held'[u] = held[u] \cup {<<"profile", i>>}
        BY <2>10 DEF LockProfile, Take
      <4> QED BY <2>10, <4>1 DEF LockProfile
    <3>2. targets'[u] \subseteq targets[u] /\ profile' = profile /\ operation' = operation /\ pc'[u] \notin {"idle", "begin"}
      BY <2>10 DEF LockProfile, rowVars
    <3> QED BY <3>1, <3>2 DEF Indices, Kind, Provider
  <2>11. CASE ScanSettings(u) \/ LockSelection(u)
    <3>1. held'[u] \subseteq held[u] \cup {<<"settings", i>> : i \in Nat} /\ pc[u] \in {"clear", "settings"}
      <4>1. held' = held \/ \E i \in targets[u] : held'[u] = held[u] \cup {<<"settings", i>>}
        BY <2>11 DEF ScanSettings, LockSelection, Take
      <4>2. targets[u] \subseteq Nat
        OBVIOUS
      <4> QED BY <2>11, <4>1, <4>2 DEF ScanSettings, LockSelection
    <3>2. profile' = profile /\ operation' = operation /\ pc'[u] \in {"settings", "commit"}
      BY <2>11 DEF ScanSettings, LockSelection, rowVars
    <3> QED BY <3>1, <3>2 DEF Indices, Kind, Provider
  <2>12. CASE Rollback(u) \/ DetectDeadlock(u) \/ CommitSelect(u) \/ CommitConnect(u) \/ CommitDisconnect(u) \/ CommitRefresh(u)
    BY <2>3, <2>12 DEF Rollback, DetectDeadlock, CommitSelect, CommitConnect, CommitDisconnect, CommitRefresh
  <2> QED BY <2>2, <2>5, <2>7, <2>8, <2>9, <2>10, <2>11, <2>12 DEF Step, Advance
<1> QED BY <1>1, <1>2

-----------------------------------------------------------------------------
(***************************************************************************)
(* The active profile.  A request that is past its scan has locked, or is  *)
(* about to lock, every profile its statement must deactivate; one that is *)
(* past the scan of the settings has locked, or is about to lock, the row  *)
(* that names a profile it drops.                                          *)
(***************************************************************************)
Concerns(t, i) == profile[i].active /\ (Kind(t) # "select" => profile[i].provider = Provider(t))

Covered ==
  \A t \in Requests : \A i \in DOMAIN profile :
    /\ pc[t] = "profiles" /\ Concerns(t, i) => i \in targets[t] \/ <<"profile", i>> \in held[t]
    /\ pc[t] \in {"clear", "settings", "commit"} /\ Kind(t) # "refresh" /\ Concerns(t, i) =>
         <<"profile", i>> \in held[t]

Clears(t) == Kind(t) \in {"connect", "disconnect"} /\ settings.selected \in Dropped(t)

Clearing ==
  \A t \in Requests :
    /\ pc[t] = "settings" /\ Clears(t) => settings.version \in targets[t] \/ CurrentRow \in held[t]
    /\ pc[t] = "commit" /\ Clears(t) => CurrentRow \in held[t]

\* The inductive invariant.
Inv ==
  /\ TypeOK /\ Exclusive /\ Discipline /\ Holding /\ Indices
  /\ Covered /\ Clearing /\ ActiveIsSelected /\ SelectedIsOffered

\* A transaction that selects a model excludes another one, and one on its provider.
LEMMA SelectExcludes ==
  ASSUME TypeOK, Exclusive, Holding, NEW u \in Requests, CommitSelect(u),
         NEW t \in Requests, t # u
  PROVE  ~Selecting(t) /\ (RowLocked(t) => Provider(t) # Provider(u))
<1>1. Selecting(u) /\ OfferLocked(u)
  BY DEF CommitSelect, Selecting, OfferLocked
<1>2. operation[u] \in Operation /\ settings.version \in Nat
  BY DEF CommitSelect, TypeOK
<1>3. Provider(u) \in Providers
  BY <1>2 DEF Operation, Provider
<1>4. ~Selecting(t)
  BY <1>1, <1>2 DEF Holding, Exclusive, CurrentRow
<1>5. RowLocked(t) => Provider(t) # Provider(u)
  BY <1>1, <1>3 DEF Holding, Exclusive
<1> QED BY <1>4, <1>5

LEMMA CoveredStep ==
  ASSUME TypeOK, Exclusive, Discipline, Holding, Covered, NEW u \in Requests, Step(u)
  PROVE  Covered'
<1> DEFINE Found(t) == pc[t] \in {"clear", "settings", "commit"} /\ Kind(t) # "refresh"
<1> SUFFICES ASSUME NEW t \in Requests, NEW i \in DOMAIN profile'
             PROVE  /\ pc'[t] = "profiles" /\ Concerns(t, i)' => i \in targets'[t] \/ <<"profile", i>> \in held'[t]
                    /\ Found(t)' /\ Concerns(t, i)' => <<"profile", i>> \in held'[t]
  BY DEF Covered, Concerns
<1>1. ASSUME i \in DOMAIN profile, Kind(t)' = Kind(t), Provider(t)' = Provider(t), Concerns(t, i)'
      PROVE  Concerns(t, i)
  BY <1>1, ProfileStep DEF Concerns
<1>2. CASE t # u
  <2>1. pc'[t] = pc[t] /\ operation'[t] = operation[t] /\ held'[t] = held[t] /\ targets'[t] = targets[t]
    BY <1>2, Frame
  <2>2. Kind(t)' = Kind(t) /\ Provider(t)' = Provider(t)
    BY <2>1 DEF Kind, Provider
  <2>3. ASSUME i \notin DOMAIN profile, Concerns(t, i)', pc[t] = "profiles" \/ Found(t)
        PROVE  FALSE
    <3>1. CommitSelect(u) /\ profile'[i].provider = Provider(u)
      BY <2>3, ProfileStep
    <3>2. ~Selecting(t) /\ (RowLocked(t) => Provider(t) # Provider(u))
      BY <1>2, <3>1, SelectExcludes
    <3>3. Kind(t) # "select"
      BY <2>3, <3>2 DEF Selecting, Discipline
    <3>4. RowLocked(t)
      BY <2>3, <3>3 DEF RowLocked
    <3> QED BY <2>2, <2>3, <3>1, <3>2, <3>3, <3>4 DEF Concerns
  <2> QED BY <1>1, <2>1, <2>2, <2>3 DEF Covered
<1>3. CASE t = u
  <2> USE <1>3 DEF TypeOK, Goto
  <2>1. CASE pc'[u] \notin {"profiles", "clear", "settings", "commit"}
    BY <2>1
  <2>2. CASE \/ Finish(u)
             \/ Open(u) \/ Upsert(u) \/ LockSettings(u) \/ LockOffer(u) \/ NoConnection(u)
             \/ Rollback(u) \/ DetectDeadlock(u)
             \/ CommitSelect(u) \/ CommitConnect(u) \/ CommitDisconnect(u) \/ CommitRefresh(u)
    BY <2>1, <2>2 DEF Finish, Open, Upsert, LockSettings, LockOffer, NoConnection, Rollback, DetectDeadlock,
       CommitSelect, CommitConnect, CommitDisconnect, CommitRefresh
  <2>3. CASE LockConnection(u)
    <3>1. CASE Finish(u)
      BY <2>2, <3>1
    <3>2. CASE Goto(u, NextOf(u)) /\ EnvelopeOf(u, connection[Provider(u)].id, connection[Provider(u)].credentialVersion + 1)
      <4>1. operation[u] \in Operation /\ Kind(u) # "select"
        BY <2>3 DEF LockConnection
      <4>2. operation'[u].kind = operation[u].kind
        BY <3>2, <4>1 DEF EnvelopeOf, Operation
      <4>3. pc'[u] = NextOf(u) /\ Kind(u)' = Kind(u)
        BY <3>2, <4>2 DEF Kind
      <4> QED BY <4>1, <4>3 DEF NextOf, Kind, Operation
    <3> QED BY <2>3, <3>1, <3>2 DEF LockConnection
  <2>4. ASSUME profile' = profile, operation' = operation
        PROVE  i \in DOMAIN profile /\ Kind(t)' = Kind(t) /\ Provider(t)' = Provider(t)
    BY <2>4 DEF Kind, Provider
  <2>5. CASE ScanProfiles(u)
    <3>1. profile' = profile /\ operation' = operation /\ pc'[u] = "profiles"
      BY <2>5 DEF ScanProfiles, rowVars
    <3>2. Concerns(u, i)' => Concerns(u, i)
      BY <1>1, <2>4, <3>1
    <3>3. Concerns(u, i) => i \in targets'[u]
      BY <2>4, <2>5, <3>1 DEF ScanProfiles, Concerns
    <3> QED BY <3>1, <3>2, <3>3
  <2>6. CASE LockProfile(u)
    <3>1. profile' = profile /\ operation' = operation /\ pc[u] = "profiles"
      BY <2>6 DEF LockProfile, rowVars
    <3>2. Concerns(u, i)' => i \in targets[u] \/ <<"profile", i>> \in held[u]
      BY <1>1, <2>4, <3>1 DEF Covered
    <3>3. ASSUME NEW j \in targets[u], Take(u, <<"profile", j>>), targets' = [targets EXCEPT ![u] = @ \ {j}], UNCHANGED pc
          PROVE  Concerns(u, i)' => i \in targets'[u] \/ <<"profile", i>> \in held'[u]
      BY <3>2, <3>3 DEF Take
    <3> QED BY <2>6, <3>1, <3>2, <3>3 DEF LockProfile
  <2>7. CASE ScanSettings(u) \/ LockSelection(u)
    <3>1. /\ profile' = profile /\ operation' = operation
          /\ pc[u] \in {"clear", "settings"} /\ pc'[u] \in {"settings", "commit"}
      BY <2>7 DEF ScanSettings, LockSelection, rowVars
    <3>2. held[u] \subseteq held'[u]
      BY <2>7 DEF ScanSettings, LockSelection, Take
    <3>3. Concerns(u, i)' /\ Found(u)' => <<"profile", i>> \in held[u]
      BY <1>1, <2>4, <3>1 DEF Covered
    <3> QED BY <3>1, <3>2, <3>3
  <2> QED BY <2>2, <2>3, <2>5, <2>6, <2>7 DEF Step, Advance
<1> QED BY <1>2, <1>3

\* Any other step leaves the version of the settings, and at most clears the selection.
LEMMA SettingsStep ==
  ASSUME TypeOK, NEW u \in Requests, Step(u), ~CommitSelect(u)
  PROVE  settings'.version = settings.version /\ settings'.selected \in {settings.selected, 0}
<1>1. settings' = settings \/ ClearSelection(u)
  BY DEF Step, Advance, Open, Rollback, DetectDeadlock, LockSettings, LockOffer, LockConnection,
     NoConnection, Upsert, ScanProfiles, LockProfile, ScanSettings, LockSelection, rowVars,
     CommitConnect, CommitDisconnect, CommitRefresh
<1> QED BY <1>1 DEF ClearSelection, TypeOK

\* A step drops no profile for a request that goes on.
LEMMA DroppedStep ==
  ASSUME TypeOK, Discipline, Holding, Exclusive, Indices, NEW u \in Requests, Step(u), NEW t \in Requests,
         RowLocked(t), t = u => ~CommitSelect(u),
         Kind(t)' = Kind(t), Provider(t)' = Provider(t), operation'[t].models = operation[t].models,
         \A i \in Nat : <<"profile", i>> \in held'[t] => <<"profile", i>> \in held[t]
  PROVE  Dropped(t)' \subseteq Dropped(t)
<1>1. DOMAIN profile' \subseteq Nat
  <2>1. TypeOK'
    BY NextType DEF Next, Step
  <2> QED BY <2>1, LenProperties DEF TypeOK
<1>2. Deactivated(t)' \subseteq Deactivated(t)
  <2>1. ASSUME NEW i \in Deactivated(t)'
        PROVE  i \in Deactivated(t)
    <3>1. /\ i \in DOMAIN profile' /\ <<"profile", i>> \in held[t] /\ profile'[i].active
          /\ Kind(t) = "connect" => profile'[i].model \notin operation[t].models
      BY <1>1, <2>1 DEF Deactivated
    <3>2. i \in DOMAIN profile
      BY <1>1, <3>1 DEF Indices
    <3> QED BY <3>1, <3>2, ProfileStep DEF Deactivated
  <2> QED BY <2>1
<1>3. ASSUME NEW i \in DOMAIN profile', profile'[i].provider = Provider(t)
      PROVE  i \in DOMAIN profile /\ profile[i].provider = Provider(t)
  <2>1. CASE i \in DOMAIN profile
    BY <1>3, <2>1, ProfileStep
  <2>2. CASE i \notin DOMAIN profile
    <3>1. CommitSelect(u) /\ profile'[i].provider = Provider(u)
      BY <2>2, ProfileStep
    <3> QED BY <1>3, <3>1, SelectExcludes
  <2> QED BY <2>1, <2>2
<1> QED BY <1>2, <1>3 DEF Dropped

LEMMA ClearingStep ==
  ASSUME TypeOK, Exclusive, Discipline, Holding, Indices, Clearing, NEW u \in Requests, Step(u)
  PROVE  Clearing'
<1> SUFFICES ASSUME NEW t \in Requests, Clears(t)'
             PROVE  /\ pc'[t] = "settings" => settings'.version \in targets'[t] \/ CurrentRow' \in held'[t]
                    /\ pc'[t] = "commit" => CurrentRow' \in held'[t]
  BY DEF Clearing
<1>1. Dropped(t)' \subseteq DOMAIN profile'
  BY DEF Dropped, Deactivated
<1>2. TypeOK'
  BY NextType DEF Next, Step
<1>3. DOMAIN profile' = 1..Len(profile') /\ DOMAIN profile = 1..Len(profile) /\ Len(profile) \in Nat
  BY <1>2, LenProperties DEF TypeOK
<1>4. ASSUME ~CommitSelect(u)
      PROVE  /\ settings'.version = settings.version /\ settings'.selected = settings.selected
             /\ CurrentRow' = CurrentRow
  <2>1. settings'.selected # 0
    BY <1>1, <1>3 DEF Clears
  <2> QED BY <1>4, <2>1, SettingsStep DEF CurrentRow
<1>5. ASSUME Dropped(t)' \subseteq Dropped(t), Kind(t)' = Kind(t), ~CommitSelect(u)
      PROVE  Clears(t)
  BY <1>4, <1>5 DEF Clears
<1>6. CASE t # u
  <2>1. pc'[t] = pc[t] /\ operation'[t] = operation[t] /\ held'[t] = held[t] /\ targets'[t] = targets[t]
    BY <1>6, Frame
  <2>2. Kind(t)' = Kind(t) /\ Provider(t)' = Provider(t)
    BY <2>1 DEF Kind, Provider
  <2> SUFFICES ASSUME pc[t] \in {"settings", "commit"}
               PROVE  Clears(t) /\ settings'.version = settings.version /\ CurrentRow' = CurrentRow
    BY <2>1 DEF Clearing
  <2>3. RowLocked(t)
    BY <2>2 DEF RowLocked, Clears
  <2>4. Dropped(t)' \subseteq Dropped(t)
    BY <1>6, <2>1, <2>2, <2>3, DroppedStep
  <2>5. ~CommitSelect(u)
    <3>1. SUFFICES ASSUME CommitSelect(u) PROVE FALSE
      OBVIOUS
    <3>2. settings'.selected = Len(profile) + 1
      BY <3>1 DEF CommitSelect
    <3>3. Dropped(t) \subseteq DOMAIN profile
      BY DEF Dropped, Deactivated
    <3> QED BY <1>3, <2>4, <3>2, <3>3 DEF Clears
  <2> QED BY <1>4, <1>5, <2>2, <2>4, <2>5
<1>7. CASE t = u
  <2> USE <1>7 DEF TypeOK, Goto
  <2>1. CASE pc'[u] \notin {"settings", "commit"}
    BY <2>1
  <2>2. CASE \/ Finish(u)
             \/ Open(u) \/ Upsert(u) \/ LockSettings(u) \/ LockOffer(u) \/ NoConnection(u)
             \/ ScanProfiles(u) \/ Rollback(u) \/ DetectDeadlock(u)
             \/ CommitSelect(u) \/ CommitConnect(u) \/ CommitDisconnect(u) \/ CommitRefresh(u)
    BY <2>1, <2>2 DEF Finish, Open, Upsert, LockSettings, LockOffer, NoConnection, ScanProfiles, Rollback,
       DetectDeadlock, CommitSelect, CommitConnect, CommitDisconnect, CommitRefresh
  <2>3. CASE LockConnection(u)
    <3>1. CASE Finish(u)
      BY <2>2, <3>1
    <3>2. CASE Goto(u, NextOf(u)) /\ EnvelopeOf(u, connection[Provider(u)].id, connection[Provider(u)].credentialVersion + 1)
      <4>1. operation[u] \in Operation /\ Kind(u) # "select"
        BY <2>3 DEF LockConnection
      <4>2. operation'[u].kind = operation[u].kind
        BY <3>2, <4>1 DEF EnvelopeOf, Operation
      <4>3. pc'[u] = NextOf(u) /\ Kind(u)' = Kind(u)
        BY <3>2, <4>2 DEF Kind
      <4> QED BY <4>1, <4>3 DEF NextOf, Kind, Operation, Clears
    <3> QED BY <2>3, <3>1, <3>2 DEF LockConnection
  <2>4. CASE LockProfile(u)
    <3>1. Kind(u)' = Kind(u) /\ (pc'[u] = "profiles" \/ pc'[u] = IF Kind(u) = "select" THEN "commit" ELSE "clear")
      BY <2>4 DEF LockProfile, Kind
    <3> QED BY <3>1 DEF Clears
  <2>5. CASE ScanSettings(u)
    <3>1. /\ targets'[u] = IF settings.selected \in Dropped(u) THEN {settings.version} ELSE {}
          /\ pc'[u] = "settings" /\ settings' = settings
      BY <2>5 DEF ScanSettings, rowVars
    <3>2. Dropped(u)' = Dropped(u)
      BY <2>5 DEF ScanSettings, rowVars, Dropped, Deactivated, Kind, Provider
    <3> QED BY <3>1, <3>2 DEF Clears
  <2>6. CASE LockSelection(u)
    <3>1. /\ pc[u] = "settings" /\ operation' = operation /\ ~CommitSelect(u)
          /\ Kind(u)' = Kind(u) /\ Provider(u)' = Provider(u) /\ Kind(u) # "select"
      BY <2>6 DEF LockSelection, CommitSelect, Discipline, Kind, Provider
    <3>2. \A i \in Nat : <<"profile", i>> \in held'[u] => <<"profile", i>> \in held[u]
      <4>1. held' = held \/ \E v \in targets[u] : held'[u] = held[u] \cup {<<"settings", v>>}
        BY <2>6 DEF LockSelection, Take
      <4> QED BY <4>1
    <3>3. Dropped(u)' \subseteq Dropped(u)
      BY <3>1, <3>2, DroppedStep DEF RowLocked
    <3>4. settings.version \in targets[u] \/ CurrentRow \in held[u]
      BY <1>5, <3>1, <3>3 DEF Clearing
    <3>5. CASE targets[u] = {} /\ UNCHANGED <<targets, held>>
      BY <1>4, <3>1, <3>4, <3>5
    <3>6. ASSUME NEW v \in targets[u], Take(u, <<"settings", v>>), targets' = [targets EXCEPT ![u] = @ \ {v}], UNCHANGED pc
          PROVE  settings'.version \in targets'[u] \/ CurrentRow' \in held'[u]
      BY <1>4, <3>1, <3>4, <3>6 DEF Take, CurrentRow
    <3> QED BY <2>6, <3>1, <3>5, <3>6 DEF LockSelection
  <2> QED BY <2>2, <2>3, <2>4, <2>5, <2>6 DEF Step, Advance
<1> QED BY <1>6, <1>7

-----------------------------------------------------------------------------
(***************************************************************************)
(* What the commits leave behind.                                          *)
(***************************************************************************)

\* Connecting or disconnecting deactivates the selected profile exactly when it
\* stops naming it, and no other one.
LEMMA DropsSelected ==
  ASSUME TypeOK, Indices, Covered, Clearing, ActiveIsSelected,
         NEW u \in Requests, CommitConnect(u) \/ CommitDisconnect(u)
  PROVE  /\ profile' = Deactivate(u)
         /\ Deactivated(u) = {settings.selected} \cap Dropped(u)
         /\ settings'.selected = IF settings.selected \in Dropped(u) THEN 0 ELSE settings.selected
<1>1. /\ pc[u] = "commit" /\ Kind(u) \in {"connect", "disconnect"}
      /\ profile' = Deactivate(u) /\ ClearSelection(u)
  BY DEF CommitConnect, CommitDisconnect
<1>2. settings'.selected = IF settings.selected \in Dropped(u) THEN 0 ELSE settings.selected
  <2>1. settings.selected \in Dropped(u) => CurrentRow \in held[u]
    BY <1>1 DEF Clearing, Clears
  <2> QED BY <1>1, <2>1 DEF ClearSelection, TypeOK
<1>3. \A i \in DOMAIN profile : i \in Nat \ {0}
  BY LenProperties DEF TypeOK
<1>4. Deactivated(u) \subseteq {settings.selected}
  BY DEF Deactivated, ActiveIsSelected
<1>5. Deactivated(u) \subseteq Dropped(u)
  BY <1>1, <1>3 DEF Dropped, Deactivated, Indices
<1>6. ASSUME settings.selected \in Dropped(u)
      PROVE  settings.selected \in Deactivated(u)
  <2>1. CASE Kind(u) = "connect"
    BY <1>6, <2>1 DEF Dropped
  <2>2. CASE Kind(u) = "disconnect"
    <3>1. settings.selected \in DOMAIN profile /\ profile[settings.selected].provider = Provider(u)
      BY <1>6, <2>2 DEF Dropped
    <3>2. profile[settings.selected].active
      BY <1>3, <3>1 DEF ActiveIsSelected
    <3>3. <<"profile", settings.selected>> \in held[u]
      BY <1>1, <3>1, <3>2 DEF Covered, Concerns
    <3> QED BY <2>2, <3>1, <3>2, <3>3 DEF Deactivated
  <2> QED BY <1>1, <2>1, <2>2
<1> QED BY <1>1, <1>2, <1>4, <1>5, <1>6

\* Selecting deactivates every active profile, and selects the one it adds.
LEMMA SelectsAdded ==
  ASSUME TypeOK, Indices, Covered, NEW u \in Requests, CommitSelect(u)
  PROVE  /\ DOMAIN profile' = DOMAIN profile \cup {settings'.selected}
         /\ settings'.selected \in Nat \ {0}
         /\ \A i \in DOMAIN profile : ~profile'[i].active
         /\ profile'[settings'.selected].active
         /\ profile'[settings'.selected].provider = Provider(u)
         /\ profile'[settings'.selected].model \in operation[u].models
<1>1. RowType
  BY TypeSplit
<1>2. PICK m \in operation[u].models :
        profile' = Append(Deactivate(u), [provider |-> Provider(u), model |-> m, active |-> TRUE])
  BY DEF CommitSelect
<1>3. operation[u] \in Operation /\ pc[u] = "commit" /\ Kind(u) = "select"
  BY DEF CommitSelect, TypeOK
<1>4. [provider |-> Provider(u), model |-> m, active |-> TRUE] \in Profile
  BY <1>3 DEF Profile, Operation, Provider
<1>5. Deactivate(u) \in Seq(Profile) /\ Len(Deactivate(u)) = Len(profile)
  BY <1>1, DeactivateProfiles
<1>6. DOMAIN profile = 1..Len(profile) /\ Len(profile) \in Nat
  BY <1>1, LenProperties DEF RowType
<1>7. /\ Len(profile') = Len(profile) + 1 /\ profile' \in Seq(Profile)
      /\ \A i \in 1..Len(profile) : profile'[i] = Deactivate(u)[i]
      /\ profile'[Len(profile) + 1] = [provider |-> Provider(u), model |-> m, active |-> TRUE]
  BY <1>2, <1>4, <1>5, AppendProperties
<1>8. DOMAIN profile' = 1..(Len(profile) + 1)
  BY <1>7, LenProperties
<1>9. settings'.selected = Len(profile) + 1
  BY DEF CommitSelect
<1>10. DOMAIN profile' = DOMAIN profile \cup {settings'.selected} /\ settings'.selected \in Nat \ {0}
  BY <1>6, <1>8, <1>9
<1>11. ASSUME NEW i \in DOMAIN profile PROVE ~profile'[i].active
  <2>1. profile'[i].active = (profile[i].active /\ i \notin Deactivated(u))
    BY <1>1, <1>6, <1>7, DeactivateProfiles
  <2>2. profile[i].active => i \in Deactivated(u)
    BY <1>3 DEF Covered, Concerns, Deactivated
  <2> QED BY <2>1, <2>2
<1> QED BY <1>7, <1>9, <1>10, <1>11

LEMMA OtherCommits ==
  ASSUME NEW u \in Requests, Step(u)
  PROVE  CommitSelect(u) \/ CommitConnect(u) \/ CommitDisconnect(u) \/ CommitRefresh(u) \/ UNCHANGED rowVars
BY DEF Step, Advance, Open, Rollback, DetectDeadlock, LockSettings, LockOffer, LockConnection,
   NoConnection, Upsert, ScanProfiles, LockProfile, ScanSettings, LockSelection

LEMMA ActiveStep ==
  ASSUME TypeOK, Indices, Covered, Clearing, ActiveIsSelected, NEW u \in Requests, Step(u)
  PROVE  ActiveIsSelected'
<1>1. CASE CommitSelect(u)
  <2>1. {i \in DOMAIN profile' : profile'[i].active} = {settings'.selected}
    BY <1>1, SelectsAdded
  <2> QED BY <1>1, <2>1, SelectsAdded DEF ActiveIsSelected
<1>2. CASE CommitConnect(u) \/ CommitDisconnect(u)
  <2>1. /\ DOMAIN profile' = DOMAIN profile
        /\ \A i \in DOMAIN profile : profile'[i].active = (profile[i].active /\ i \notin Deactivated(u))
    BY <1>2, DropsSelected, DeactivateProfiles, TypeSplit
  <2>2. {i \in DOMAIN profile' : profile'[i].active} = {i \in DOMAIN profile : profile[i].active} \ Deactivated(u)
    BY <2>1
  <2>3. {i \in DOMAIN profile' : profile'[i].active} = ({settings.selected} \ {0}) \ ({settings.selected} \cap Dropped(u))
    BY <1>2, <2>2, DropsSelected DEF ActiveIsSelected
  <2>4. 0 \notin Dropped(u)
    BY LenProperties DEF TypeOK, Dropped, Deactivated
  <2> QED BY <1>2, <2>3, <2>4, DropsSelected DEF ActiveIsSelected
<1>3. CASE CommitRefresh(u) \/ UNCHANGED rowVars
  BY <1>3 DEF CommitRefresh, rowVars, ActiveIsSelected
<1> QED BY <1>1, <1>2, <1>3, OtherCommits

LEMMA SelectedStep ==
  ASSUME TypeOK, Discipline, Holding, Indices, Covered, Clearing, ActiveIsSelected, SelectedIsOffered,
         NEW u \in Requests, Step(u)
  PROVE  SelectedIsOffered'
<1>1. CASE CommitSelect(u)
  <2>1. OfferLocked(u) /\ connection' = connection
    BY <1>1 DEF CommitSelect, OfferLocked
  <2>2. /\ profile'[settings'.selected].provider = Provider(u)
        /\ profile'[settings'.selected].model \in operation[u].models
    BY <1>1, SelectsAdded
  <2> QED BY <2>1, <2>2 DEF Holding, SelectedIsOffered
<1>2. CASE CommitConnect(u) \/ CommitDisconnect(u)
  <2> SUFFICES ASSUME settings'.selected # 0
               PROVE  LET chosen == profile'[settings'.selected]
                      IN /\ connection'[chosen.provider].connected
                         /\ chosen.model \in connection'[chosen.provider].catalog
    BY DEF SelectedIsOffered
  <2> DEFINE s == settings.selected
  <2>1. settings'.selected = s /\ s \notin Dropped(u) /\ s \in DOMAIN profile
    <3>1. settings'.selected = s /\ s \notin Dropped(u)
      BY <1>2, DropsSelected
    <3> QED BY <3>1, LenProperties DEF TypeOK
  <2>2. profile'[s].provider = profile[s].provider /\ profile'[s].model = profile[s].model
    BY <2>1, ProfileStep
  <2>3. profile[s] \in Profile
    BY <2>1, ElementOfSeq, LenProperties DEF TypeOK
  <2>4. connection[profile[s].provider].connected /\ profile[s].model \in connection[profile[s].provider].catalog
    BY <2>1 DEF SelectedIsOffered
  <2>5. CASE profile[s].provider # Provider(u)
    <3>1. connection'[profile[s].provider] = connection[profile[s].provider]
      BY <1>2, <2>3, <2>5 DEF CommitConnect, CommitDisconnect, TypeOK, Profile
    <3> QED BY <2>1, <2>2, <2>4, <3>1
  <2>6. CASE profile[s].provider = Provider(u)
    <3>1. CommitConnect(u)
      BY <1>2, <2>1, <2>6 DEF CommitDisconnect, Dropped
    <3>2. profile[s].active
      BY <2>1 DEF ActiveIsSelected
    <3>3. profile[s].model \in operation[u].models
      <4>1. <<"profile", s>> \in held[u]
        BY <2>1, <2>6, <3>1, <3>2 DEF CommitConnect, Covered, Concerns
      <4> QED BY <2>1, <3>1, <3>2, <4>1 DEF CommitConnect, Dropped, Deactivated
    <3>4. connection'[Provider(u)].connected /\ connection'[Provider(u)].catalog = operation[u].models
      BY <2>3, <2>6, <3>1 DEF CommitConnect, TypeOK, Profile
    <3> QED BY <2>1, <2>2, <2>6, <3>3, <3>4
  <2> QED BY <2>5, <2>6
<1>3. CASE CommitRefresh(u)
  <2>1. \A p \in Providers : connection'[p].connected = connection[p].connected /\ connection'[p].catalog = connection[p].catalog
    BY <1>3 DEF CommitRefresh, TypeOK, Connection
  <2>2. ASSUME settings.selected # 0
        PROVE  profile[settings.selected].provider \in Providers
    <3>1. settings.selected \in 1..Len(profile)
      BY <2>2, LenProperties DEF TypeOK
    <3>2. profile \in Seq(Profile)
      BY DEF TypeOK
    <3>3. profile[settings.selected] \in Profile
      BY <3>1, <3>2, ElementOfSeq
    <3> QED BY <3>3 DEF Profile
  <2>3. settings' = settings /\ profile' = profile
    BY <1>3 DEF CommitRefresh
  <2> QED BY <2>1, <2>2, <2>3 DEF SelectedIsOffered
<1>4. CASE UNCHANGED rowVars
  BY <1>4 DEF rowVars, SelectedIsOffered
<1> QED BY <1>1, <1>2, <1>3, <1>4, OtherCommits

-----------------------------------------------------------------------------
(***************************************************************************)
(* The theorems.                                                           *)
(***************************************************************************)
LEMMA InvInit == Init => Inv
<1> SUFFICES ASSUME Init PROVE Inv
  OBVIOUS
<1>1. TypeOK /\ profile = <<>> /\ settings.selected = 0
  BY InitType DEF Init
<1>2. DOMAIN profile = {}
  BY <1>1, EmptySeq, LenProperties DEF TypeOK
<1>3. \A t \in Requests : pc[t] = "idle" /\ held[t] = {}
  BY DEF Init
<1>4. Exclusive /\ Discipline /\ Indices
  BY <1>3 DEF Exclusive, Discipline, Indices
<1>5. Holding /\ Covered /\ Clearing
  BY <1>2, <1>3 DEF Holding, Selecting, OfferLocked, RowLocked, Covered, Clearing
<1>6. ActiveIsSelected /\ SelectedIsOffered
  BY <1>1, <1>2 DEF ActiveIsSelected, SelectedIsOffered
<1> QED BY <1>1, <1>4, <1>5, <1>6 DEF Inv

LEMMA InvNext == Inv /\ [Next]_vars => Inv'
<1> SUFFICES ASSUME Inv, [Next]_vars PROVE Inv'
  OBVIOUS
<1>1. ASSUME NEW u \in Requests, Step(u) PROVE Inv'
  <2> USE <1>1 DEF Inv
  <2>1. TypeOK'
    BY NextType
  <2>2. Exclusive' /\ Discipline'
    BY ExclusiveStep, DisciplineStep
  <2>3. Holding' /\ Indices'
    BY HoldingStep, IndicesStep
  <2>4. Covered' /\ Clearing'
    BY CoveredStep, ClearingStep
  <2>5. ActiveIsSelected' /\ SelectedIsOffered'
    BY ActiveStep, SelectedStep
  <2> QED BY <2>1, <2>2, <2>3, <2>4, <2>5
<1>2. CASE UNCHANGED vars
  <2> USE <1>2 DEF vars, rowVars, Inv
  <2>1. TypeOK'
    BY NextType
  <2>2. Exclusive' /\ Discipline' /\ Indices'
    BY DEF Exclusive, Discipline, Indices, Kind, Provider
  <2>3. Holding'
    BY DEF Holding, Selecting, OfferLocked, RowLocked, CurrentRow, Kind, Provider
  <2>4. Covered' /\ Clearing'
    BY DEF Covered, Concerns, Clearing, Clears, Dropped, Deactivated, CurrentRow, Kind, Provider
  <2>5. ActiveIsSelected' /\ SelectedIsOffered'
    BY DEF ActiveIsSelected, SelectedIsOffered
  <2> QED BY <2>1, <2>2, <2>3, <2>4, <2>5
<1> QED BY <1>1, <1>2 DEF Next, Step

\* The inductive invariant holds: locks exclude each other, and what a request has
\* read under a lock is still so when it commits.
THEOREM Invariance == Spec => []Inv
BY InvInit, InvNext, PTL DEF Spec

\* The settings never name a profile that is not the one active profile, whatever
\* transactions interleave, fail or are ended by the deadlock detector.
THEOREM ActiveIsAlwaysSelected == Spec => []ActiveIsSelected
<1>1. Inv => ActiveIsSelected
  BY DEF Inv
<1> QED BY <1>1, Invariance, PTL

\* FR-044: the selected model is always offered by a connected provider.
THEOREM SelectedIsAlwaysOffered == Spec => []SelectedIsOffered
<1>1. Inv => SelectedIsOffered
  BY DEF Inv
<1> QED BY <1>1, Invariance, PTL

-----------------------------------------------------------------------------
(***************************************************************************)
(* Refinement.                                                             *)
(***************************************************************************)
LEMMA InitImplements == Init => Abstract!Init
<1> SUFFICES ASSUME Init PROVE Abstract!Init
  OBVIOUS
<1>1. [p \in Providers |-> connection[p].catalog] \in [Providers -> SUBSET Models]
  BY DEF Init
<1>2. settings.selected = 0
  BY DEF Init
<1> QED BY <1>1, <1>2 DEF Abstract!Init

LEMMA StepImplements ==
  ASSUME Inv, NEW u \in Requests, Step(u)
  PROVE  Abstract!Next \/ UNCHANGED Abstract!vars
<1> DEFINE offers == [p \in Providers |-> connection[p].catalog]
           s == settings.selected
           chosen(i) == [provider |-> profile[i].provider, model |-> profile[i].model]
           current == IF s = 0 THEN None ELSE chosen(s)
<1> USE DEF Inv
<1>1. connection \in [Providers -> Connection] /\ RowType
  BY TypeSplit DEF RowType
<1>2. pc[u] = "commit" => Provider(u) \in Providers /\ operation[u].models \subseteq Models
  BY DEF TypeOK, Provider, Operation
<1>3. CASE CommitSelect(u)
  <2> DEFINE m == profile'[settings'.selected].model
  <2>1. /\ profile'[settings'.selected].provider = Provider(u) /\ m \in operation[u].models
        /\ settings'.selected # 0
    BY <1>3, SelectsAdded
  <2>2. operation[u].models \subseteq connection[Provider(u)].catalog /\ connection' = connection
    BY <1>3 DEF CommitSelect, OfferLocked, Holding
  <2>3. Provider(u) \in Providers /\ m \in Models
    BY <1>2, <1>3, <2>1 DEF CommitSelect
  <2>4. m \in offers[Provider(u)] /\ offers' = offers
    BY <2>1, <2>2, <2>3
  <2>5. current' = [provider |-> Provider(u), model |-> m]
    BY <2>1
  <2>6. Abstract!Select(Provider(u), m)
    BY <2>4, <2>5 DEF Abstract!Select
  <2> QED BY <2>3, <2>6 DEF Abstract!Next
<1>4. CASE CommitConnect(u) \/ CommitDisconnect(u)
  <2>1. PICK catalog \in SUBSET Models : Provider(u) \in Providers /\ catalog = connection'[Provider(u)].catalog
    BY <1>1, <1>2, <1>4 DEF CommitConnect, CommitDisconnect
  <2>2. offers' = [offers EXCEPT ![Provider(u)] = catalog]
    BY <1>1, <1>4, <2>1 DEF CommitConnect, CommitDisconnect
  <2>3. current' = IF current # None /\ current.provider = Provider(u) /\ current.model \notin catalog
                   THEN None ELSE current
    <3>1. settings'.selected = IF s \in Dropped(u) THEN 0 ELSE s
      BY <1>4, DropsSelected
    <3>2. CASE s = 0
      BY <3>1, <3>2
    <3>3. CASE s # 0
      <4>1. s \in DOMAIN profile
        BY <3>3, LenProperties DEF TypeOK
      <4>2. profile'[s].provider = profile[s].provider /\ profile'[s].model = profile[s].model
        BY <4>1, ProfileStep
      <4>3. s \in Dropped(u) <=> profile[s].provider = Provider(u) /\ profile[s].model \notin catalog
        <5>1. CASE CommitConnect(u)
          <6>1. catalog = operation[u].models /\ Kind(u) = "connect" /\ pc[u] = "commit"
            BY <1>1, <2>1, <5>1 DEF CommitConnect
          <6>2. profile[s].active
            BY <3>3, <4>1 DEF ActiveIsSelected
          <6>3. profile[s].provider = Provider(u) <=> <<"profile", s>> \in held[u]
            BY <4>1, <6>1, <6>2, LenProperties DEF Covered, Concerns, Indices, TypeOK
          <6> QED BY <4>1, <6>1, <6>2, <6>3 DEF Dropped, Deactivated
        <5>2. CASE CommitDisconnect(u)
          <6>1. catalog = {} /\ Kind(u) = "disconnect"
            BY <1>1, <2>1, <5>2 DEF CommitDisconnect
          <6> QED BY <4>1, <6>1 DEF Dropped
        <5> QED BY <1>4, <5>1, <5>2
      <4>4. current = chosen(s) /\ current.provider = profile[s].provider /\ current.model = profile[s].model
        BY <3>3
      <4>5. CASE s \in Dropped(u)
        <5>1. current' = None
          BY <3>1, <4>5
        <5> QED BY <4>3, <4>4, <4>5, <5>1
      <4>6. CASE s \notin Dropped(u)
        <5>1. current' = current
          BY <3>1, <3>3, <4>2, <4>6
        <5> HIDE DEF current
        <5> QED BY <4>3, <4>4, <4>6, <5>1
      <4> QED BY <4>5, <4>6
    <3> QED BY <3>2, <3>3
  <2>4. Abstract!Offer(Provider(u), catalog)
    BY <2>2, <2>3 DEF Abstract!Offer
  <2> QED BY <2>1, <2>4 DEF Abstract!Next
<1>5. CASE CommitRefresh(u)
  <2>1. offers' = offers
    BY <1>1, <1>5 DEF CommitRefresh, Connection
  <2>2. UNCHANGED <<settings, profile>>
    BY <1>5 DEF CommitRefresh
  <2> QED BY <2>1, <2>2 DEF Abstract!vars
<1>6. CASE UNCHANGED rowVars
  BY <1>6 DEF rowVars, Abstract!vars
<1> QED BY <1>3, <1>4, <1>5, <1>6, OtherCommits

\* However their statements interleave, the transactions that commit have the effect
\* of selections and catalog changes that happen one at a time.
THEOREM ImplementsAtomicConfiguration == Spec => ImplementsConfiguration
<1>1. Inv /\ [Next]_vars => [Abstract!Next]_Abstract!vars
  <2> SUFFICES ASSUME Inv, [Next]_vars PROVE [Abstract!Next]_Abstract!vars
    OBVIOUS
  <2>1. CASE UNCHANGED vars
    BY <2>1 DEF vars, rowVars, Abstract!vars
  <2>2. ASSUME NEW u \in Requests, Step(u) PROVE [Abstract!Next]_Abstract!vars
    BY <2>2, StepImplements
  <2> QED BY <2>1, <2>2 DEF Next, Step
<1> QED BY <1>1, InitImplements, Invariance, PTL DEF Spec, ImplementsConfiguration, Abstract!Spec

-----------------------------------------------------------------------------
(***************************************************************************)
(* The optimistic versions.                                                *)
(***************************************************************************)

\* The version its Owner saw is at most that of the provider row, and is the one of
\* the row once the row is locked; 0 if there was no row to see.
Seen ==
  \A t \in Requests :
    /\ pc[t] = "begin" /\ Kind(t) # "select" => operation[t].seen \leq connection[Provider(t)].version
    /\ pc[t] = "insert" /\ operation[t].seen # 0 =>
         <<"provider", Provider(t)>> \in held[t] /\ operation[t].seen = connection[Provider(t)].version
    /\ RowLocked(t) /\ Kind(t) # "refresh" => operation[t].seen \in {connection[Provider(t)].version, 0}

LEMMA VersionStep ==
  ASSUME TypeOK, NEW u \in Requests, Step(u), NEW p \in Providers
  PROVE  connection'[p].version \geq connection[p].version
<1>1. connection[p] \in Connection
  BY DEF TypeOK
<1>2. CASE CommitConnect(u)
  BY <1>1, <1>2 DEF CommitConnect, TypeOK, Connection
<1>3. CASE CommitDisconnect(u)
  BY <1>1, <1>3 DEF CommitDisconnect, TypeOK, Connection
<1>4. CASE CommitRefresh(u)
  BY <1>1, <1>4 DEF CommitRefresh, TypeOK, Connection
<1>5. CASE CommitSelect(u) \/ UNCHANGED rowVars
  BY <1>1, <1>5 DEF CommitSelect, rowVars, Connection
<1> QED BY <1>2, <1>3, <1>4, <1>5, OtherCommits

LEMMA SeenStep ==
  ASSUME Inv, Seen, NEW u \in Requests, Step(u)
  PROVE  Seen'
<1> USE DEF Inv
<1> DEFINE Version(t) == connection[Provider(t)].version
<1> SUFFICES ASSUME NEW t \in Requests
             PROVE  /\ pc'[t] = "begin" /\ Kind(t)' # "select" => operation'[t].seen \leq Version(t)'
                    /\ pc'[t] = "insert" /\ operation'[t].seen # 0 =>
                         <<"provider", Provider(t)'>> \in held'[t] /\ operation'[t].seen = Version(t)'
                    /\ RowLocked(t)' /\ Kind(t)' # "refresh" => operation'[t].seen \in {Version(t)', 0}
  BY DEF Seen, Provider
<1>1. pc[t] # "idle" => /\ operation[t] \in Operation /\ Provider(t) \in Providers
                        /\ operation[t].seen \in Nat /\ Version(t) \in Nat
  BY DEF TypeOK, Operation, Provider, Connection
<1>2. CASE t # u
  <2>1. pc'[t] = pc[t] /\ operation'[t] = operation[t] /\ held'[t] = held[t]
    BY <1>2, Frame
  <2>2. Kind(t)' = Kind(t) /\ Provider(t)' = Provider(t)
    BY <2>1 DEF Kind, Provider
  <2>3. CASE pc[t] = "begin"
    <3>1. connection'[Provider(t)].version \geq Version(t) /\ connection'[Provider(t)].version \in Nat
      <4>1. TypeOK'
        BY NextType DEF Next, Step
      <4> QED BY <1>1, <2>3, <4>1, VersionStep DEF TypeOK, Connection
    <3>2. ~RowLocked(t)' /\ pc'[t] = "begin" /\ Version(t)' = connection'[Provider(t)].version
      BY <2>1, <2>2, <2>3 DEF RowLocked
    <3>3. Kind(t) # "select" => operation[t].seen \leq Version(t)
      BY <2>3 DEF Seen
    <3>4. operation'[t].seen = operation[t].seen /\ operation[t].seen \in Nat /\ Version(t) \in Nat
      BY <1>1, <2>1, <2>3
    <3> HIDE DEF Version
    <3>5. Kind(t) # "select" => operation'[t].seen \leq Version(t)'
      BY <3>1, <3>2, <3>3, <3>4
    <3> QED BY <2>2, <3>2, <3>5
  <2>4. ASSUME <<"provider", Provider(t)>> \in held[t], pc[t] # "idle"
        PROVE  connection'[Provider(t)] = connection[Provider(t)]
    <3>1. <<"provider", Provider(t)>> \notin held[u]
      BY <1>1, <1>2, <2>4 DEF Exclusive
    <3> QED BY <1>1, <2>4, <3>1, RowsAreLocked
  <2>5. CASE pc[t] = "insert"
    BY <2>1, <2>2, <2>4, <2>5 DEF Seen, RowLocked
  <2>6. CASE RowLocked(t)
    <3>1. connection'[Provider(t)] = connection[Provider(t)]
      BY <2>4, <2>6 DEF Holding, RowLocked
    <3> QED BY <2>1, <2>2, <2>6, <3>1 DEF Seen, RowLocked
  <2>7. CASE pc[t] # "begin" /\ pc[t] # "insert" /\ ~RowLocked(t)
    BY <2>1, <2>2, <2>7 DEF RowLocked
  <2> QED BY <2>3, <2>5, <2>6, <2>7
<1>3. CASE t = u
  <2> USE <1>3 DEF TypeOK, Goto
  <2>1. CASE pc'[u] = "idle" \/ (Kind(u)' = "select" /\ pc'[u] # "insert")
    BY <2>1 DEF RowLocked
  <2>2. CASE \/ Finish(u) \/ Rollback(u) \/ DetectDeadlock(u)
             \/ CommitSelect(u) \/ CommitConnect(u) \/ CommitDisconnect(u) \/ CommitRefresh(u)
    BY <2>1, <2>2 DEF Finish, Rollback, DetectDeadlock, CommitSelect, CommitConnect, CommitDisconnect, CommitRefresh
  <2>3. CASE Open(u)
    <3>1. PICK kind \in {"select", "connect", "disconnect", "refresh"}, p \in Providers, ms \in SUBSET Models :
            operation' = [operation EXCEPT ![u] =
              [kind |-> kind, provider |-> p, models |-> ms, envelope |-> NoEnvelope,
               seen |-> IF kind = "select" THEN settings.version ELSE connection[p].version]]
      BY <2>3 DEF Open
    <3>2. pc'[u] = "begin" /\ connection' = connection /\ connection[p].version \in Nat
      BY <2>3 DEF Open, rowVars, Connection
    <3> QED BY <3>1, <3>2 DEF Kind, Provider, RowLocked
  <2>4. CASE LockSettings(u) \/ LockOffer(u)
    <3>1. CASE Finish(u)
      BY <2>2, <3>1
    <3>2. CASE operation' = operation
      <4>1. Kind(u)' = Kind(u) /\ Kind(u) = "select"
        BY <2>4, <3>2 DEF LockSettings, LockOffer, Discipline, Kind
      <4>2. pc'[u] \in {"idle", "offer", "scan"}
        BY <2>4 DEF LockSettings, LockOffer, Finish
      <4> QED BY <2>1, <4>1, <4>2
    <3> QED BY <2>4, <3>1, <3>2 DEF LockSettings, LockOffer
  <2>5. CASE LockConnection(u)
    <3>1. CASE Finish(u)
      BY <2>2, <3>1
    <3>2. CASE /\ Accepted(u) /\ Take(u, <<"provider", Provider(u)>>)
               /\ EnvelopeOf(u, connection[Provider(u)].id, connection[Provider(u)].credentialVersion + 1)
      <4>1. connection' = connection /\ pc[u] = "begin" /\ pc'[u] # "begin"
        BY <2>5, <3>2, <1>1 DEF LockConnection, rowVars, NextOf, Kind, Operation
      <4>2. /\ operation'[u].provider = operation[u].provider /\ operation'[u].kind = operation[u].kind
            /\ operation'[u].seen = operation[u].seen
        BY <1>1, <3>2, <4>1 DEF EnvelopeOf, Operation
      <4>3. Kind(u)' = Kind(u) /\ Provider(u)' = Provider(u)
        BY <4>2 DEF Kind, Provider
      <4>4. <<"provider", Provider(u)>> \in held'[u]
        BY <3>2 DEF Take
      <4>5. pc'[u] = "insert" => Kind(u) = "connect"
        BY <1>1, <2>5, <3>2, <4>1 DEF LockConnection, NextOf, Kind, Operation
      <4>6. Kind(u) # "refresh" => operation[u].seen = Version(u)
        BY <3>2 DEF Accepted
      <4> QED BY <4>1, <4>2, <4>3, <4>4, <4>5, <4>6
    <3> QED BY <2>5, <3>1, <3>2 DEF LockConnection
  <2>6. CASE NoConnection(u)
    <3>1. CASE Finish(u)
      BY <2>2, <3>1
    <3>2. CASE EnvelopeOf(u, u, 1) /\ Goto(u, "insert")
      <4>1. operation[u].seen = 0
        <5>1. pc[u] = "begin" /\ Kind(u) # "select" /\ Version(u) = 0
          BY <2>6 DEF NoConnection
        <5>2. operation[u].seen \leq Version(u)
          BY <5>1 DEF Seen
        <5> QED BY <1>1, <5>1, <5>2
      <4>2. operation'[u].seen = 0
        BY <1>1, <2>6, <3>2, <4>1 DEF EnvelopeOf, Operation, NoConnection
      <4> QED BY <3>2, <4>2 DEF RowLocked
    <3> QED BY <2>6, <3>1, <3>2 DEF NoConnection
  <2>7. CASE Upsert(u) \/ ScanProfiles(u) \/ LockProfile(u) \/ ScanSettings(u) \/ LockSelection(u)
    <3>1. connection' = connection /\ operation' = operation /\ pc'[u] \notin {"begin", "insert"}
      BY <2>7 DEF Upsert, ScanProfiles, LockProfile, ScanSettings, LockSelection, rowVars
    <3>2. Kind(u)' = Kind(u) /\ Provider(u)' = Provider(u)
      BY <3>1 DEF Kind, Provider
    <3>3. RowLocked(u)' => RowLocked(u) \/ pc[u] = "insert"
      BY <2>7, <3>2 DEF Upsert, ScanProfiles, LockProfile, ScanSettings, LockSelection, RowLocked
    <3> QED BY <3>1, <3>2, <3>3 DEF Seen
  <2> QED BY <2>2, <2>3, <2>4, <2>5, <2>6, <2>7 DEF Step, Advance
<1> QED BY <1>2, <1>3

\* Settings and provider rows are replaced only by a request whose Owner has seen the
\* version it replaces, had no row to see, or by a runner's renewed credential.
THEOREM ReplacesOnlyWhatItSaw == Spec => ReplacesWhatItSaw
<1>1. Init => Seen
  BY DEF Init, Seen, RowLocked
<1>2. Inv /\ Seen /\ [Next]_vars => Seen'
  <2> SUFFICES ASSUME Inv, Seen, [Next]_vars PROVE Seen'
    OBVIOUS
  <2>1. CASE UNCHANGED vars
    BY <2>1 DEF vars, rowVars, Seen, RowLocked, Kind, Provider
  <2> QED BY <2>1, SeenStep DEF Next, Step
<1> DEFINE Replaces ==
      /\ settings'.version # settings.version =>
           \E t \in Requests : /\ pc[t] = "commit" /\ Kind(t) = "select"
                               /\ operation[t].seen = settings.version
      /\ \A p \in Providers : connection'[p].version # connection[p].version =>
           \E t \in Requests :
              /\ pc[t] = "commit" /\ pc'[t] = "idle" /\ Provider(t) = p
              /\ Kind(t) # "refresh" => operation[t].seen \in {connection[p].version, 0}
<1>3. Inv /\ Seen /\ [Next]_vars => [Replaces]_vars
  <2> SUFFICES ASSUME Inv, Seen, [Next]_vars PROVE [Replaces]_vars
    OBVIOUS
  <2> USE DEF Inv
  <2>1. ASSUME NEW u \in Requests, Step(u) PROVE Replaces
    <3>1. CASE CommitSelect(u)
      BY <3>1 DEF CommitSelect, Holding, Selecting
    <3>2. CASE CommitConnect(u) \/ CommitDisconnect(u) \/ CommitRefresh(u)
      <4>1. /\ pc[u] = "commit" /\ pc'[u] = "idle" /\ RowLocked(u)
            /\ \A p \in Providers \ {Provider(u)} : connection'[p] = connection[p]
        BY <3>2 DEF CommitConnect, CommitDisconnect, CommitRefresh, RowLocked, Finish, Goto, TypeOK
      <4>2. settings'.version = settings.version
        BY <3>2, <2>1, SettingsStep DEF CommitConnect, CommitDisconnect, CommitRefresh, CommitSelect
      <4>3. Kind(u) # "refresh" => operation[u].seen \in {connection[Provider(u)].version, 0}
        BY <4>1 DEF Seen
      <4> QED BY <4>1, <4>2, <4>3
    <3>3. CASE UNCHANGED rowVars
      BY <3>3 DEF rowVars
    <3> QED BY <2>1, <3>1, <3>2, <3>3, OtherCommits
  <2> QED BY <2>1 DEF Next, Step
<1> QED BY <1>1, <1>2, <1>3, Invariance, PTL DEF Spec, ReplacesWhatItSaw
=============================================================================
