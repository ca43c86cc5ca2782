-------------------------- MODULE DeviceLoginProofs --------------------------
(***************************************************************************)
(* HomeIsOwned and OneSavePerVersion for any number of sign-ins, Owners and *)
(* kills of the web process, whatever the children, the timers, the file    *)
(* system and the pages do.                                                *)
(*                                                                         *)
(* HomeIsOwned is inductive: a timer that is over leaves a directory behind *)
(* only if its rm has failed, an earlier failure leaves it to the timer,    *)
(* and a start hands its directory to a timer or removes it.  A save raises *)
(* the version above the one its sign-in was begun with (SavedIsPast), so   *)
(* that no other sign-in of that version can pass the check; and no sign-in *)
(* changes what it has seen once it has begun (Unbegun).                    *)
(***************************************************************************)
EXTENDS DeviceLogin, TLAPS

Unbegun ==
  \A l \in Logins : owner[l] = None =>
    stage[l] = "none" /\ page[l] = "none" /\ finish[l] = "none" /\ l \notin saved

SavedIsPast == \A l \in saved : seen[l] < version

\* A request awaits the rm of an earlier session only before it makes its own home.
Awaits == \A l \in Logins : earlier[l] # None => stage[l] = "dispose"

IInv == TypeOK /\ Awaits /\ HomeIsOwned /\ Unbegun /\ SavedIsPast /\ OneSavePerVersion

-----------------------------------------------------------------------------
LEMMA InitIInv == Init => IInv
BY LoginAssumption DEF Init, IInv, TypeOK, Awaits, HomeIsOwned, Unbegun, SavedIsPast, OneSavePerVersion

\* The steps of POST codex/device keep the types and Awaits.
LEMMA StartType ==
  ASSUME TypeOK, Awaits, NEW l \in Logins, Start(l)
  PROVE  TypeOK' /\ Awaits'
<1> USE LoginAssumption DEF TypeOK, Awaits, disk, Pending
<1>1. CASE DisposeEarlier(l)
  BY <1>1 DEF DisposeEarlier, Dispose, Stopped, Mine
<1>2. CASE RemoveEarlier(l)
  BY <1>2 DEF RemoveEarlier, Removed, NotRemoved, EndStart, Show
<1>3. CASE MakeHome(l)
  BY <1>3 DEF MakeHome, EndStart, Show
<1>4. CASE StartChild(l)
  BY <1>4 DEF StartChild
<1>5. CASE Register(l)
  BY <1>5 DEF Register, Show
<1>6. CASE FailStart(l)
  BY <1>6 DEF FailStart
<1>7. CASE RemoveStarted(l)
  BY <1>7 DEF RemoveStarted, Removed, NotRemoved, EndStart, Show
<1>8. QED
  BY <1>1, <1>2, <1>3, <1>4, <1>5, <1>6, <1>7 DEF Start

\* So do those of POST codex/status,
LEMMA PollType ==
  ASSUME TypeOK, Awaits, NEW l \in Logins, Poll(l)
  PROVE  TypeOK' /\ Awaits'
<1> USE LoginAssumption DEF TypeOK, Awaits, disk, Pending
<1>1. CASE AnswerExpired(l) \/ AnswerWaiting(l)
  BY <1>1 DEF AnswerExpired, AnswerWaiting, Reply, Show, process
<1>2. CASE BeginFinish(l) \/ ReadCredential(l) \/ DiscoverModels(l)
  BY <1>2 DEF BeginFinish, ReadCredential, DiscoverModels
<1>3. CASE DropSession(l) \/ Save(l) \/ FailFinish(l)
  BY <1>3 DEF DropSession, Save, FailFinish, DisposeOwn, Dispose, Stopped
<1>4. CASE RemoveOwn(l)
  BY <1>4 DEF RemoveOwn, Removed, NotRemoved, Reply, Show
<1>5. QED
  BY <1>1, <1>2, <1>3, <1>4 DEF Poll

\* and everything else.
LEMMA NextType == TypeOK /\ Awaits /\ [Next]_vars => TypeOK' /\ Awaits'
<1> USE LoginAssumption DEF TypeOK, Awaits, disk, Pending
<1>1. SUFFICES ASSUME TypeOK, Awaits, Next PROVE TypeOK' /\ Awaits'
  BY DEF vars, process
<1>2. ASSUME NEW l \in Logins, NEW a \in Accounts, Begin(l, a) PROVE TypeOK' /\ Awaits'
  BY <1>1, <1>2 DEF Begin, Show
<1>3. ASSUME NEW l \in Logins, Notify(l) \/ ExitChild(l) PROVE TypeOK' /\ Awaits'
  BY <1>1, <1>3 DEF Notify, ExitChild
<1>4. ASSUME NEW l \in Logins, Expire(l) PROVE TypeOK' /\ Awaits'
  BY <1>1, <1>4 DEF Expire, TenMinutes, FireTimer, RemoveExpired, Dispose, Stopped, Removed, NotRemoved
<1>5. ASSUME NEW l \in Logins, Ask(l) \/ Refuse(l) PROVE TypeOK' /\ Awaits'
  BY <1>1, <1>5 DEF Ask, Refuse, Reply, Show, process
<1>6. ASSUME Restart PROVE TypeOK' /\ Awaits'
  BY <1>1, <1>6 DEF Restart
<1>7. QED
  BY <1>1, <1>2, <1>3, <1>4, <1>5, <1>6, StartType, PollType DEF Next, Environment

-----------------------------------------------------------------------------
\* An rm that fails leaves a directory to its timer, or counts as a leak.
LEMMA RemovalOwned ==
  ASSUME TypeOK, HomeIsOwned, NEW l \in Logins, Removed(l) \/ NotRemoved(l), UNCHANGED orphans,
         \A m \in Logins \ {l} : /\ stage[m] \in {"start", "login", "clean"} => stage'[m] = stage[m]
                                 /\ timer'[m] = timer[m],
         timer[l] \in Pending => timer'[l] = timer[l]
  PROVE  HomeIsOwned'
<1>1. leaked \subseteq leaked' /\ home' \subseteq home
  BY DEF Removed, NotRemoved
<1>2. l \notin home' \/ l \in leaked' \/ timer'[l] \in Pending
  BY DEF Removed, NotRemoved
<1>3. QED
  BY <1>1, <1>2 DEF HomeIsOwned, TypeOK

\* POST codex/device removes what it cannot register.
LEMMA StartOwned ==
  ASSUME TypeOK, Awaits, HomeIsOwned, NEW l \in Logins, Start(l)
  PROVE  HomeIsOwned'
<1> USE DEF TypeOK
<1>1. CASE DisposeEarlier(l)
  BY <1>1 DEF DisposeEarlier, HomeIsOwned, disk
<1>2. CASE RemoveEarlier(l)
  <2>1. earlier[l] \in Logins /\ stage[l] = "dispose"
    BY <1>2 DEF RemoveEarlier, Awaits
  <2>2. \A m \in Logins : stage[m] \in {"start", "login", "clean"} => stage'[m] = stage[m]
    BY <1>2, <2>1 DEF RemoveEarlier, EndStart
  <2>3. QED
    BY <1>2, <2>1, <2>2, RemovalOwned DEF RemoveEarlier
<1>3. CASE MakeHome(l)
  BY <1>3 DEF MakeHome, EndStart, HomeIsOwned, disk
<1>4. CASE StartChild(l) \/ Register(l) \/ FailStart(l)
  BY <1>4 DEF StartChild, Register, FailStart, HomeIsOwned, Pending, disk
<1>5. CASE RemoveStarted(l)
  <2>1. \A m \in Logins \ {l} : stage'[m] = stage[m]
    BY <1>5 DEF RemoveStarted, EndStart
  <2>2. QED
    BY <1>5, <2>1, RemovalOwned DEF RemoveStarted
<1>6. QED
  BY <1>1, <1>2, <1>3, <1>4, <1>5 DEF Start

\* A directory without a start and without a timer is gone, orphaned or leaked.
LEMMA NextHomeIsOwned == TypeOK /\ Awaits /\ Unbegun /\ HomeIsOwned /\ [Next]_vars => HomeIsOwned'
<1>1. SUFFICES ASSUME TypeOK, Awaits, Unbegun, HomeIsOwned, Next PROVE HomeIsOwned'
  BY DEF vars, process, disk, HomeIsOwned
<1>2. ASSUME NEW l \in Logins, NEW a \in Accounts, Begin(l, a) PROVE HomeIsOwned'
  BY <1>1, <1>2 DEF Begin, Unbegun, TypeOK, HomeIsOwned, disk
<1>3. ASSUME NEW l \in Logins, Poll(l) PROVE HomeIsOwned'
  <2>1. CASE RemoveOwn(l)
    BY <1>1, <2>1, RemovalOwned DEF RemoveOwn
  <2>2. CASE ~RemoveOwn(l)
    BY <1>1, <1>3, <2>2 DEF Poll, AnswerExpired, AnswerWaiting, DropSession, BeginFinish, ReadCredential,
         DiscoverModels, Save, FailFinish, DisposeOwn, process, disk, HomeIsOwned
  <2>3. QED
    BY <2>1, <2>2
<1>4. ASSUME NEW l \in Logins, Expire(l) PROVE HomeIsOwned'
  <2>1. CASE TenMinutes(l) \/ FireTimer(l)
    BY <1>1, <2>1 DEF TenMinutes, FireTimer, TypeOK, Pending, HomeIsOwned, disk
  <2>2. CASE RemoveExpired(l)
    <3>1. timer[l] \notin Pending /\ \A m \in Logins \ {l} : timer'[m] = timer[m]
      BY <1>1, <2>2 DEF RemoveExpired, TypeOK, Pending
    <3>2. QED
      BY <1>1, <2>2, <3>1, RemovalOwned DEF RemoveExpired
  <2>3. QED
    BY <1>4, <2>1, <2>2 DEF Expire
<1>5. ASSUME NEW l \in Logins, Ask(l) \/ Notify(l) \/ ExitChild(l) \/ Refuse(l) PROVE HomeIsOwned'
  BY <1>1, <1>5 DEF Ask, Notify, ExitChild, Refuse, process, disk, HomeIsOwned
<1>6. ASSUME Restart PROVE HomeIsOwned'
  BY <1>1, <1>6 DEF Restart, HomeIsOwned, disk
<1>7. QED
  BY <1>1, <1>2, <1>3, <1>4, <1>5, <1>6, StartOwned DEF Next, Environment

-----------------------------------------------------------------------------
\* What a sign-in has seen is only written when it begins.
LEMMA NextUnbegun == TypeOK /\ Awaits /\ Unbegun /\ [Next]_vars => Unbegun'
<1> USE LoginAssumption DEF Unbegun
<1>1. SUFFICES ASSUME TypeOK, Awaits, Unbegun, Next PROVE Unbegun'
  BY DEF vars, process
<1>2. ASSUME NEW l \in Logins, NEW a \in Accounts, Begin(l, a) PROVE Unbegun'
  BY <1>1, <1>2 DEF Begin, Show, TypeOK
<1>3. ASSUME NEW l \in Logins, Start(l) PROVE Unbegun'
  <2>1. CASE RemoveEarlier(l)
    BY <1>1, <2>1 DEF RemoveEarlier, EndStart, Show, TypeOK, Awaits
  <2>2. CASE ~RemoveEarlier(l)
    BY <1>1, <1>3, <2>2 DEF Start, DisposeEarlier, MakeHome, StartChild, Register, FailStart, RemoveStarted,
         EndStart, Show, TypeOK
  <2>3. QED
    BY <2>1, <2>2
<1>4. ASSUME NEW l \in Logins, Expire(l) \/ Notify(l) \/ ExitChild(l) PROVE Unbegun'
  BY <1>1, <1>4 DEF Expire, TenMinutes, FireTimer, RemoveExpired, Notify, ExitChild
<1>5. ASSUME NEW l \in Logins, Ask(l) \/ Refuse(l) \/ AnswerExpired(l) \/ AnswerWaiting(l) PROVE Unbegun'
  BY <1>1, <1>5 DEF Ask, Refuse, AnswerExpired, AnswerWaiting, Idle, Reply, Show, process, TypeOK
<1>6. ASSUME NEW l \in Logins, DropSession(l) \/ BeginFinish(l) \/ ReadCredential(l) \/ DiscoverModels(l)
      PROVE  Unbegun'
  BY <1>1, <1>6 DEF DropSession, DisposeOwn, BeginFinish, ReadCredential, DiscoverModels, Idle, TypeOK
<1>7. ASSUME NEW l \in Logins, Save(l) \/ FailFinish(l) \/ RemoveOwn(l) PROVE Unbegun'
  BY <1>1, <1>7 DEF Save, FailFinish, DisposeOwn, RemoveOwn, Reply, Show, TypeOK
<1>8. ASSUME Restart PROVE Unbegun'
  BY <1>1, <1>8 DEF Restart, TypeOK
<1>9. QED
  BY <1>1, <1>2, <1>3, <1>4, <1>5, <1>6, <1>7, <1>8 DEF Next, Poll, Environment

\* The version, what was saved and what was seen change with Begin and Save alone.
LEMMA NextSaved ==
  TypeOK /\ Unbegun /\ SavedIsPast /\ OneSavePerVersion /\ [Next]_vars => SavedIsPast' /\ OneSavePerVersion'
<1> USE DEF SavedIsPast, OneSavePerVersion
<1>1. SUFFICES ASSUME TypeOK, Unbegun, SavedIsPast, OneSavePerVersion, [Next]_vars
               PROVE  SavedIsPast' /\ OneSavePerVersion'
  OBVIOUS
<1>2. ASSUME NEW l \in Logins, NEW a \in Accounts, Begin(l, a) PROVE SavedIsPast' /\ OneSavePerVersion'
  <2>1. l \notin saved /\ saved' = saved /\ version' = version
    BY <1>1, <1>2 DEF Begin, Unbegun
  <2>2. \A m \in saved : seen'[m] = seen[m]
    BY <1>1, <1>2, <2>1 DEF Begin, TypeOK
  <2>3. QED
    BY <1>1, <2>1, <2>2
<1>3. ASSUME NEW l \in Logins, Save(l) PROVE SavedIsPast' /\ OneSavePerVersion'
  <2>1. saved' = saved \cup {l} /\ version' = version + 1 /\ seen' = seen /\ version = seen[l]
    BY <1>3 DEF Save, DisposeOwn
  <2>2. version \in Nat /\ \A m \in saved : seen[m] \in Nat
    BY <1>1 DEF TypeOK
  <2>3. QED
    BY <1>1, <2>1, <2>2
<1>4. ASSUME UNCHANGED <<saved, version, seen>> PROVE SavedIsPast' /\ OneSavePerVersion'
  BY <1>1, <1>4
<1>5. ASSUME NEW l \in Logins, Start(l) \/ Expire(l) \/ Ask(l) PROVE UNCHANGED <<saved, version, seen>>
  BY <1>5 DEF Start, DisposeEarlier, RemoveEarlier, MakeHome, StartChild, Register, FailStart, RemoveStarted,
       Expire, TenMinutes, FireTimer, RemoveExpired, Ask
<1>6. ASSUME NEW l \in Logins, Poll(l), ~Save(l) PROVE UNCHANGED <<saved, version, seen>>
  BY <1>6 DEF Poll, AnswerExpired, AnswerWaiting, DropSession, BeginFinish, ReadCredential, DiscoverModels,
       FailFinish, RemoveOwn, DisposeOwn
<1>7. ASSUME NEW l \in Logins, Notify(l) \/ ExitChild(l) \/ Refuse(l) PROVE UNCHANGED <<saved, version, seen>>
  BY <1>7 DEF Notify, ExitChild, Refuse
<1>8. Restart \/ vars' = vars => UNCHANGED <<saved, version, seen>>
  BY DEF Restart, vars
<1>9. QED
  BY <1>1, <1>2, <1>3, <1>4, <1>5, <1>6, <1>7, <1>8 DEF Next, Environment

\* IInv is an inductive invariant of the sign-in.
THEOREM NextIInv == IInv /\ [Next]_vars => IInv'
BY NextType, NextHomeIsOwned, NextUnbegun, NextSaved DEF IInv

-----------------------------------------------------------------------------
LEMMA SpecIInv == Spec => []IInv
BY InitIInv, NextIInv, PTL DEF Spec

\* Every variable keeps its type.
THEOREM TypeCorrect == Spec => []TypeOK
BY SpecIInv, PTL DEF IInv

\* A credential directory always has a request or a timer that will remove it
\* (startCodexAuthorization, dispose), or its process was killed, or its mkdir or the last
\* rm it was to have has failed: a failure before the timer has fired leaves no directory
\* without an owner.
THEOREM HomesAreOwned == Spec => []HomeIsOwned
BY SpecIInv, PTL DEF IInv

\* Of all the sign-ins that saw one version of the connection at most one is saved
\* (finishCodexAuthorization, saveConnectedProvider's version check).
THEOREM OneSave == Spec => []OneSavePerVersion
BY SpecIInv, PTL DEF IInv
=============================================================================
