----------------------------- MODULE DeviceLogin -----------------------------
(***************************************************************************)
(* Signing PointView in to ChatGPT with a device code.  POST codex/device   *)
(* makes a temporary home, starts a codex child process in it and keeps the *)
(* session in a map of the web process; the settings page polls             *)
(* POST codex/status until the child has reported the login, whose          *)
(* credential is then read from the home and saved with the version of the  *)
(* connection the page had shown.  A timer, a poll or a new sign-in of the  *)
(* same account disposes of the session: it leaves the map and its child is *)
(* stopped at once, its directory goes with an rm that takes time and may   *)
(* fail.  A killed process forgets its sessions.                            *)
(*                                                                         *)
(* One page per login, one poll of a page at a time, and a connection that  *)
(* has a row (ModelSettings is about the first one).                        *)
(***************************************************************************)
EXTENDS Naturals

CONSTANTS
  Logins,       \* sign-ins ever begun
  Accounts,     \* Owners
  MaxRestarts,  \* bound: kills of the web process
  None

ASSUME LoginAssumption ==
  /\ None \notin Accounts \cup Logins
  /\ MaxRestarts \in Nat

VARIABLES
  owner,      \* the account of each login, None before it begins
  seen,       \* the connection version its page showed
  stage,      \* how far POST codex/device has come with each login
  earlier,    \* the session of the same account whose rm that POST awaits
  home,       \* logins whose temporary directory is on disk
  child,      \* what the codex process of each login is doing
  outcome,    \* session.state
  sessions,   \* the map: logins whose session is in it
  timer,      \* the expiry timer: set, its time is over, its rm under way, gone
  finish,     \* the statement of finishCodexAuthorization a completed login is at
  page,       \* what the settings page of each login shows
  version,    \* provider_connections.version
  saved,      \* history: logins whose credential was saved
  restarts,   \* kills so far
  orphans,    \* history: logins whose process was killed
  leaked      \* history: logins whose mkdir or last rm failed

process == <<stage, earlier, child, outcome, sessions, timer, finish>>
disk == <<home, leaked>>
vars == <<owner, seen, process, disk, page, version, saved, restarts, orphans>>

\* sessions of which the timer has yet to fire
Pending == {"set", "due"}

TypeOK ==
  /\ owner \in [Logins -> Accounts \cup {None}]
  /\ seen \in [Logins -> Nat]
  /\ stage \in [Logins -> {"none", "dispose", "start", "login", "clean", "ended"}]
  /\ earlier \in [Logins -> Logins \cup {None}]
  /\ home \subseteq Logins
  /\ child \in [Logins -> {"none", "running", "closed"}]
  /\ outcome \in [Logins -> {"WAITING", "COMPLETED", "FAILED"}]
  /\ sessions \subseteq Logins
  /\ timer \in [Logins -> Pending \cup {"none", "removing", "gone"}]
  /\ finish \in [Logins -> {"none", "read", "discover", "save", "remove"}]
  /\ page \in [Logins -> {"none", "preparing", "code", "asking", "settled", "cut"}]
  /\ version \in Nat \ {0}
  /\ saved \subseteq Logins
  /\ restarts \in 0..MaxRestarts
  /\ orphans \subseteq Logins
  /\ leaked \subseteq Logins

Init ==
  /\ owner = [l \in Logins |-> None]
  /\ seen = [l \in Logins |-> 0]
  /\ stage = [l \in Logins |-> "none"]
  /\ earlier = [l \in Logins |-> None]
  /\ home = {}
  /\ child = [l \in Logins |-> "none"]
  /\ outcome = [l \in Logins |-> "WAITING"]
  /\ sessions = {}
  /\ timer = [l \in Logins |-> "none"]
  /\ finish = [l \in Logins |-> "none"]
  /\ page = [l \in Logins |-> "none"]
  /\ version = 1
  /\ saved = {}
  /\ restarts = 0
  /\ orphans = {}
  /\ leaked = {}

Stopped(l) == IF child[l] = "running" THEN [child EXCEPT ![l] = "closed"] ELSE child

\* dispose, up to its await: out of the map, the child stopped.  The timer stays set.
Dispose(l) ==
  /\ sessions' = sessions \ {l}
  /\ child' = Stopped(l)

Removed(l) == home' = home \ {l} /\ UNCHANGED leaked

\* rm rejects.  With `force` it does so only for a directory that is there; one whose
\* timer has yet to fire will be tried again.
NotRemoved(l) ==
  /\ l \in home
  /\ leaked' = IF timer[l] \in Pending THEN leaked ELSE leaked \cup {l}
  /\ UNCHANGED home

Show(l, what) == page' = [page EXCEPT ![l] = what]

\* An answer reaches its page, or the connection breaks and fetch rejects: the page
\* then polls no more, whatever the answer was.
Reply(l, what) == Show(l, what) \/ Show(l, "cut")

-----------------------------------------------------------------------------
(***************************************************************************)
(* POST codex/device: startCodexAuthorization.                             *)
(***************************************************************************)
\* The page may have been open for a while.
Begin(l, a) ==
  /\ owner[l] = None
  /\ owner' = [owner EXCEPT ![l] = a]
  /\ \E v \in 1..version : seen' = [seen EXCEPT ![l] = v]
  /\ stage' = [stage EXCEPT ![l] = "dispose"]
  /\ Show(l, "preparing")
  /\ UNCHANGED <<earlier, child, outcome, sessions, timer, finish, disk, version, saved, restarts, orphans>>

Mine(l) == {m \in sessions : owner[m] = owner[l]}

\* The sessions of the account are disposed of one after the other; one that is
\* registered during an rm is met by the loop too.
DisposeEarlier(l) ==
  /\ stage[l] = "dispose" /\ earlier[l] = None
  /\ \E m \in Mine(l) : Dispose(m) /\ earlier' = [earlier EXCEPT ![l] = m]
  /\ UNCHANGED <<owner, seen, stage, outcome, timer, finish, disk, page, version, saved, restarts, orphans>>

\* The POST ends with an error.
EndStart(l) ==
  /\ stage' = [stage EXCEPT ![l] = "ended"]
  /\ Show(l, "settled")

RemoveEarlier(l) ==
  /\ earlier[l] # None
  /\ \/ Removed(earlier[l]) /\ UNCHANGED <<stage, page>>
     \/ NotRemoved(earlier[l]) /\ EndStart(l)
  /\ earlier' = [earlier EXCEPT ![l] = None]
  /\ UNCHANGED <<owner, seen, child, outcome, sessions, timer, finish, version, saved, restarts, orphans>>

\* mkdtemp and mkdir, outside of the try: if mkdir fails the directory stays.
MakeHome(l) ==
  /\ stage[l] = "dispose" /\ earlier[l] = None /\ Mine(l) = {}
  /\ \/ /\ stage' = [stage EXCEPT ![l] = "start"]
        /\ home' = home \cup {l}
        /\ UNCHANGED <<leaked, page>>
     \/ /\ EndStart(l)
        /\ \/ UNCHANGED disk
           \/ home' = home \cup {l} /\ leaked' = leaked \cup {l}
  /\ UNCHANGED <<owner, seen, earlier, child, outcome, sessions, timer, finish, version, saved, restarts, orphans>>

StartChild(l) ==
  /\ stage[l] = "start"
  /\ child' = [child EXCEPT ![l] = "running"]
  /\ stage' = [stage EXCEPT ![l] = "login"]
  /\ UNCHANGED <<owner, seen, earlier, outcome, sessions, timer, finish, disk, page, version, saved, restarts, orphans>>

\* The device code is here: session, notification handler and timer are set up.  A page
\* whose answer is lost shows an error and can begin again.
Register(l) ==
  /\ stage[l] = "login" /\ child[l] = "running"
  /\ sessions' = sessions \cup {l}
  /\ timer' = [timer EXCEPT ![l] = "set"]
  /\ stage' = [stage EXCEPT ![l] = "ended"]
  /\ Show(l, "code") \/ Show(l, "settled")
  /\ UNCHANGED <<owner, seen, earlier, child, outcome, finish, disk, version, saved, restarts, orphans>>

\* Variant: a start that fails leaves its directory.
FailStartLeaving(l) ==
  /\ stage[l] \in {"start", "login"}
  /\ EndStart(l)
  /\ UNCHANGED <<owner, seen, earlier, child, outcome, sessions, timer, finish, disk, version, saved, restarts, orphans>>

\* The child cannot start, answers nonsense, or does not answer in thirty seconds; it
\* is not stopped.
FailStart(l) ==
  /\ stage[l] \in {"start", "login"}
  /\ stage' = [stage EXCEPT ![l] = "clean"]
  /\ UNCHANGED <<owner, seen, earlier, child, outcome, sessions, timer, finish, disk, page, version, saved, restarts, orphans>>

RemoveStarted(l) ==
  /\ stage[l] = "clean"
  /\ Removed(l) \/ NotRemoved(l)
  /\ EndStart(l)
  /\ UNCHANGED <<owner, seen, earlier, child, outcome, sessions, timer, finish, version, saved, restarts, orphans>>

-----------------------------------------------------------------------------
(***************************************************************************)
(* The child, the clock and the timer.                                     *)
(***************************************************************************)

\* account/login/completed: the person entered the code, or refused.
Notify(l) ==
  /\ l \in sessions /\ child[l] = "running" /\ outcome[l] = "WAITING"
  /\ \E o \in {"COMPLETED", "FAILED"} : outcome' = [outcome EXCEPT ![l] = o]
  /\ UNCHANGED <<owner, seen, stage, earlier, child, sessions, timer, finish, disk, page, version, saved, restarts, orphans>>

ExitChild(l) ==
  /\ child[l] = "running"
  /\ child' = [child EXCEPT ![l] = "closed"]
  /\ UNCHANGED <<owner, seen, stage, earlier, outcome, sessions, timer, finish, disk, page, version, saved, restarts, orphans>>

TenMinutes(l) ==
  /\ timer[l] = "set"
  /\ timer' = [timer EXCEPT ![l] = "due"]
  /\ UNCHANGED <<owner, seen, stage, earlier, child, outcome, sessions, finish, disk, page, version, saved, restarts, orphans>>

\* Variant: the session is forgotten and nothing else.
FireForgetting(l) ==
  /\ timer[l] = "due"
  /\ sessions' = sessions \ {l}
  /\ timer' = [timer EXCEPT ![l] = "gone"]
  /\ UNCHANGED <<owner, seen, stage, earlier, child, outcome, finish, disk, page, version, saved, restarts, orphans>>

\* Nothing clears the timer: it disposes also of a session that is gone, and tries once
\* more to remove its directory.
FireTimer(l) ==
  /\ timer[l] = "due"
  /\ timer' = [timer EXCEPT ![l] = "removing"]
  /\ Dispose(l)
  /\ UNCHANGED <<owner, seen, stage, earlier, outcome, finish, disk, page, version, saved, restarts, orphans>>

\* `void`: nobody hears of a failure.
RemoveExpired(l) ==
  /\ timer[l] = "removing"
  /\ Removed(l) \/ NotRemoved(l)
  /\ timer' = [timer EXCEPT ![l] = "gone"]
  /\ UNCHANGED <<owner, seen, stage, earlier, child, outcome, sessions, finish, page, version, saved, restarts, orphans>>

-----------------------------------------------------------------------------
(***************************************************************************)
(* POST codex/status: finishCodexAuthorization.                            *)
(***************************************************************************)

\* The page asks again, 1.5 or 2 seconds after the last answer.
Ask(l) ==
  /\ page[l] = "code"
  /\ Show(l, "asking")
  /\ UNCHANGED <<owner, seen, process, disk, version, saved, restarts, orphans>>

Idle(l) == page[l] = "asking" /\ finish[l] = "none"

\* An expired cookie, an Owner no more, a refused request, a closed page.
Refuse(l) ==
  /\ Idle(l)
  /\ Reply(l, "settled")
  /\ UNCHANGED <<owner, seen, process, disk, version, saved, restarts, orphans>>

\* Variant: a session that is not in the map is one to wait for.
AnswerUnknown(l) ==
  /\ Idle(l)
  /\ l \notin sessions
  /\ Reply(l, "code")
  /\ UNCHANGED <<owner, seen, process, disk, version, saved, restarts, orphans>>

AnswerExpired(l) ==
  /\ Idle(l)
  /\ l \notin sessions
  /\ Reply(l, "settled")
  /\ UNCHANGED <<owner, seen, process, disk, version, saved, restarts, orphans>>

AnswerWaiting(l) ==
  /\ Idle(l)
  /\ l \in sessions /\ timer[l] = "set" /\ outcome[l] = "WAITING"
  /\ Reply(l, "code")
  /\ UNCHANGED <<owner, seen, process, disk, version, saved, restarts, orphans>>

\* The poll disposes of the session, and answers when the rm has ended.
DisposeOwn(l) ==
  /\ Dispose(l)
  /\ finish' = [finish EXCEPT ![l] = "remove"]
  /\ UNCHANGED <<owner, seen, stage, earlier, outcome, timer, disk, page, restarts, orphans>>

\* The session is too old, or its login has failed.
DropSession(l) ==
  /\ Idle(l)
  /\ l \in sessions
  /\ timer[l] = "due" \/ outcome[l] = "FAILED"
  /\ DisposeOwn(l)
  /\ UNCHANGED <<version, saved>>

BeginFinish(l) ==
  /\ Idle(l)
  /\ l \in sessions /\ timer[l] = "set" /\ outcome[l] = "COMPLETED"
  /\ finish' = [finish EXCEPT ![l] = "read"]
  /\ UNCHANGED <<owner, seen, stage, earlier, child, outcome, sessions, timer, disk, page, version, saved, restarts, orphans>>

ReadCredential(l) ==
  /\ finish[l] = "read" /\ l \in home
  /\ finish' = [finish EXCEPT ![l] = "discover"]
  /\ UNCHANGED <<owner, seen, stage, earlier, child, outcome, sessions, timer, disk, page, version, saved, restarts, orphans>>

DiscoverModels(l) ==
  /\ finish[l] = "discover" /\ child[l] = "running"
  /\ finish' = [finish EXCEPT ![l] = "save"]
  /\ UNCHANGED <<owner, seen, stage, earlier, child, outcome, sessions, timer, disk, page, version, saved, restarts, orphans>>

\* Variant: the credential is saved whatever happened to the connection meanwhile.
SaveUnchecked(l) ==
  /\ finish[l] = "save"
  /\ version' = version + 1
  /\ saved' = saved \cup {l}
  /\ DisposeOwn(l)

\* saveConnectedProvider, then the `finally`.
Save(l) ==
  /\ finish[l] = "save"
  /\ version = seen[l]
  /\ version' = version + 1
  /\ saved' = saved \cup {l}
  /\ DisposeOwn(l)

\* The home or the child is gone, a request times out, the version has moved on.
FailFinish(l) ==
  /\ finish[l] \in {"read", "discover", "save"}
  /\ DisposeOwn(l)
  /\ UNCHANGED <<version, saved>>

\* Whatever the answer was to be, an rm that fails makes it an error.
RemoveOwn(l) ==
  /\ finish[l] = "remove"
  /\ Removed(l) \/ NotRemoved(l)
  /\ finish' = [finish EXCEPT ![l] = "none"]
  /\ Reply(l, "settled")
  /\ UNCHANGED <<owner, seen, stage, earlier, child, outcome, sessions, timer, version, saved, restarts, orphans>>

\* The web process is killed: its requests, its map, its timers and its children go,
\* the directories stay.
Restart ==
  /\ restarts < MaxRestarts
  /\ restarts' = restarts + 1
  /\ orphans' = orphans \cup home
  /\ sessions' = {}
  /\ child' = [l \in Logins |-> IF child[l] = "running" THEN "closed" ELSE child[l]]
  /\ stage' = [l \in Logins |-> IF stage[l] = "none" THEN "none" ELSE "ended"]
  /\ earlier' = [l \in Logins |-> None]
  /\ timer' = [l \in Logins |-> IF timer[l] = "none" THEN "none" ELSE "gone"]
  /\ finish' = [l \in Logins |-> "none"]
  /\ page' = [l \in Logins |-> CASE page[l] = "asking" -> "cut"
                                 [] page[l] = "preparing" -> "settled"
                                 [] OTHER -> page[l]]
  /\ UNCHANGED <<owner, seen, disk, outcome, version, saved>>

-----------------------------------------------------------------------------
Start(l) ==
  \/ DisposeEarlier(l) \/ RemoveEarlier(l) \/ MakeHome(l) \/ StartChild(l)
  \/ Register(l) \/ FailStart(l) \/ RemoveStarted(l)
Poll(l) ==
  \/ AnswerExpired(l) \/ AnswerWaiting(l) \/ DropSession(l) \/ BeginFinish(l)
  \/ ReadCredential(l) \/ DiscoverModels(l) \/ Save(l) \/ FailFinish(l) \/ RemoveOwn(l)
Expire(l) == TenMinutes(l) \/ FireTimer(l) \/ RemoveExpired(l)
Environment(l) == Notify(l) \/ ExitChild(l) \/ Refuse(l) \/ \E a \in Accounts : Begin(l, a)

Next ==
  \/ \E l \in Logins : Start(l) \/ Poll(l) \/ Expire(l) \/ Environment(l) \/ Ask(l)
  \/ Restart

\* A request that can go on does, an rm ends, an open page polls, time passes and timers
\* fire.
Fairness ==
  \A l \in Logins : WF_vars(Start(l)) /\ WF_vars(Poll(l)) /\ WF_vars(Expire(l)) /\ WF_vars(Ask(l))

Spec == Init /\ [][Next]_vars /\ Fairness

-----------------------------------------------------------------------------
(***************************************************************************)
(* Properties.                                                             *)
(***************************************************************************)

\* A directory with a credential in it always has someone who will remove it: the request
\* that made it, or its timer, which also tries again what a poll or a new sign-in failed to
\* remove.  Left behind are the directories of a killed process and those whose mkdir, or
\* rm with no timer to come, has failed.
HomeIsOwned ==
  \A l \in home \ (orphans \cup leaked) :
    stage[l] \in {"start", "login", "clean"} \/ timer[l] \in Pending \cup {"removing"}

\* Of all the sign-ins begun from one version of the connection at most one is saved:
\* two Owners signing in at once do not overwrite each other.
OneSavePerVersion == \A l, m \in saved : seen[l] = seen[m] => l = m

\* Every credential directory is removed in the end, with the same exceptions: an rm that
\* fails before the timer has fired delays the removal and does not prevent it.
EveryHomeIsRemoved == \A l \in Logins : l \in home ~> l \notin home \/ l \in orphans \cup leaked

\* A page that shows a code stops showing it, after a kill of the web process too; the
\* one exception is a poll that got no answer ("cut").
PageSettles == \A l \in Logins : page[l] = "code" ~> page[l] \in {"settled", "cut"}
=============================================================================
