---------------------------- MODULE AccessControl ----------------------------
(***************************************************************************)
(* Who may act: the accounts table, the session cookies in browsers, and   *)
(* the requests that sign in (POST /bootstrap, POST /launch) or change an  *)
(* account (PATCH /api/admin/accounts/..).  findOrCreateAccount and        *)
(* updateAccount are transactions under one advisory lock, firstOwner; an  *)
(* action is one of their statements, the last one with the commit.        *)
(*                                                                         *)
(* An acting Admin's role is read from the database once, before the lock; *)
(* the role inside the cookie is never used.  Signatures, CSRF tokens and  *)
(* rate limits only refuse a request (Refuse).                             *)
(***************************************************************************)
EXTENDS Naturals, FiniteSets

CONSTANTS
  Subjects,    \* identities Cloudflare Access vouches for
  Requests,    \* HTTP requests in flight
  Offered,     \* the ranks the form of an account can ask for
  MaxVersion,  \* bound: an account at this version is not edited any more
  None

Roles == {"USER", "ADMIN", "OWNER"}
Statuses == {"PENDING", "ACTIVE", "SUSPENDED"}
Rank == [role : Roles, status : Statuses]
Account == [rank : Rank, version : Nat]

ASSUME AccessAssumption ==
  /\ IsFiniteSet(Subjects)
  /\ Offered \subseteq Rank
  /\ MaxVersion \in Nat
  /\ None \notin Subjects \cup Requests \cup Account

VARIABLES
  account,      \* the row of each subject, or None
  cookie,       \* the role in the session cookie of each subject's browser, or None
  request,      \* what each request has read so far
  pc,           \* the statement each request is at
  lock,         \* the request that holds the firstOwner lock
  appointedBy,  \* history: who first made each account an Owner (itself: nobody did)
  since         \* history: roles the acting account has held, ACTIVE, since the request came

vars == <<account, cookie, request, pc, lock, appointedBy, since>>

Request == [kind : {"signIn", "update"}, subject : Subjects, target : Subjects,
            seen : Nat, next : Rank, actor : Roles, found : Rank, count : Nat]
InTransaction == {"find", "count", "insert", "read", "owners", "commit"}
Point == InTransaction \cup {"authenticate", "lock", "answer"}
Nobody == [role |-> "USER", status |-> "PENDING"]
FirstOwner == [role |-> "OWNER", status |-> "ACTIVE"]

Rows == {s \in Subjects : account[s] # None}
ActiveOwners == {s \in Rows : account[s].rank = FirstOwner}
HeldBy(s) == IF s \in Rows /\ account[s].rank.status = "ACTIVE" THEN {account[s].rank.role} ELSE {}

TypeOK ==
  /\ account \in [Subjects -> Account \cup {None}]
  /\ cookie \in [Subjects -> Roles \cup {None}]
  /\ request \in [Requests -> Request \cup {None}]
  /\ pc \in [Requests -> Point \cup {"idle"}]
  /\ \A r \in Requests : request[r] \in IF pc[r] = "idle" THEN {None} ELSE Request
  /\ lock \in Requests \cup {None}
  /\ appointedBy \in [Subjects -> Subjects \cup {None}]
  /\ since \in [Requests -> SUBSET Roles]

Init ==
  /\ account = [s \in Subjects |-> None]
  /\ cookie = [s \in Subjects |-> None]
  /\ request = [r \in Requests |-> None]
  /\ pc = [r \in Requests |-> "idle"]
  /\ lock = None
  /\ appointedBy = [s \in Subjects |-> None]
  /\ since = [r \in Requests |-> {}]

-----------------------------------------------------------------------------
Goto(r, point) == pc' = [pc EXCEPT ![r] = point]

\* The request is answered; a transaction still open is over, and its lock gone.
End(r) ==
  /\ Goto(r, "idle")
  /\ request' = [request EXCEPT ![r] = None]
  /\ lock' = IF lock = r THEN None ELSE lock
  /\ since' = [since EXCEPT ![r] = {}]

\* POST /bootstrap or POST /launch.
SignIn(r) ==
  /\ pc[r] = "idle"
  /\ \E s \in Subjects :
       request' = [request EXCEPT ![r] =
         [kind |-> "signIn", subject |-> s, target |-> s, seen |-> 0, next |-> Nobody,
          actor |-> "USER", found |-> Nobody, count |-> 0]]
  /\ Goto(r, "lock")
  /\ UNCHANGED <<account, cookie, lock, appointedBy, since>>

\* A form about an account its sender has seen at some version.
Edit(r) ==
  /\ pc[r] = "idle"
  /\ \E s \in Subjects, t \in Rows, next \in Offered :
       /\ cookie[s] # None
       /\ account[t].version < MaxVersion
       /\ request' = [request EXCEPT ![r] =
            [kind |-> "update", subject |-> s, target |-> t, seen |-> account[t].version,
             next |-> next, actor |-> "USER", found |-> Nobody, count |-> 0]]
       /\ since' = [since EXCEPT ![r] = HeldBy(s)]
  /\ Goto(r, "authenticate")
  /\ UNCHANGED <<account, cookie, lock, appointedBy>>

\* An assertion, a CSRF token, a rate limit or a body that does not pass.
Refuse(r) ==
  /\ pc[r] \in {"authenticate", "lock", "answer"}
  /\ End(r)
  /\ UNCHANGED <<account, cookie, appointedBy>>

\* Variant: the role is the one the cookie was issued with.
AuthenticateByCookie(r) ==
  /\ pc[r] = "authenticate"
  /\ LET said == cookie[request[r].subject] IN
     /\ said # None
     /\ request' = [request EXCEPT ![r].actor = said]
  /\ Goto(r, "lock")
  /\ UNCHANGED <<account, cookie, lock, appointedBy, since>>

\* authenticateSession: the account must be ACTIVE, and its role is read now.
Authenticate(r) ==
  /\ pc[r] = "authenticate"
  /\ LET s == request[r].subject IN
     \/ /\ HeldBy(s) # {}
        /\ request' = [request EXCEPT ![r].actor = account[s].rank.role]
        /\ Goto(r, "lock")
        /\ UNCHANGED <<lock, since>>
     \/ HeldBy(s) = {} /\ End(r)
  /\ UNCHANGED <<account, cookie, appointedBy>>

\* Variant: the transaction takes no lock.
BeginTransaction(r) ==
  /\ pc[r] = "lock"
  /\ Goto(r, IF request[r].kind = "update" THEN "read" ELSE "find")
  /\ UNCHANGED <<account, cookie, request, lock, appointedBy, since>>

\* withAdvisoryTransaction
LockFirstOwner(r) ==
  /\ pc[r] = "lock" /\ lock = None
  /\ lock' = r
  /\ Goto(r, IF request[r].kind = "update" THEN "read" ELSE "find")
  /\ UNCHANGED <<account, cookie, request, appointedBy, since>>

-----------------------------------------------------------------------------
(***************************************************************************)
(* findOrCreateAccount, and the answer of the two routes that call it.     *)
(***************************************************************************)
FindAccount(r) ==
  /\ pc[r] = "find"
  /\ LET s == request[r].subject IN
     \/ /\ s \in Rows
        /\ request' = [request EXCEPT ![r].found = account[s].rank]
        /\ lock' = IF lock = r THEN None ELSE lock
        /\ Goto(r, "answer")
     \/ s \notin Rows /\ Goto(r, "count") /\ UNCHANGED <<request, lock>>
  /\ UNCHANGED <<account, cookie, appointedBy, since>>

CountAccounts(r) ==
  /\ pc[r] = "count"
  /\ request' = [request EXCEPT ![r].count = Cardinality(Rows)]
  /\ Goto(r, "insert")
  /\ UNCHANGED <<account, cookie, lock, appointedBy, since>>

\* The first account is an ACTIVE Owner, every other one starts PENDING.
InsertAccount(r) ==
  /\ pc[r] = "insert"
  /\ LET s == request[r].subject
         first == request[r].count = 0
         rank == IF first THEN FirstOwner ELSE Nobody
     IN /\ account' = [account EXCEPT ![s] = [rank |-> rank, version |-> 1]]
        /\ appointedBy' = IF first THEN [appointedBy EXCEPT ![s] = s] ELSE appointedBy
        /\ request' = [request EXCEPT ![r].found = rank]
  /\ lock' = IF lock = r THEN None ELSE lock
  /\ Goto(r, "answer")
  /\ UNCHANGED <<cookie, since>>

\* Any ACTIVE account gets a session from /launch, only an Owner from /bootstrap; the
\* two routes differ in nothing else, and the answer may be refused all the same.
Answer(r) ==
  /\ pc[r] = "answer"
  /\ request[r].found.status = "ACTIVE"
  /\ cookie' = [cookie EXCEPT ![request[r].subject] = request[r].found.role]
  /\ End(r)
  /\ UNCHANGED <<account, appointedBy>>

\* Eight hours are over, or the browser drops its cookie.
Expire(s) ==
  /\ cookie[s] # None
  /\ cookie' = [cookie EXCEPT ![s] = None]
  /\ UNCHANGED <<account, request, pc, lock, appointedBy, since>>

-----------------------------------------------------------------------------
(***************************************************************************)
(* updateAccount.                                                          *)
(***************************************************************************)
ReadAccount(r) ==
  /\ pc[r] = "read"
  /\ LET row == account[request[r].target] IN
     \/ /\ row.version = request[r].seen
        /\ request' = [request EXCEPT ![r].found = row.rank]
        /\ Goto(r, "owners")
        /\ UNCHANGED <<lock, since>>
     \/ row.version # request[r].seen /\ End(r)
  /\ UNCHANGED <<account, cookie, appointedBy>>

RemovesActiveOwner(found, next) == found = FirstOwner /\ next # FirstOwner

\* validateAccountTransition
Permitted(actor, found, next, activeOwners) ==
  /\ actor # "USER"
  /\ "OWNER" \in {found.role, next.role} => actor = "OWNER"
  /\ RemovesActiveOwner(found, next) => activeOwners > 1

\* Variant: one remaining Owner is taken for two.
CountOwnersOffByOne(r) ==
  /\ pc[r] = "owners"
  /\ LET count == Cardinality(ActiveOwners) + 1 IN
     /\ Permitted(request[r].actor, request[r].found, request[r].next, count)
     /\ request' = [request EXCEPT ![r].count = count]
  /\ Goto(r, "commit")
  /\ UNCHANGED <<account, cookie, lock, appointedBy, since>>

CountOwners(r) ==
  /\ pc[r] = "owners"
  /\ LET count == Cardinality(ActiveOwners) IN
     \/ /\ Permitted(request[r].actor, request[r].found, request[r].next, count)
        /\ request' = [request EXCEPT ![r].count = count]
        /\ Goto(r, "commit")
        /\ UNCHANGED <<lock, since>>
     \/ ~Permitted(request[r].actor, request[r].found, request[r].next, count) /\ End(r)
  /\ UNCHANGED <<account, cookie, appointedBy>>

\* update .. where version = expected, and the commit.
CommitAccount(r) ==
  /\ pc[r] = "commit"
  /\ LET t == request[r].target
         next == request[r].next
         written == account[t].version = request[r].seen
     IN /\ account' = IF written
                      THEN [account EXCEPT ![t] = [rank |-> next, version |-> @.version + 1]]
                      ELSE account
        /\ appointedBy' = IF written /\ next.role = "OWNER" /\ appointedBy[t] = None
                          THEN [appointedBy EXCEPT ![t] = request[r].subject] ELSE appointedBy
        /\ since' = [u \in Requests |->
             IF u = r THEN {}
             ELSE IF written /\ pc[u] # "idle" /\ request[u].kind = "update"
                       /\ request[u].subject = t /\ next.status = "ACTIVE"
                  THEN since[u] \cup {next.role} ELSE since[u]]
  /\ Goto(r, "idle")
  /\ request' = [request EXCEPT ![r] = None]
  /\ lock' = IF lock = r THEN None ELSE lock
  /\ UNCHANGED cookie

\* A statement fails or the web process is killed: rollback.
Rollback(r) ==
  /\ pc[r] \in InTransaction
  /\ End(r)
  /\ UNCHANGED <<account, cookie, appointedBy>>

-----------------------------------------------------------------------------
Step(r) ==
  \/ SignIn(r) \/ Edit(r) \/ Refuse(r) \/ Authenticate(r) \/ LockFirstOwner(r)
  \/ FindAccount(r) \/ CountAccounts(r) \/ InsertAccount(r) \/ Answer(r)
  \/ ReadAccount(r) \/ CountOwners(r) \/ CommitAccount(r) \/ Rollback(r)

Next == (\E r \in Requests : Step(r)) \/ (\E s \in Subjects : Expire(s))

Spec == Init /\ [][Next]_vars

-----------------------------------------------------------------------------
(***************************************************************************)
(* Properties.                                                             *)
(***************************************************************************)

\* FR-004: as soon as there is an account there is an active Owner, whatever Owners
\* do to each other and to themselves at the same moment.
LastOwner == Rows # {} => ActiveOwners # {}

\* FR-002, FR-003: exactly one account, the first, has ever become an Owner by itself,
\* however many identities sign in at once; every other Owner was made one by an
\* account that had been an Owner.
OwnersGoBackToOne ==
  /\ \A s \in Rows : account[s].rank.role = "OWNER" => appointedBy[s] # None
  /\ \A s \in Subjects : appointedBy[s] # None => appointedBy[appointedBy[s]] # None
  /\ \A s, t \in Subjects : appointedBy[s] = s /\ appointedBy[t] = t => s = t

\* A request acts in a role its account has held, ACTIVE, since the request came: a
\* session outlives a demotion or a suspension by the requests under way at most.
ActsInAHeldRole ==
  \A r \in Requests : pc[r] \in {"read", "owners", "commit"} => request[r].actor \in since[r]

\* Whatever the interleaving of their statements, a first sign-in and an edit take effect
\* at once, on the table as it is at that moment: the counts a request acts on (accounts
\* for FR-002, active Owners for FR-004) are the ones of the commit.
Table == INSTANCE Accounts
ImplementsAccounts == Table!Spec
=============================================================================
