------------------------- MODULE AccessControlProofs -------------------------
(***************************************************************************)
(* LastOwner, OwnersGoBackToOne and ActsInAHeldRole for any number of       *)
(* identities and requests and any interleaving of their statements.       *)
(*                                                                         *)
(* Only InsertAccount and CommitAccount write accounts, and only under the  *)
(* lock; what a request read under the lock is therefore still true when it *)
(* writes (Sound).  Every other step changes one request (OtherRequests).   *)
(***************************************************************************)
EXTENDS AccessControl, FiniteSetTheorems, TLAPS

IsUpdate(r) == pc[r] # "idle" /\ request[r].kind = "update"

\* What a request has read and not yet used still holds.
Sound(r) ==
  /\ pc[r] \in InTransaction => lock = r
  /\ pc[r] \in {"authenticate", "read", "owners", "commit"} => request[r].kind = "update"
  /\ pc[r] \in {"find", "count", "insert", "answer"} => request[r].kind = "signIn"
  /\ IsUpdate(r) => request[r].subject \in Rows /\ request[r].target \in Rows
  /\ pc[r] = "answer" => request[r].subject \in Rows
  /\ pc[r] \in {"count", "insert"} => request[r].subject \notin Rows
  /\ pc[r] = "insert" => request[r].count = Cardinality(Rows)
  /\ pc[r] \in {"owners", "commit"} => request[r].found = account[request[r].target].rank
  /\ pc[r] = "commit" =>
       Permitted(request[r].actor, request[r].found, request[r].next, Cardinality(ActiveOwners))
  /\ pc[r] = "authenticate" => HeldBy(request[r].subject) \subseteq since[r]
  /\ IsUpdate(r) /\ pc[r] # "authenticate" => request[r].actor \in since[r]
  /\ IsUpdate(r) /\ "OWNER" \in since[r] => appointedBy[request[r].subject] # None

\* Sessions and appointments belong to accounts that exist.
Known ==
  /\ \A s \in Subjects : cookie[s] # None => s \in Rows
  /\ \A s \in Subjects : appointedBy[s] # None => s \in Rows

IInv ==
  /\ TypeOK
  /\ \A r \in Requests : Sound(r)
  /\ Known
  /\ LastOwner
  /\ OwnersGoBackToOne

-----------------------------------------------------------------------------
LEMMA NoneIsNobody == None \notin Subjects /\ None \notin Requests /\ None \notin Account
BY AccessAssumption

\* A finite set with more than one element has one besides any given.
LEMMA AnotherOne ==
  ASSUME NEW S, IsFiniteSet(S), Cardinality(S) > 1, NEW x
  PROVE  \E y \in S : y # x
<1>1. SUFFICES ASSUME S \subseteq {x} PROVE FALSE
  OBVIOUS
<1>2. IsFiniteSet({x}) /\ Cardinality({x}) = 1
  BY FS_Singleton
<1>3. Cardinality(S) <= Cardinality({x})
  BY <1>1, <1>2, FS_Subset
<1>4. Cardinality(S) \in Nat
  BY FS_CardinalityType
<1>5. QED
  BY <1>2, <1>3, <1>4

LEMMA OwnersFinite ==
  IsFiniteSet(Rows) /\ IsFiniteSet(ActiveOwners)
<1>1. Rows \subseteq Subjects /\ ActiveOwners \subseteq Rows
  BY DEF Rows, ActiveOwners
<1>2. QED
  BY <1>1, AccessAssumption, FS_Subset

\* A step of one request that leaves the accounts alone disturbs no other request.
LEMMA OtherRequests ==
  ASSUME TypeOK, NEW r \in Requests, Sound(r),
         account' = account, appointedBy' = appointedBy,
         pc'[r] = pc[r], request'[r] = request[r], since'[r] = since[r], lock = r => lock' = r
  PROVE  Sound(r)'
BY DEF Sound, IsUpdate, Rows, ActiveOwners, HeldBy, Permitted, RemovesActiveOwner

\* The accounts and what is known of them stay as they are.
LEMMA QuietStep ==
  ASSUME IInv, account' = account, appointedBy' = appointedBy,
         \A s \in Subjects : cookie'[s] # None => cookie[s] # None
  PROVE  Known' /\ LastOwner' /\ OwnersGoBackToOne'
BY DEF IInv, Known, LastOwner, OwnersGoBackToOne, Rows, ActiveOwners

\* A request that is over has nothing left to be sound.
LEMMA EndedIsSound ==
  ASSUME TypeOK, NEW r \in Requests, End(r)
  PROVE  Sound(r)'
BY DEF TypeOK, End, Goto, Sound, IsUpdate, InTransaction

LEMMA EndIsTyped ==
  ASSUME TypeOK, NEW r \in Requests, End(r), account' = account, appointedBy' = appointedBy,
         cookie' \in [Subjects -> Roles \cup {None}]
  PROVE  TypeOK'
BY DEF TypeOK, End, Goto, Point

LEMMA EndSparesOthers ==
  ASSUME TypeOK, \A u \in Requests : Sound(u), NEW r \in Requests, End(r),
         account' = account, appointedBy' = appointedBy
  PROVE  \A u \in Requests : Sound(u)'
<1>1. TAKE u \in Requests
<1>2. CASE u = r
  BY <1>2, EndedIsSound
<1>3. CASE u # r
  <2>1. pc'[u] = pc[u] /\ request'[u] = request[u] /\ since'[u] = since[u] /\ (lock = u => lock' = u)
    BY <1>3 DEF TypeOK, End, Goto
  <2>2. QED
    BY <2>1, OtherRequests
<1>4. QED
  BY <1>2, <1>3

-----------------------------------------------------------------------------
LEMMA InitIInv == Init => IInv
BY DEF Init, IInv, TypeOK, Sound, IsUpdate, Known, LastOwner, OwnersGoBackToOne, Rows, InTransaction

LEMMA SignInStep ==
  ASSUME IInv, NEW r \in Requests, SignIn(r) PROVE IInv'
<1>1. PICK s \in Subjects : request' = [request EXCEPT ![r] =
         [kind |-> "signIn", subject |-> s, target |-> s, seen |-> 0, next |-> Nobody,
          actor |-> "USER", found |-> Nobody, count |-> 0]]
  BY DEF SignIn
<1>2. TypeOK'
  BY <1>1 DEF IInv, TypeOK, SignIn, Goto, Point, Request, Nobody, Rank, Roles, Statuses
<1>3. ASSUME NEW u \in Requests PROVE Sound(u)'
  <2>1. CASE u = r
    BY <1>1, <2>1 DEF IInv, TypeOK, SignIn, Goto, Sound, IsUpdate, InTransaction
  <2>2. CASE u # r
    BY <1>1, <2>2, OtherRequests DEF IInv, TypeOK, SignIn, Goto
  <2>3. QED
    BY <2>1, <2>2
<1>4. Known' /\ LastOwner' /\ OwnersGoBackToOne'
  BY QuietStep DEF SignIn
<1>5. QED
  BY <1>2, <1>3, <1>4 DEF IInv

LEMMA EditStep ==
  ASSUME IInv, NEW r \in Requests, Edit(r) PROVE IInv'
<1>1. PICK s \in Subjects, t \in Rows, next \in Offered :
       /\ cookie[s] # None
       /\ request' = [request EXCEPT ![r] =
            [kind |-> "update", subject |-> s, target |-> t, seen |-> account[t].version,
             next |-> next, actor |-> "USER", found |-> Nobody, count |-> 0]]
       /\ since' = [since EXCEPT ![r] = HeldBy(s)]
  BY DEF Edit
<1>2. account[t] \in Account /\ t \in Subjects /\ next \in Rank /\ s \in Rows
  BY <1>1, AccessAssumption DEF IInv, TypeOK, Rows, Known
<1>3. HeldBy(s) \subseteq Roles
  BY <1>1 DEF IInv, TypeOK, HeldBy, Rows, Account, Rank
<1>4. TypeOK'
  BY <1>1, <1>2, <1>3 DEF IInv, TypeOK, Edit, Goto, Point, Request, Nobody, Rank, Roles, Statuses, Account
<1>5. Rows' = Rows /\ HeldBy(s)' = HeldBy(s)
  BY DEF Edit, Rows, HeldBy
<1>6. "OWNER" \in HeldBy(s) => appointedBy[s] # None
  BY <1>2 DEF IInv, OwnersGoBackToOne, HeldBy
<1>7. ASSUME NEW u \in Requests PROVE Sound(u)'
  <2>1. CASE u = r
    <3>1. /\ pc'[r] = "authenticate" /\ since'[r] = HeldBy(s) /\ appointedBy' = appointedBy
          /\ request'[r].kind = "update" /\ request'[r].subject = s /\ request'[r].target = t
      BY <1>1 DEF IInv, TypeOK, Edit, Goto
    <3>2. QED
      BY <2>1, <3>1, <1>2, <1>5, <1>6 DEF Sound, IsUpdate, InTransaction
  <2>2. CASE u # r
    BY <1>1, <2>2, OtherRequests DEF IInv, TypeOK, Edit, Goto
  <2>3. QED
    BY <2>1, <2>2
<1>8. Known' /\ LastOwner' /\ OwnersGoBackToOne'
  BY QuietStep DEF Edit
<1>9. QED
  BY <1>4, <1>7, <1>8 DEF IInv

\* A request that ends without having written.
LEMMA EndStep ==
  ASSUME IInv, NEW r \in Requests, End(r), UNCHANGED <<account, cookie, appointedBy>> PROVE IInv'
<1>1. TypeOK'
  BY EndIsTyped DEF IInv, TypeOK
<1>2. \A u \in Requests : Sound(u)'
  BY EndSparesOthers DEF IInv
<1>3. Known' /\ LastOwner' /\ OwnersGoBackToOne'
  BY QuietStep
<1>4. QED
  BY <1>1, <1>2, <1>3 DEF IInv

LEMMA AuthenticateStep ==
  ASSUME IInv, NEW r \in Requests, Authenticate(r) PROVE IInv'
<1>1. CASE End(r)
  BY <1>1, EndStep DEF Authenticate
<1>2. CASE ~End(r)
  <2> DEFINE s == request[r].subject
  <2>1. /\ pc[r] = "authenticate" /\ HeldBy(s) # {}
        /\ request' = [request EXCEPT ![r].actor = account[s].rank.role]
        /\ Goto(r, "lock") /\ UNCHANGED <<lock, since, account, cookie, appointedBy>>
    BY <1>2 DEF Authenticate
  <2>2. s \in Rows /\ request[r] \in Request /\ request[r].kind = "update" /\ request[r].target \in Rows
    BY <2>1 DEF IInv, TypeOK, Sound, HeldBy, IsUpdate
  <2>3. account[s].rank.role \in Roles /\ HeldBy(s) = {account[s].rank.role}
    BY <2>1, <2>2 DEF IInv, TypeOK, HeldBy, Rows, Account, Rank
  <2>4. TypeOK'
    BY <2>1, <2>2, <2>3 DEF IInv, TypeOK, Goto, Point, Request
  <2>5. ASSUME NEW u \in Requests PROVE Sound(u)'
    <3>1. CASE u = r
      <4>1. /\ pc'[r] = "lock" /\ request'[r].kind = "update" /\ request'[r].subject = s
            /\ request'[r].target = request[r].target /\ request'[r].actor \in since[r]
        BY <2>1, <2>2, <2>3 DEF IInv, TypeOK, Goto, Request, Sound
      <4>2. Rows' = Rows
        BY <2>1 DEF Rows
      <4>3. "OWNER" \in since[r] => appointedBy[s] # None
        BY <2>1, <2>2 DEF IInv, Sound, IsUpdate
      <4>4. QED
        BY <2>1, <2>2, <3>1, <4>1, <4>2, <4>3 DEF Sound, IsUpdate, InTransaction
    <3>2. CASE u # r
      <4>1. pc'[u] = pc[u] /\ request'[u] = request[u]
        BY <2>1, <3>2 DEF IInv, TypeOK, Goto
      <4>2. QED
        BY <2>1, <4>1, OtherRequests DEF IInv
    <3>3. QED
      BY <3>1, <3>2
  <2>6. Known' /\ LastOwner' /\ OwnersGoBackToOne'
    BY <2>1, QuietStep
  <2>7. QED
    BY <2>4, <2>5, <2>6 DEF IInv
<1>3. QED
  BY <1>1, <1>2

LEMMA LockStep ==
  ASSUME IInv, NEW r \in Requests, LockFirstOwner(r) PROVE IInv'
<1>1. request[r] \in Request
  BY DEF IInv, TypeOK, LockFirstOwner
<1>2. pc'[r] \in {"read", "find"} /\ (pc'[r] = "read" <=> request[r].kind = "update")
  BY DEF IInv, TypeOK, LockFirstOwner, Goto
<1>3. TypeOK'
  BY <1>1 DEF IInv, TypeOK, LockFirstOwner, Goto, Point, InTransaction
<1>4. ASSUME NEW u \in Requests PROVE Sound(u)'
  <2>1. CASE u = r
    <3>1. request'[r] = request[r] /\ since' = since /\ Rows' = Rows /\ lock' = r /\ appointedBy' = appointedBy
      BY DEF LockFirstOwner, Rows
    <3>2. request[r].kind = "signIn" \/ request[r].kind = "update"
      BY <1>1 DEF Request
    <3>3. Sound(r) /\ pc[r] = "lock"
      BY DEF IInv, LockFirstOwner
    <3>4. QED
      BY <1>2, <2>1, <3>1, <3>2, <3>3 DEF Sound, IsUpdate
  <2>2. CASE u # r
    <3>1. pc'[u] = pc[u] /\ lock # u
      BY <2>2, NoneIsNobody DEF IInv, TypeOK, LockFirstOwner, Goto
    <3>2. QED
      BY <3>1, OtherRequests DEF IInv, LockFirstOwner
  <2>3. QED
    BY <2>1, <2>2
<1>5. Known' /\ LastOwner' /\ OwnersGoBackToOne'
  BY QuietStep DEF LockFirstOwner
<1>6. QED
  BY <1>3, <1>4, <1>5 DEF IInv

LEMMA FindStep ==
  ASSUME IInv, NEW r \in Requests, FindAccount(r) PROVE IInv'
<1> DEFINE s == request[r].subject
<1>1. request[r] \in Request /\ request[r].kind = "signIn" /\ lock = r
  BY DEF IInv, TypeOK, Sound, FindAccount, InTransaction
<1>2. CASE s \in Rows
  <2>1. /\ request' = [request EXCEPT ![r].found = account[s].rank]
        /\ lock' = IF lock = r THEN None ELSE lock
        /\ Goto(r, "answer") /\ UNCHANGED <<account, cookie, appointedBy, since>>
    BY <1>2 DEF FindAccount
  <2>2. account[s].rank \in Rank
    BY <1>2 DEF IInv, TypeOK, Rows, Account
  <2>3. TypeOK'
    BY <1>1, <2>1, <2>2 DEF IInv, TypeOK, Goto, Point, Request
  <2>4. ASSUME NEW u \in Requests PROVE Sound(u)'
    <3>1. CASE u = r
      <4>1. pc'[r] = "answer" /\ request'[r].kind = "signIn" /\ request'[r].subject = s /\ Rows' = Rows
        BY <1>1, <2>1 DEF IInv, TypeOK, Goto, Request, Rows
      <4>2. QED
        BY <1>2, <3>1, <4>1 DEF Sound, IsUpdate, InTransaction
    <3>2. CASE u # r
      <4>1. pc'[u] = pc[u] /\ request'[u] = request[u] /\ (lock = u => lock' = u)
        BY <1>1, <2>1, <3>2 DEF IInv, TypeOK, Goto
      <4>2. QED
        BY <2>1, <4>1, OtherRequests DEF IInv
    <3>3. QED
      BY <3>1, <3>2
  <2>5. Known' /\ LastOwner' /\ OwnersGoBackToOne'
    BY <2>1, QuietStep
  <2>6. QED
    BY <2>3, <2>4, <2>5 DEF IInv
<1>3. CASE s \notin Rows
  <2>1. Goto(r, "count") /\ UNCHANGED <<account, cookie, appointedBy, since, request, lock>>
    BY <1>3 DEF FindAccount
  <2>2. TypeOK'
    BY <1>1, <2>1 DEF IInv, TypeOK, Goto, Point, InTransaction
  <2>3. ASSUME NEW u \in Requests PROVE Sound(u)'
    <3>1. CASE u = r
      <4>1. pc'[r] = "count" /\ Rows' = Rows /\ request' = request /\ lock' = lock
        BY <2>1 DEF IInv, TypeOK, Goto, Rows
      <4>2. QED
        BY <1>1, <1>3, <3>1, <4>1 DEF Sound, IsUpdate
    <3>2. CASE u # r
      <4>1. pc'[u] = pc[u]
        BY <2>1, <3>2 DEF IInv, TypeOK, Goto
      <4>2. QED
        BY <2>1, <4>1, OtherRequests DEF IInv
    <3>3. QED
      BY <3>1, <3>2
  <2>4. Known' /\ LastOwner' /\ OwnersGoBackToOne'
    BY <2>1, QuietStep
  <2>5. QED
    BY <2>2, <2>3, <2>4 DEF IInv
<1>4. QED
  BY <1>2, <1>3

LEMMA CountStep ==
  ASSUME IInv, NEW r \in Requests, CountAccounts(r) PROVE IInv'
<1> DEFINE n == Cardinality(Rows)
<1>1. n \in Nat
  BY OwnersFinite, FS_CardinalityType
<1>2. request[r] \in Request /\ request[r].kind = "signIn" /\ lock = r /\ request[r].subject \notin Rows
  BY DEF IInv, TypeOK, Sound, CountAccounts, InTransaction
<1>3. /\ request' = [request EXCEPT ![r].count = n]
      /\ Goto(r, "insert") /\ UNCHANGED <<account, cookie, lock, appointedBy, since>>
  BY DEF CountAccounts
<1>4. TypeOK'
  BY <1>1, <1>2, <1>3 DEF IInv, TypeOK, Goto, Point, InTransaction, Request
<1>5. ASSUME NEW u \in Requests PROVE Sound(u)'
  <2>1. CASE u = r
    <3>1. /\ pc'[r] = "insert" /\ Rows' = Rows /\ lock' = r
          /\ request'[r].kind = "signIn" /\ request'[r].subject = request[r].subject /\ request'[r].count = n
      BY <1>2, <1>3 DEF IInv, TypeOK, Goto, Rows, Request
    <3>2. QED
      BY <1>2, <2>1, <3>1 DEF Sound, IsUpdate
  <2>2. CASE u # r
    <3>1. pc'[u] = pc[u] /\ request'[u] = request[u]
      BY <1>3, <2>2 DEF IInv, TypeOK, Goto
    <3>2. QED
      BY <1>3, <3>1, OtherRequests DEF IInv
  <2>3. QED
    BY <2>1, <2>2
<1>6. Known' /\ LastOwner' /\ OwnersGoBackToOne'
  BY <1>3, QuietStep
<1>7. QED
  BY <1>4, <1>5, <1>6 DEF IInv

LEMMA AnswerStep ==
  ASSUME IInv, NEW r \in Requests, Answer(r) PROVE IInv'
<1>1. request[r] \in Request /\ request[r].subject \in Rows
  BY DEF IInv, TypeOK, Sound, Answer
<1>2. request[r].found.role \in Roles
  BY <1>1 DEF Request, Rank
<1>3. TypeOK'
  <2>1. cookie' \in [Subjects -> Roles \cup {None}]
    BY <1>2 DEF IInv, TypeOK, Answer
  <2>2. QED
    BY <2>1, EndIsTyped DEF IInv, Answer
<1>4. \A u \in Requests : Sound(u)'
  BY EndSparesOthers DEF IInv, Answer
<1>5. Known' /\ LastOwner' /\ OwnersGoBackToOne'
  BY <1>1 DEF IInv, TypeOK, Answer, Known, LastOwner, OwnersGoBackToOne, Rows, ActiveOwners
<1>6. QED
  BY <1>3, <1>4, <1>5 DEF IInv

LEMMA ExpireStep ==
  ASSUME IInv, NEW s \in Subjects, Expire(s) PROVE IInv'
<1>1. TypeOK'
  BY DEF IInv, TypeOK, Expire
<1>2. \A u \in Requests : Sound(u)'
  BY OtherRequests DEF IInv, Expire
<1>3. Known' /\ LastOwner' /\ OwnersGoBackToOne'
  <2>1. \A t \in Subjects : cookie'[t] # None => cookie[t] # None
    BY DEF IInv, TypeOK, Expire
  <2>2. QED
    BY <2>1, QuietStep DEF Expire
<1>4. QED
  BY <1>1, <1>2, <1>3 DEF IInv

LEMMA ReadStep ==
  ASSUME IInv, NEW r \in Requests, ReadAccount(r) PROVE IInv'
<1>1. CASE End(r)
  BY <1>1, EndStep DEF ReadAccount
<1>2. CASE ~End(r)
  <2> DEFINE row == account[request[r].target]
  <2>1. /\ pc[r] = "read"
        /\ request' = [request EXCEPT ![r].found = row.rank]
        /\ Goto(r, "owners") /\ UNCHANGED <<lock, since, account, cookie, appointedBy>>
    BY <1>2 DEF ReadAccount
  <2>2. /\ request[r] \in Request /\ request[r].kind = "update" /\ lock = r
        /\ request[r].target \in Rows /\ request[r].subject \in Rows /\ request[r].actor \in since[r]
        /\ ("OWNER" \in since[r] => appointedBy[request[r].subject] # None)
    BY <2>1 DEF IInv, TypeOK, Sound, IsUpdate, InTransaction
  <2>3. row.rank \in Rank
    BY <2>2 DEF IInv, TypeOK, Rows, Account
  <2>4. TypeOK'
    BY <2>1, <2>2, <2>3 DEF IInv, TypeOK, Goto, Point, InTransaction, Request
  <2>5. ASSUME NEW u \in Requests PROVE Sound(u)'
    <3>1. CASE u = r
      <4>1. /\ pc'[r] = "owners" /\ Rows' = Rows /\ request'[r].found = row.rank
            /\ request'[r].kind = "update" /\ request'[r].subject = request[r].subject
            /\ request'[r].target = request[r].target /\ request'[r].actor = request[r].actor
        BY <2>1, <2>2 DEF IInv, TypeOK, Goto, Rows, Request
      <4>2. QED
        BY <2>1, <2>2, <3>1, <4>1 DEF Sound, IsUpdate
    <3>2. CASE u # r
      <4>1. pc'[u] = pc[u] /\ request'[u] = request[u]
        BY <2>1, <3>2 DEF IInv, TypeOK, Goto
      <4>2. QED
        BY <2>1, <4>1, OtherRequests DEF IInv
    <3>3. QED
      BY <3>1, <3>2
  <2>6. Known' /\ LastOwner' /\ OwnersGoBackToOne'
    BY <2>1, QuietStep
  <2>7. QED
    BY <2>4, <2>5, <2>6 DEF IInv
<1>3. QED
  BY <1>1, <1>2

LEMMA CountOwnersStep ==
  ASSUME IInv, NEW r \in Requests, CountOwners(r) PROVE IInv'
<1> DEFINE n == Cardinality(ActiveOwners)
<1>1. CASE End(r)
  BY <1>1, EndStep DEF CountOwners
<1>2. CASE ~End(r)
  <2>1. /\ pc[r] = "owners"
        /\ Permitted(request[r].actor, request[r].found, request[r].next, n)
        /\ request' = [request EXCEPT ![r].count = n]
        /\ Goto(r, "commit") /\ UNCHANGED <<lock, since, account, cookie, appointedBy>>
    BY <1>2 DEF CountOwners
  <2>2. n \in Nat
    BY OwnersFinite, FS_CardinalityType
  <2>3. /\ request[r] \in Request /\ request[r].kind = "update" /\ lock = r
        /\ request[r].target \in Rows /\ request[r].subject \in Rows /\ request[r].actor \in since[r]
        /\ request[r].found = account[request[r].target].rank
        /\ ("OWNER" \in since[r] => appointedBy[request[r].subject] # None)
    BY <2>1 DEF IInv, TypeOK, Sound, IsUpdate, InTransaction
  <2>4. TypeOK'
    BY <2>1, <2>2, <2>3 DEF IInv, TypeOK, Goto, Point, InTransaction, Request
  <2>5. ASSUME NEW u \in Requests PROVE Sound(u)'
    <3>1. CASE u = r
      <4>1. /\ pc'[r] = "commit" /\ Rows' = Rows /\ ActiveOwners' = ActiveOwners
            /\ request'[r].kind = "update" /\ request'[r].subject = request[r].subject
            /\ request'[r].target = request[r].target /\ request'[r].actor = request[r].actor
            /\ request'[r].found = request[r].found /\ request'[r].next = request[r].next
        BY <2>1, <2>3 DEF IInv, TypeOK, Goto, Rows, ActiveOwners, Request
      <4>2. Permitted(request[r].actor, request[r].found, request[r].next, Cardinality(ActiveOwners))'
        BY <2>1, <4>1 DEF Permitted, RemovesActiveOwner
      <4>3. QED
        BY <2>1, <2>3, <3>1, <4>1, <4>2 DEF Sound, IsUpdate
    <3>2. CASE u # r
      <4>1. pc'[u] = pc[u] /\ request'[u] = request[u]
        BY <2>1, <3>2 DEF IInv, TypeOK, Goto
      <4>2. QED
        BY <2>1, <4>1, OtherRequests DEF IInv
    <3>3. QED
      BY <3>1, <3>2
  <2>6. Known' /\ LastOwner' /\ OwnersGoBackToOne'
    BY <2>1, QuietStep
  <2>7. QED
    BY <2>4, <2>5, <2>6 DEF IInv
<1>3. QED
  BY <1>1, <1>2

-----------------------------------------------------------------------------
(***************************************************************************)
(* The two statements that write accounts.  The writer holds the lock, so   *)
(* no other request is inside a transaction.                               *)
(***************************************************************************)
LEMMA AloneInside ==
  ASSUME IInv, NEW r \in Requests, pc[r] \in InTransaction, NEW u \in Requests, u # r
  PROVE  pc[u] \notin InTransaction
BY DEF IInv, Sound

LEMMA InsertStep ==
  ASSUME IInv, NEW r \in Requests, InsertAccount(r) PROVE IInv'
<1> DEFINE s == request[r].subject
           first == request[r].count = 0
           rank == IF first THEN FirstOwner ELSE Nobody
<1>1. /\ pc[r] = "insert" /\ request[r] \in Request /\ request[r].kind = "signIn" /\ lock = r
      /\ s \in Subjects \ Rows /\ request[r].count = Cardinality(Rows)
  BY DEF IInv, TypeOK, Sound, InsertAccount, InTransaction, Request
<1>2. /\ account' = [account EXCEPT ![s] = [rank |-> rank, version |-> 1]]
      /\ appointedBy' = IF first THEN [appointedBy EXCEPT ![s] = s] ELSE appointedBy
      /\ request' = [request EXCEPT ![r].found = rank]
      /\ lock' = None /\ Goto(r, "answer") /\ UNCHANGED <<cookie, since>>
  BY <1>1 DEF InsertAccount
<1>3. rank \in Rank /\ FirstOwner \in Rank /\ Nobody # FirstOwner
  BY DEF Rank, FirstOwner, Nobody, Roles, Statuses
<1>4. TypeOK'
  BY <1>1, <1>2, <1>3 DEF IInv, TypeOK, Goto, Point, Request, Account
<1>5. first <=> Rows = {}
  BY <1>1, OwnersFinite, FS_EmptySet
<1>6. Rows' = Rows \cup {s}
  <2>1. account'[s] # None
    <3>1. account'[s] \in Account
      BY <1>1, <1>2, <1>3 DEF IInv, TypeOK, Account
    <3>2. QED
      BY <3>1, NoneIsNobody
  <2>2. QED
    BY <1>1, <1>2, <2>1 DEF IInv, TypeOK, Rows
<1>7. \A x \in Rows : account'[x] = account[x] /\ x # s
  BY <1>1, <1>2 DEF IInv, TypeOK, Rows
<1>8. account'[s].rank = rank
  BY <1>1, <1>2 DEF IInv, TypeOK
<1>9. \A x \in Rows : appointedBy'[x] = appointedBy[x]
  BY <1>1, <1>2 DEF IInv, TypeOK, Rows
<1>10. ASSUME NEW u \in Requests PROVE Sound(u)'
  <2>1. CASE u = r
    <3>1. pc'[r] = "answer" /\ request'[r].kind = "signIn" /\ request'[r].subject = s
      BY <1>1, <1>2 DEF IInv, TypeOK, Goto, Request
    <3>2. QED
      BY <1>6, <2>1, <3>1 DEF Sound, IsUpdate, InTransaction
  <2>2. CASE u # r
    <3>1. pc'[u] = pc[u] /\ request'[u] = request[u] /\ since'[u] = since[u] /\ pc[u] \notin InTransaction
      BY <1>1, <1>2, <2>2, AloneInside DEF IInv, TypeOK, Goto, InTransaction
    <3>2. Sound(u)
      BY DEF IInv
    <3>3. IsUpdate(u) => HeldBy(request[u].subject)' = HeldBy(request[u].subject)
      BY <1>6, <1>7, <3>1, <3>2 DEF Sound, HeldBy
    <3>4. QED
      BY <1>6, <1>9, <3>1, <3>2, <3>3 DEF Sound, IsUpdate, InTransaction
  <2>3. QED
    BY <2>1, <2>2
<1>11. Known'
  BY <1>1, <1>2, <1>6 DEF IInv, TypeOK, Known
<1>12. LastOwner'
  <2>1. CASE first
    BY <1>6, <1>8, <2>1 DEF LastOwner, ActiveOwners
  <2>2. CASE ~first
    <3>1. PICK o \in ActiveOwners : TRUE
      BY <1>5, <2>2 DEF IInv, LastOwner
    <3>2. o \in ActiveOwners'
      BY <1>6, <1>7, <3>1 DEF ActiveOwners
    <3>3. QED
      BY <3>2 DEF LastOwner
  <2>3. QED
    BY <2>1, <2>2
<1>13. OwnersGoBackToOne'
  <2>1. CASE first
    <3>1. \A x \in Subjects : appointedBy[x] = None /\ x \notin Rows
      BY <1>5, <2>1 DEF IInv, Known
    <3>2. appointedBy' = [appointedBy EXCEPT ![s] = s] /\ appointedBy \in [Subjects -> Subjects \cup {None}]
      BY <1>2, <2>1 DEF IInv, TypeOK
    <3>3. appointedBy'[s] = s /\ \A x \in Subjects \ {s} : appointedBy'[x] = None
      BY <1>1, <3>1, <3>2
    <3>4. Rows' = {s} /\ s # None
      BY <1>1, <1>5, <1>6, <2>1, NoneIsNobody
    <3>5. \A x \in Rows' : appointedBy'[x] # None
      BY <3>3, <3>4
    <3>6. \A x \in Subjects : appointedBy'[x] # None => x = s
      BY <3>3
    <3>7. \A x \in Subjects : appointedBy'[x] # None => appointedBy'[appointedBy'[x]] # None
      BY <3>3, <3>4, <3>6
    <3>8. \A x, y \in Subjects : appointedBy'[x] = x /\ appointedBy'[y] = y => x = y
      BY <3>6, NoneIsNobody
    <3>9. QED
      BY <3>5, <3>7, <3>8 DEF OwnersGoBackToOne
  <2>2. CASE ~first
    <3>1. appointedBy' = appointedBy /\ account'[s].rank.role # "OWNER"
      BY <1>2, <1>8, <2>2 DEF Nobody
    <3>2. QED
      BY <1>6, <1>7, <3>1 DEF IInv, OwnersGoBackToOne
  <2>3. QED
    BY <2>1, <2>2
<1>14. QED
  BY <1>4, <1>10, <1>11, <1>12, <1>13 DEF IInv

LEMMA CommitStep ==
  ASSUME IInv, NEW r \in Requests, CommitAccount(r) PROVE IInv'
<1> DEFINE t == request[r].target
           a == request[r].subject
           next == request[r].next
           written == account[t].version = request[r].seen
<1>1. /\ pc[r] = "commit" /\ request[r] \in Request /\ request[r].kind = "update" /\ lock = r
      /\ t \in Rows /\ a \in Rows /\ request[r].actor \in since[r]
      /\ request[r].found = account[t].rank
      /\ Permitted(request[r].actor, account[t].rank, next, Cardinality(ActiveOwners))
      /\ ("OWNER" \in since[r] => appointedBy[a] # None)
  BY DEF IInv, TypeOK, Sound, IsUpdate, CommitAccount, InTransaction
<1>2. /\ account' = IF written THEN [account EXCEPT ![t] = [rank |-> next, version |-> @.version + 1]] ELSE account
      /\ appointedBy' = IF written /\ next.role = "OWNER" /\ appointedBy[t] = None
                        THEN [appointedBy EXCEPT ![t] = a] ELSE appointedBy
      /\ since' = [u \in Requests |->
             IF u = r THEN {}
             ELSE IF written /\ pc[u] # "idle" /\ request[u].kind = "update"
                       /\ request[u].subject = t /\ next.status = "ACTIVE"
                  THEN since[u] \cup {next.role} ELSE since[u]]
      /\ Goto(r, "idle") /\ request' = [request EXCEPT ![r] = None] /\ lock' = None /\ cookie' = cookie
  BY <1>1 DEF CommitAccount
<1>3. next \in Rank /\ next.role \in Roles /\ t \in Subjects /\ a \in Subjects /\ account[t] \in Account
  BY <1>1 DEF IInv, TypeOK, Request, Rank, Rows
<1>4. TypeOK'
  <2>1. account' \in [Subjects -> Account \cup {None}]
    BY <1>2, <1>3 DEF IInv, TypeOK, Account
  <2>2. appointedBy' \in [Subjects -> Subjects \cup {None}]
    BY <1>2, <1>3 DEF IInv, TypeOK
  <2>3. since' \in [Requests -> SUBSET Roles]
    BY <1>2, <1>3 DEF IInv, TypeOK
  <2>4. QED
    BY <1>2, <2>1, <2>2, <2>3 DEF IInv, TypeOK, Goto
<1>5. Rows' = Rows
  <2>1. account'[t] # None
    <3>1. account'[t] \in Account
      BY <1>2, <1>3 DEF IInv, TypeOK, Account
    <3>2. QED
      BY <3>1, NoneIsNobody
  <2>2. QED
    BY <1>1, <1>2, <2>1 DEF IInv, TypeOK, Rows
<1>6. \A x \in Subjects \ {t} : account'[x] = account[x] /\ appointedBy'[x] = appointedBy[x]
  BY <1>2 DEF IInv, TypeOK
<1>7. written => account'[t].rank = next
  BY <1>2, <1>3 DEF IInv, TypeOK
<1>8. \A x \in Subjects : appointedBy[x] # None => appointedBy'[x] = appointedBy[x]
  BY <1>2, <1>3 DEF IInv, TypeOK
<1>9. written /\ next.role = "OWNER" => appointedBy'[t] # None
  BY <1>2, <1>3, NoneIsNobody DEF IInv, TypeOK
<1>10. ASSUME NEW u \in Requests PROVE Sound(u)'
  <2>1. CASE u = r
    BY <1>2, <2>1 DEF IInv, TypeOK, Goto, Sound, IsUpdate, InTransaction
  <2>2. CASE u # r
    <3> DEFINE b == request[u].subject
    <3>1. pc'[u] = pc[u] /\ request'[u] = request[u] /\ pc[u] \notin InTransaction
      BY <1>1, <1>2, <2>2, AloneInside DEF IInv, TypeOK, Goto, InTransaction
    <3>2. Sound(u)
      BY DEF IInv
    <3>3. since'[u] = IF written /\ IsUpdate(u) /\ b = t /\ next.status = "ACTIVE"
                      THEN since[u] \cup {next.role} ELSE since[u]
      BY <1>2, <2>2 DEF IsUpdate
    <3>4. IsUpdate(u) => b \in Rows /\ b \in Subjects
      BY <3>2 DEF Sound, Rows
    <3>5. IsUpdate(u) /\ HeldBy(b) \subseteq since[u] => HeldBy(b)' \subseteq since'[u]
      <4>1. CASE ~written \/ b # t
        <5>1. IsUpdate(u) => account'[b] = account[b] /\ b' = b
          BY <1>2, <1>6, <3>1, <3>4, <4>1
        <5>2. QED
          BY <1>5, <3>1, <3>3, <3>4, <5>1 DEF HeldBy
      <4>2. CASE written /\ b = t
        BY <1>5, <1>7, <3>1, <3>3, <4>2 DEF HeldBy
      <4>3. QED
        BY <4>1, <4>2
    <3>6. IsUpdate(u) /\ "OWNER" \in since'[u] => appointedBy'[b] # None
      BY <1>3, <1>8, <1>9, <3>2, <3>3, <3>4 DEF Sound, Rows
    <3>7. QED
      BY <1>5, <3>1, <3>2, <3>3, <3>5, <3>6 DEF Sound, IsUpdate, InTransaction
  <2>3. QED
    BY <2>1, <2>2
<1>11. Known'
  BY <1>1, <1>2, <1>5, <1>6 DEF IInv, Known
<1>12. LastOwner'
  <2>1. CASE ~written
    BY <1>2, <2>1 DEF IInv, LastOwner, Rows, ActiveOwners
  <2>2. CASE written /\ next = FirstOwner
    BY <1>1, <1>5, <1>7, <2>2 DEF LastOwner, ActiveOwners
  <2>3. CASE written /\ next # FirstOwner
    <3>1. PICK o \in ActiveOwners : o # t
      <4>1. CASE t \in ActiveOwners
        <5>1. Cardinality(ActiveOwners) > 1
          BY <1>1, <2>3, <4>1 DEF Permitted, RemovesActiveOwner, ActiveOwners
        <5>2. QED
          BY <5>1, OwnersFinite, AnotherOne
      <4>2. CASE t \notin ActiveOwners
        BY <1>1, <4>2 DEF IInv, LastOwner
      <4>3. QED
        BY <4>1, <4>2
    <3>2. o \in ActiveOwners'
      BY <1>5, <1>6, <3>1 DEF ActiveOwners, Rows
    <3>3. QED
      BY <3>2 DEF LastOwner
  <2>4. QED
    BY <2>1, <2>2, <2>3
<1>13. OwnersGoBackToOne'
  <2>1. \A x \in Rows' : account'[x].rank.role = "OWNER" => appointedBy'[x] # None
    BY <1>2, <1>5, <1>6, <1>7, <1>8, <1>9 DEF IInv, OwnersGoBackToOne, Rows
  <2>2. CASE appointedBy' = appointedBy
    BY <2>1, <2>2 DEF IInv, OwnersGoBackToOne
  <2>3. CASE appointedBy' # appointedBy
    <3>1. written /\ next.role = "OWNER" /\ appointedBy[t] = None /\ appointedBy' = [appointedBy EXCEPT ![t] = a]
      BY <1>2, <2>3
    <3>2. request[r].actor = "OWNER"
      BY <1>1, <3>1 DEF Permitted
    <3>3. appointedBy[a] # None /\ a # t
      BY <1>1, <3>1, <3>2
    <3>4. appointedBy'[t] = a /\ appointedBy \in [Subjects -> Subjects \cup {None}]
      BY <1>3, <3>1 DEF IInv, TypeOK
    <3>5. \A x \in Subjects : appointedBy'[x] # None => appointedBy'[appointedBy'[x]] # None
      <4>1. TAKE x \in Subjects
      <4>2. CASE x = t
        BY <1>3, <1>8, <3>3, <3>4, <4>2
      <4>3. CASE x # t
        BY <1>6, <1>8, <3>4, <4>3 DEF IInv, OwnersGoBackToOne
      <4>4. QED
        BY <4>2, <4>3
    <3>6. \A x, y \in Subjects : appointedBy'[x] = x /\ appointedBy'[y] = y => x = y
      BY <1>6, <3>3, <3>4 DEF IInv, OwnersGoBackToOne
    <3>7. QED
      BY <2>1, <3>5, <3>6 DEF OwnersGoBackToOne
  <2>4. QED
    BY <2>2, <2>3
<1>14. QED
  BY <1>4, <1>10, <1>11, <1>12, <1>13 DEF IInv

-----------------------------------------------------------------------------
\* Every step of sign-in and of an edit keeps the inductive invariant.
THEOREM NextIInv == IInv /\ [Next]_vars => IInv'
<1> SUFFICES ASSUME IInv, [Next]_vars PROVE IInv'
  OBVIOUS
<1>1. CASE UNCHANGED vars
  <2>1. TypeOK'
    BY <1>1 DEF IInv, TypeOK, vars
  <2>2. \A u \in Requests : Sound(u)'
    BY <1>1, OtherRequests DEF IInv, vars
  <2>3. Known' /\ LastOwner' /\ OwnersGoBackToOne'
    BY <1>1, QuietStep DEF vars
  <2>4. QED
    BY <2>1, <2>2, <2>3 DEF IInv
<1>2. ASSUME NEW r \in Requests, Step(r) PROVE IInv'
  <2>1. Refuse(r) \/ Rollback(r) => End(r) /\ UNCHANGED <<account, cookie, appointedBy>>
    BY DEF Refuse, Rollback
  <2>2. QED
    BY <1>2, <2>1, EndStep, SignInStep, EditStep, AuthenticateStep, LockStep, FindStep, CountStep,
       InsertStep, AnswerStep, ReadStep, CountOwnersStep, CommitStep DEF Step
<1>3. ASSUME NEW s \in Subjects, Expire(s) PROVE IInv'
  BY <1>3, ExpireStep
<1>4. QED
  BY <1>1, <1>2, <1>3 DEF Next

LEMMA Invariance == Spec => []IInv
BY InitIInv, NextIInv, PTL DEF Spec

\* The accounts, cookies and requests keep their types (accounts/service.ts).
THEOREM TypeCorrect == Spec => []TypeOK
<1>1. IInv => TypeOK
  BY DEF IInv
<1>2. QED
  BY Invariance, <1>1, PTL

\* As soon as there is an account there is an active Owner: validateAccountTransition
\* under the firstOwner lock, for any number of Owners who edit each other at once.
THEOREM OwnerRemains == Spec => []LastOwner
<1>1. IInv => LastOwner
  BY DEF IInv
<1>2. QED
  BY Invariance, <1>1, PTL

\* One account made itself an Owner, and every other Owner was appointed by one:
\* findOrCreateAccount and updateAccount, for any number of identities.
THEOREM OneFirstOwner == Spec => []OwnersGoBackToOne
<1>1. IInv => OwnersGoBackToOne
  BY DEF IInv
<1>2. QED
  BY Invariance, <1>1, PTL

\* A request acts in a role its account has held since the request came
\* (authenticateSession reads the role from the row, not from the cookie).
THEOREM NoStaleAuthority == Spec => []ActsInAHeldRole
<1>1. IInv => ActsInAHeldRole
  BY DEF IInv, Sound, IsUpdate, ActsInAHeldRole
<1>2. QED
  BY Invariance, <1>1, PTL
-----------------------------------------------------------------------------
(***************************************************************************)
(* The table changes as Accounts says.  What a request counted is still so  *)
(* at its one write (Sound): InsertAccount founds or joins, CommitAccount    *)
(* changes a row or nothing, no other statement writes.                    *)
(***************************************************************************)
LEMMA InitTable == Init => Table!Init
BY DEF Init, Table!Init

LEMMA InsertIsJoin ==
  ASSUME IInv, NEW r \in Requests, InsertAccount(r)
  PROVE  Table!Next
<1> DEFINE s == request[r].subject
           first == request[r].count = 0
<1>1. s \in Subjects /\ s \notin Rows /\ request[r].count = Cardinality(Rows)
  BY DEF IInv, TypeOK, Sound, InsertAccount, Request
<1>2. first <=> Rows = {}
  BY <1>1, OwnersFinite, FS_EmptySet
<1>3. Table!Known = Rows
  BY DEF Table!Known, Rows
<1>4. CASE first
  <2>1. Table!Found(s)
    BY <1>2, <1>3, <1>4 DEF InsertAccount, Table!Found
  <2>2. QED
    BY <1>1, <2>1 DEF Table!Next
<1>5. CASE ~first
  <2>1. Table!Join(s)
    BY <1>1, <1>2, <1>3, <1>5 DEF InsertAccount, Table!Join
  <2>2. QED
    BY <1>1, <2>1 DEF Table!Next
<1>6. QED
  BY <1>4, <1>5

LEMMA CommitIsChange ==
  ASSUME IInv, NEW r \in Requests, CommitAccount(r)
  PROVE  Table!Next \/ UNCHANGED Table!table
<1> DEFINE by == request[r].subject
           s == request[r].target
           next == request[r].next
           written == account[s].version = request[r].seen
<1>1. /\ by \in Rows /\ s \in Rows /\ next \in Rank /\ request[r].actor \in since[r]
      /\ Permitted(request[r].actor, account[s].rank, next, Cardinality(ActiveOwners))
      /\ ("OWNER" \in since[r] => appointedBy[by] # None)
  BY DEF IInv, TypeOK, Sound, IsUpdate, CommitAccount, Request
<1>2. Table!Known = Rows
  BY DEF Table!Known, Rows
<1>3. "OWNER" \in {account[s].rank.role, next.role} => appointedBy[by] # None
  BY <1>1 DEF Permitted
<1>4. ASSUME account[s].rank = FirstOwner, next # FirstOwner
      PROVE  \E o \in Rows \ {s} : account[o].rank = FirstOwner
  <2>1. Cardinality(ActiveOwners) > 1
    BY <1>1, <1>4 DEF Permitted, RemovesActiveOwner
  <2>2. PICK o \in ActiveOwners : o # s
    BY <2>1, OwnersFinite, AnotherOne
  <2>3. QED
    BY <2>2 DEF ActiveOwners
<1>5. Table!MayChange(by, s, next)
  BY <1>2, <1>3, <1>4 DEF Table!MayChange
<1>6. CASE written
  <2>1. Table!Change(by, s, next)
    BY <1>5, <1>6 DEF CommitAccount, Table!Change
  <2>2. QED
    BY <1>1, <1>2, <2>1 DEF Table!Next
<1>7. CASE ~written
  BY <1>7 DEF CommitAccount, Table!table
<1>8. QED
  BY <1>6, <1>7

LEMMA TableStep == IInv /\ [Next]_vars => [Table!Next]_Table!table
<1> SUFFICES ASSUME IInv, [Next]_vars PROVE Table!Next \/ UNCHANGED Table!table
  OBVIOUS
<1>1. CASE UNCHANGED vars
  BY <1>1 DEF vars, Table!table
<1>2. ASSUME NEW r \in Requests, Step(r) PROVE Table!Next \/ UNCHANGED Table!table
  <2>1. CASE InsertAccount(r)
    BY <2>1, InsertIsJoin
  <2>2. CASE CommitAccount(r)
    BY <2>2, CommitIsChange
  <2>3. CASE ~InsertAccount(r) /\ ~CommitAccount(r)
    BY <1>2, <2>3 DEF Step, SignIn, Edit, Refuse, Authenticate, LockFirstOwner, FindAccount, CountAccounts,
       Answer, ReadAccount, CountOwners, Rollback, Table!table
  <2>4. QED
    BY <2>1, <2>2, <2>3
<1>3. ASSUME NEW s \in Subjects, Expire(s) PROVE Table!Next \/ UNCHANGED Table!table
  BY <1>3 DEF Expire, Table!table
<1>4. QED
  BY <1>1, <1>2, <1>3 DEF Next

\* Sign-ins and edits are linearizable: under the firstOwner lock the statements of any
\* number of requests amount to whole steps of Accounts (findOrCreateAccount, updateAccount).
THEOREM AccountsImplemented == Spec => ImplementsAccounts
BY Invariance, InitTable, TableStep, PTL DEF Spec, ImplementsAccounts, Table!Spec
=============================================================================
