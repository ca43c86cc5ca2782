------------------------------- MODULE Accounts -------------------------------
(***************************************************************************)
(* What the accounts table promises its callers: a first sign-in and an    *)
(* edit each happen at once, whatever else is under way.  AccessControl    *)
(* shows that the statements of findOrCreateAccount and updateAccount,     *)
(* interleaved with those of every other request, amount to this.          *)
(***************************************************************************)
EXTENDS Naturals

CONSTANTS Subjects, Rank, FirstOwner, Nobody, None

VARIABLES
  account,      \* the row of each subject, or None
  appointedBy   \* who first made each account an Owner (itself: nobody did)

table == <<account, appointedBy>>

Known == {s \in Subjects : account[s] # None}

Init ==
  /\ account = [s \in Subjects |-> None]
  /\ appointedBy = [s \in Subjects |-> None]

\* The very first account is an ACTIVE Owner; every other one waits for approval.
Found(s) ==
  /\ Known = {}
  /\ account' = [account EXCEPT ![s] = [rank |-> FirstOwner, version |-> 1]]
  /\ appointedBy' = [appointedBy EXCEPT ![s] = s]

Join(s) ==
  /\ s \notin Known /\ Known # {}
  /\ account' = [account EXCEPT ![s] = [rank |-> Nobody, version |-> 1]]
  /\ UNCHANGED appointedBy

\* Only an account that has been an Owner touches an Owner's rank, and the last
\* active Owner stays one.  Every edit counts one version further.
MayChange(by, s, next) ==
  /\ "OWNER" \in {account[s].rank.role, next.role} => appointedBy[by] # None
  /\ account[s].rank = FirstOwner =>
       next = FirstOwner \/ \E o \in Known \ {s} : account[o].rank = FirstOwner

Change(by, s, next) ==
  /\ MayChange(by, s, next)
  /\ account' = [account EXCEPT ![s] = [rank |-> next, version |-> @.version + 1]]
  /\ appointedBy' = IF next.role = "OWNER" /\ appointedBy[s] = None
                    THEN [appointedBy EXCEPT ![s] = by] ELSE appointedBy

Next ==
  \/ \E s \in Subjects : Found(s) \/ Join(s)
  \/ \E by, s \in Known, next \in Rank : Change(by, s, next)

Spec == Init /\ [][Next]_table
=============================================================================
