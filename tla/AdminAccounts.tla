--------------------------- MODULE AdminAccounts ---------------------------
(***************************************************************************)
(* One administrator account. Accounts come into being, and passwords are  *)
(* reset, by create_admin.py, which render-start.sh runs at every boot and *)
(* an operator runs by hand: runs overlap.                                 *)
(***************************************************************************)
EXTENDS Naturals

CONSTANTS
    Operators,  \* runs of create_admin, each with a password of its own
    NoAccount

ASSUME AccountsAssumption ==
    /\ NoAccount \notin Operators \cup {"admin", "super_admin"}
    /\ NoAccount \notin [password : Operators, role : {"admin", "super_admin"}]

VARIABLES
    account,    \* the committed users row: whose password, which role
    admin,      \* each run: where it is, its role, the role it has read, its report
    latest,     \* history: the run that reported success last
    overlapped  \* history: runs that were not alone

accountVars == <<account, admin, latest, overlapped>>

\* UserRole has two more, which create_admin never gives.
Role == {"admin", "super_admin"}

AccountsTypeOK ==
    /\ account \in [password : Operators, role : Role] \cup {NoAccount}
    /\ admin \in [Operators ->
          [at : {"new", "find", "check", "update", "insert", "over"}, role : Role,
           read : Role \cup {NoAccount},
           report : {"none", "created", "updated", "exists", "failed"}]]
    /\ latest \in Operators \cup {NoAccount}
    /\ overlapped \subseteq Operators

AccountsInit ==
    /\ account = NoAccount
    /\ admin = [o \in Operators |->
                  [at |-> "new", role |-> "admin", read |-> NoAccount,
                   report |-> "none"]]
    /\ latest = NoAccount
    /\ overlapped = {}

Active == {o \in Operators : admin[o].at \notin {"new", "over"}}

Over(o, report) ==
    /\ admin' = [admin EXCEPT ![o] =
          [@ EXCEPT !.at = "over", !.read = NoAccount, !.report = report]]
    /\ latest' = IF report \in {"created", "updated"} THEN o ELSE latest

StartAdmin(o) ==
    /\ admin[o].at = "new"
    /\ \E role \in Role :
          admin' = [admin EXCEPT ![o] = [@ EXCEPT !.at = "find", !.role = role]]
    /\ overlapped' = IF Active = {} THEN overlapped
                     ELSE overlapped \cup Active \cup {o}
    /\ UNCHANGED <<account, latest>>

FindAccount(o) ==
    /\ admin[o].at = "find"
    /\ admin' = [admin EXCEPT ![o] =
          IF account = NoAccount THEN [@ EXCEPT !.at = "check"]
          ELSE [@ EXCEPT !.at = "update", !.read = account.role]]
    /\ UNCHANGED <<account, latest, overlapped>>

\* The ORM writes the columns whose value has changed since it read the row: the
\* new hash always, the role only if it is not the one that was read.
Updated(o) ==
    [password |-> o,
     role |-> IF admin[o].role = admin[o].read THEN account.role ELSE admin[o].role]

UpdateAccount(o) ==
    /\ admin[o].at = "update"
    /\ account' = Updated(o)
    /\ Over(o, "updated")
    /\ UNCHANGED overlapped

\* register_user looks for itself ...
CheckAccount(o) ==
    /\ admin[o].at = "check"
    /\ IF account = NoAccount
       THEN /\ admin' = [admin EXCEPT ![o] = [@ EXCEPT !.at = "insert"]]
            /\ UNCHANGED latest
       ELSE Over(o, "exists")
    /\ UNCHANGED <<account, overlapped>>

Inserted(o) == [password |-> o, role |-> admin[o].role]

\* Mutant of InsertAccount: losing the race is taken for success.
InsertAnyhow(o) ==
    /\ admin[o].at = "insert"
    /\ account' = IF account = NoAccount THEN Inserted(o) ELSE account
    /\ Over(o, "created")
    /\ UNCHANGED overlapped

\* ... and still may lose: UNIQUE (org_id, email) refuses the second row.
InsertAccount(o) ==
    /\ admin[o].at = "insert"
    /\ IF account = NoAccount
       THEN account' = Inserted(o) /\ Over(o, "created")
       ELSE UNCHANGED account /\ Over(o, "exists")
    /\ UNCHANGED overlapped

\* The database does not answer: a traceback, whether or not it has committed.
AdminFails(o) ==
    /\ o \in Active
    /\ \/ UNCHANGED account
       \/ admin[o].at = "update" /\ account' = Updated(o)
       \/ admin[o].at = "insert" /\ account = NoAccount /\ account' = Inserted(o)
    /\ Over(o, "failed")
    /\ UNCHANGED overlapped

AccountsNext ==
    \E o \in Operators :
        \/ StartAdmin(o) \/ FindAccount(o) \/ UpdateAccount(o)
        \/ CheckAccount(o) \/ InsertAccount(o) \/ AdminFails(o)

AccountsSpec == AccountsInit /\ [][AccountsNext]_accountVars

\* create_admin, register_user: whatever other runs came between, the password of
\* the account is that of the run that last said "Created" or "Updated", or of one
\* that failed at its commit, and so is the role if that run met no other. (If it
\* did, the account may end with one run's password and another's role.)
AccountIsAsReported ==
    /\ latest # NoAccount => account # NoAccount
    /\ account # NoAccount =>
          /\ account.password = latest \/ admin[account.password].report = "failed"
          /\ account.password \notin overlapped => account.role = admin[account.password].role
=============================================================================
