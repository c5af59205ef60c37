------------------------------ MODULE Accounts ------------------------------
(***************************************************************************)
(* User accounts and the requests for access to departments and security   *)
(* levels.  Administrators disable, delete and re-role accounts under one  *)
(* application lock, so that an active administrator is always left;       *)
(* reviewers decide access requests in transactions that read the status   *)
(* of the request without locking it; and the move of a department takes   *)
(* its members along (module DepartmentMove has what it does to the        *)
(* documents).  A transaction is two steps: what it reads, and its commit. *)
(*                                                                         *)
(* Left out: the audit log, the status of the departments that are moved,  *)
(* and the clearing of the answer cache after a change (module Answers     *)
(* validates what it serves).                                              *)
(***************************************************************************)
EXTENDS Naturals

CONSTANTS
  UserIds,        \* rows of Users
  RequestIds,     \* rows of AccessRequests
  Departments,    \* departments that may be asked for
  Levels,         \* security levels: public, internal, confidential
  Transactions,   \* slots for transactions in flight
  NoTransaction,  \* nobody holds the lock
  NoLevel,        \* no row in UserSecurityClearance
  MaxGifts        \* bound: direct changes of what a user holds

ASSUME AccountsAssumptions ==
  /\ NoTransaction \notin Transactions
  /\ NoLevel \notin Levels
  /\ MaxGifts \in Nat

VARIABLES
  account,        \* Users, and the rows of UserRoles that make an admin
  clearance,      \* UserSecurityClearance.MaxLevel, NoLevel without a row
  membership,     \* UserDepartments
  accessRequest,  \* AccessRequests
  txn,            \* what each transaction has read and is about to commit
  adminLock,      \* the holder of MechChatbot.ActiveAdminMutation
  given,          \* history: what an administrator gave to a user directly
  gifts,          \* direct changes so far
  overtaken,      \* history: requests approved, and rejected by one who had read "pending" before
  came            \* history: <<u, d, e>> if moves took u along from d to e, one after the other

accountVars == <<account, clearance, membership, accessRequest, txn, adminLock,
                 given, gifts, overtaken, came>>

-----------------------------------------------------------------------------
(* Data *)

\* Ids are never used again: an account that was deleted stays deleted.
Account == [state : {"absent", "present", "deleted"}, active : BOOLEAN, admin : BOOLEAN]

\* What a request asks for.
Wish == [type : {"security"}, value : Levels] \cup [type : {"department"}, value : Departments]

Status == {"pending", "approved", "rejected"}
AccessRequest == [status : Status, user : UserIds, wish : Wish]
Unused == [status |-> "unused"]

Operation == {"disable", "delete", "drop_admin"}

NoTxn == [step |-> "idle"]
AdminTxn == [step : {"admin"}, operation : Operation, user : UserIds]
CreateTxn == [step : {"create"}, user : UserIds, wish : Wish]
DecideTxn == [step : {"decide"}, id : RequestIds, decision : {"approved", "rejected"},
              read : Status]
TransferTxn == [step : {"transfer"}, from : Departments, to : Departments, users : SUBSET UserIds]
Txn == AdminTxn \cup CreateTxn \cup DecideTxn \cup TransferTxn \cup {NoTxn}

ActiveAdmin(u) == account[u].state = "present" /\ account[u].active /\ account[u].admin

\* At least one active administrator to begin with, and no requests.
AccountsInit ==
  /\ account \in [UserIds -> [state : {"present"}, active : {TRUE}, admin : BOOLEAN]
                               \cup [state : {"absent"}, active : {TRUE}, admin : {FALSE}]]
  /\ \E u \in UserIds : ActiveAdmin(u)
  /\ clearance = [u \in UserIds |-> NoLevel]
  /\ membership = [u \in UserIds |-> {}]
  /\ accessRequest = [q \in RequestIds |-> Unused]
  /\ txn = [t \in Transactions |-> NoTxn]
  /\ adminLock = NoTransaction
  /\ given = {}
  /\ gifts = 0
  /\ overtaken = {}
  /\ came = {}

-----------------------------------------------------------------------------
(* Administrators.  Disabling, deleting and taking the admin role away run   *)
(* under one lock, which is released when the transaction ends.              *)

Begin(t, work) ==
  /\ txn[t] = NoTxn
  /\ txn' = [txn EXCEPT ![t] = work]

End(t) == txn' = [txn EXCEPT ![t] = NoTxn]

grants == <<clearance, membership, given, gifts, came>>

Gift == gifts < MaxGifts /\ gifts' = gifts + 1

\* _user_is_admin and _other_active_admin_count
LastAdmin(u) == account[u].admin /\ ~\E v \in UserIds \ {u} : ActiveAdmin(v)

\* Mutant of BeginAdmin: the guards are read without the lock.
BeginAdminUnlocked(t, operation, u) ==
  /\ account[u].state = "present"
  /\ ~LastAdmin(u)
  /\ Begin(t, [step |-> "admin", operation |-> operation, user |-> u])
  /\ adminLock' = t
  /\ UNCHANGED <<account, grants, accessRequest, overtaken>>

\* The guards are read when the lock has been taken; a refused operation ends here.
BeginAdmin(t, operation, u) ==
  /\ adminLock = NoTransaction
  /\ account[u].state = "present"
  /\ ~LastAdmin(u)
  /\ Begin(t, [step |-> "admin", operation |-> operation, user |-> u])
  /\ adminLock' = t
  /\ UNCHANGED <<account, grants, accessRequest, overtaken>>

CommitAdmin(t) ==
  LET u == txn[t].user IN
  /\ txn[t].step = "admin"
  /\ End(t)
  /\ adminLock' = NoTransaction
  /\ account' = CASE txn[t].operation = "disable"    -> [account EXCEPT ![u].active = FALSE]
                  [] txn[t].operation = "drop_admin" -> [account EXCEPT ![u].admin = FALSE]
                  [] txn[t].operation = "delete"     ->
                       [account EXCEPT ![u] = [state |-> "deleted", active |-> FALSE,
                                               admin |-> FALSE]]
  /\ IF txn[t].operation = "delete"
       THEN /\ accessRequest' = [q \in RequestIds |->
                 IF accessRequest[q].status = "pending" /\ accessRequest[q].user = u
                   THEN [accessRequest[q] EXCEPT !.status = "rejected"]
                   ELSE accessRequest[q]]
            /\ clearance' = [clearance EXCEPT ![u] = NoLevel]
            /\ membership' = [membership EXCEPT ![u] = {}]
       ELSE UNCHANGED <<accessRequest, clearance, membership>>
  /\ UNCHANGED <<given, gifts, overtaken, came>>

\* set_user_active_status and update_user_active_and_roles, which only add here and
\* need no second step.
Enable(u) ==
  /\ adminLock = NoTransaction
  /\ account[u].state = "present"
  /\ account' = [account EXCEPT ![u].active = TRUE]
  /\ UNCHANGED <<grants, accessRequest, txn, adminLock, overtaken>>

MakeAdmin(u) ==
  /\ adminLock = NoTransaction
  /\ account[u].state = "present"
  /\ account' = [account EXCEPT ![u].admin = TRUE]
  /\ UNCHANGED <<grants, accessRequest, txn, adminLock, overtaken>>

DepartmentWish(d) == [type |-> "department", value |-> d]

\* create_user_with_roles takes no lock; it inserts the roles and the departments, too.
CreateUser(u, admin, ds) ==
  /\ account[u].state = "absent"
  /\ account' = [account EXCEPT ![u] = [state |-> "present", active |-> TRUE, admin |-> admin]]
  /\ membership' = [membership EXCEPT ![u] = @ \cup ds]
  /\ given' = given \cup {<<u, DepartmentWish(d)>> : d \in ds}
  /\ UNCHANGED <<clearance, accessRequest, txn, adminLock, gifts, overtaken, came>>

\* set_user_clearance and revoke_user_clearance; the foreign key wants the account.
SetClearance(u, level) ==
  /\ Gift
  /\ account[u].state = "present"
  /\ clearance' = [clearance EXCEPT ![u] = level]
  /\ given' = given \cup {<<u, [type |-> "security", value |-> level]>>}
  /\ UNCHANGED <<account, membership, accessRequest, txn, adminLock, overtaken, came>>

\* set_user_departments
SetDepartments(u, ds) ==
  /\ Gift
  /\ membership' = [membership EXCEPT ![u] = ds]
  /\ given' = given \cup {<<u, DepartmentWish(d)>> : d \in ds}
  /\ UNCHANGED <<account, clearance, accessRequest, txn, adminLock, overtaken, came>>

\* revoke_user_department
RevokeDepartment(u, d) ==
  /\ membership' = [membership EXCEPT ![u] = @ \ {d}]
  /\ UNCHANGED <<account, clearance, accessRequest, txn, adminLock, given, gifts, overtaken, came>>

-----------------------------------------------------------------------------
(* The move of a department takes its members along. *)

\* Where u was a member before moves took him to d.
Origins(u, d) == {d} \cup {e \in Departments : <<u, e, d>> \in came}

\* Mutant of BeginTransfer: the users are read without the condition on the department.
BeginTransferOfAll(t, from, to) ==
  /\ from # to
  /\ Begin(t, [step |-> "transfer", from |-> from, to |-> to, users |-> UserIds])
  /\ UNCHANGED <<account, grants, accessRequest, adminLock, overtaken>>

\* reassign_department_data reads who belongs to the department, without keeping a lock ...
BeginTransfer(t, from, to) ==
  /\ from # to
  /\ Begin(t, [step |-> "transfer", from |-> from, to |-> to,
               users |-> {u \in UserIds : from \in membership[u]}])
  /\ UNCHANGED <<account, grants, accessRequest, adminLock, overtaken>>

\* ... deletes all rows of the department and inserts one for each user it has read, be his
\* membership revoked or his account deleted meanwhile.
CommitTransfer(t) ==
  LET x == txn[t] IN
  /\ x.step = "transfer"
  /\ membership' = [u \in UserIds |-> (membership[u] \ {x.from})
                                        \cup (IF u \in x.users THEN {x.to} ELSE {})]
  /\ came' = came \cup {step \in x.users \X Departments \X {x.to} :
                          step[2] \in Origins(step[1], x.from) \ {x.to}}
  /\ End(t)
  /\ UNCHANGED <<account, clearance, accessRequest, adminLock, given, gifts, overtaken>>

-----------------------------------------------------------------------------
(* Access requests *)

Duplicate(u, wish) ==
  \E q \in RequestIds : /\ accessRequest[q].status = "pending"
                        /\ accessRequest[q].user = u
                        /\ accessRequest[q].wish = wish

\* create_access_request looks for a pending request like this one ...
BeginCreate(t, u, wish) ==
  /\ account[u].state = "present" /\ account[u].active
  /\ ~Duplicate(u, wish)
  /\ Begin(t, [step |-> "create", user |-> u, wish |-> wish])
  /\ UNCHANGED <<account, grants, accessRequest, adminLock, overtaken>>

\* ... and inserts its own, for whoever the session belonged to.
CommitCreate(t, q) ==
  /\ txn[t].step = "create"
  /\ accessRequest[q] = Unused
  /\ accessRequest' = [accessRequest EXCEPT ![q] =
       [status |-> "pending", user |-> txn[t].user, wish |-> txn[t].wish]]
  /\ End(t)
  /\ UNCHANGED <<account, grants, adminLock, overtaken>>

\* Mutant of BeginDecide: a request may be decided again.
BeginDecideAny(t, q, decision) ==
  /\ accessRequest[q] # Unused
  /\ Begin(t, [step |-> "decide", id |-> q, decision |-> decision,
               read |-> accessRequest[q].status])
  /\ UNCHANGED <<account, grants, accessRequest, adminLock, overtaken>>

\* resolve_access_request reads the status without locking the row ...
BeginDecide(t, q, decision) ==
  /\ accessRequest[q].status = "pending"
  /\ Begin(t, [step |-> "decide", id |-> q, decision |-> decision,
               read |-> accessRequest[q].status])
  /\ UNCHANGED <<account, grants, accessRequest, adminLock, overtaken>>

\* MERGE sets the level the request names, be it above or below the present one; an
\* account that is gone violates the foreign key.
Apply(u, wish) ==
  IF wish.type = "security"
    THEN /\ account[u].state = "present"
         /\ clearance' = [clearance EXCEPT ![u] = wish.value]
         /\ UNCHANGED membership
    ELSE /\ membership' = [membership EXCEPT ![u] = @ \cup {wish.value}]
         /\ UNCHANGED clearance

\* ... and writes the decision whatever the status is by then.
CommitDecide(t) ==
  LET q == txn[t].id
      request == accessRequest[q]
  IN
  /\ txn[t].step = "decide"
  /\ IF txn[t].decision = "approved" THEN Apply(request.user, request.wish)
                                     ELSE UNCHANGED <<clearance, membership>>
  /\ accessRequest' = [accessRequest EXCEPT ![q].status = txn[t].decision]
  /\ overtaken' = IF /\ txn[t].read = "pending" /\ txn[t].decision = "rejected"
                     /\ request.status = "approved"
                    THEN overtaken \cup {q} ELSE overtaken
  /\ End(t)
  /\ UNCHANGED <<account, given, gifts, adminLock, came>>

\* A failed statement, a lost connection or a crash: the transaction leaves nothing.
RollBack(t) ==
  /\ txn[t] # NoTxn
  /\ End(t)
  /\ adminLock' = IF adminLock = t THEN NoTransaction ELSE adminLock
  /\ UNCHANGED <<account, grants, accessRequest, overtaken>>

-----------------------------------------------------------------------------
Administer ==
  \/ \E t \in Transactions, o \in Operation, u \in UserIds : BeginAdmin(t, o, u)
  \/ \E t \in Transactions : CommitAdmin(t)
  \/ \E u \in UserIds : Enable(u) \/ MakeAdmin(u)
  \/ \E u \in UserIds, admin \in BOOLEAN, ds \in SUBSET Departments : CreateUser(u, admin, ds)
  \/ \E u \in UserIds, level \in Levels : SetClearance(u, level)
  \/ \E u \in UserIds, ds \in SUBSET Departments : SetDepartments(u, ds)
  \/ \E u \in UserIds, d \in Departments : RevokeDepartment(u, d)

MoveMembers ==
  \/ \E t \in Transactions, from, to \in Departments : BeginTransfer(t, from, to)
  \/ \E t \in Transactions : CommitTransfer(t)

AskForAccess ==
  \/ \E t \in Transactions, u \in UserIds, wish \in Wish : BeginCreate(t, u, wish)
  \/ \E t \in Transactions, q \in RequestIds : CommitCreate(t, q)
  \/ \E t \in Transactions, q \in RequestIds, d \in {"approved", "rejected"} :
       BeginDecide(t, q, d)
  \/ \E t \in Transactions : CommitDecide(t)

AccountsNext ==
  \/ Administer
  \/ MoveMembers
  \/ AskForAccess
  \/ \E t \in Transactions : RollBack(t)

AccountsSpec == AccountsInit /\ [][AccountsNext]_accountVars

-----------------------------------------------------------------------------
(* Properties *)

\* Types of the variables.
AccountsTypeOK ==
  /\ account \in [UserIds -> Account]
  /\ clearance \in [UserIds -> Levels \cup {NoLevel}]
  /\ membership \in [UserIds -> SUBSET Departments]
  /\ accessRequest \in [RequestIds -> AccessRequest \cup {Unused}]
  /\ txn \in [Transactions -> Txn]
  /\ adminLock \in Transactions \cup {NoTransaction}
  /\ given \subseteq UserIds \X Wish
  /\ gifts \in 0..MaxGifts
  /\ overtaken \subseteq RequestIds
  /\ came \subseteq UserIds \X Departments \X Departments

\* Whatever administrators do to each other at the same time, one of them stays
\* active.
AdminRemains == \E u \in UserIds : ActiveAdmin(u)

\* A request that now reads "approved" asked for it, or one that did until somebody who
\* was deciding it at the same time wrote "rejected" over it.
AskedFor(u, wish) ==
  \E q \in RequestIds :
    /\ accessRequest[q].status = "approved" \/ q \in overtaken
    /\ accessRequest[q].user = u /\ accessRequest[q].wish = wish

Explained(u, wish) == <<u, wish>> \in given \/ AskedFor(u, wish)

\* What a user holds can be explained; a department also by one from which moves took him
\* along, one after the other.  So a request that was only rejected has granted nothing,
\* also where several reviewers decide it at once, and no move, be it overlapped by
\* revocations, deletions and other moves, lets in anybody else.
GrantsAreExplained ==
  \A u \in UserIds :
    /\ \A level \in Levels : clearance[u] = level =>
         Explained(u, [type |-> "security", value |-> level])
    /\ \A d \in membership[u] : \E e \in Origins(u, d) : Explained(u, DepartmentWish(e))
=============================================================================
