------------------------------ MODULE MCAccess ------------------------------
(* Who may do and see what, for TLC: sessions, accounts, rollout plans, the  *)
(* access policy, the move of a department and remembered answers.  They     *)
(* share no state here, so a behaviour follows one of them (focus) and the   *)
(* others stay as they were at the start: the numbers of states add up       *)
(* instead of multiplying.                                                   *)
EXTENDS Sessions, Accounts, Rollout, AccessPolicy, DepartmentMove, Answers

VARIABLE focus

accessVars == <<focus, sessionVars, accountVars, rolloutVars, policyVars, moveVars, answerVars>>

\* One department per wave.
MCCapacity(w) == 1

\* The components that are not followed start in one of their initial states.
OneOf(S) == CHOOSE x \in S : TRUE

\* Accounts are followed in two ways (see OfAccounts and OfMembers).
Components == {"sessions", "accounts", "members", "rollout", "policy", "move", "answers"}

MCInit ==
  /\ focus \in Components
  /\ SessionsInit /\ AccountsInit /\ RolloutInit /\ PolicyInit /\ MoveInit /\ AnswersInit
  /\ focus # "sessions" => \A u \in Users : credential[u] = OneOf(Passwords)
  /\ ActiveAdmin(OneOf(UserIds))   \* users are alike
  /\ focus \notin {"accounts", "members"} => \A u \in UserIds : ActiveAdmin(u)
  /\ focus # "policy" => strictSites
  /\ focus # "move" => \A f \in Files : fileRow[f].offices = {OneOf(Offices)}

Follow(component) == focus = component /\ UNCHANGED focus

\* What administrators do, and requests for levels, for which one department is enough ...
OfAccounts ==
  /\ AccountsNext
  /\ \A u \in UserIds : membership'[u] \subseteq {OneOf(Departments)}
  /\ \A t \in Transactions :
       /\ txn'[t].step # "transfer"
       /\ txn'[t].step = "create" => txn'[t].wish.type = "security"

\* ... and what memberships depend on: moves, requests for departments, revocations, new
\* and deleted users.
OfMembers ==
  /\ AccountsNext
  /\ UNCHANGED <<clearance, gifts>>
  /\ \A u \in UserIds : account'[u].admin => account[u].admin
  /\ \A t \in Transactions :
       /\ txn'[t].step = "admin" => txn'[t].operation = "delete"
       /\ txn'[t].step = "create" => txn'[t].wish.type = "department"

MCNext ==
  \/ /\ Follow("sessions") /\ SessionsNext
     /\ UNCHANGED <<accountVars, rolloutVars, policyVars, moveVars, answerVars>>
  \/ /\ Follow("accounts") /\ OfAccounts
     /\ UNCHANGED <<sessionVars, rolloutVars, policyVars, moveVars, answerVars>>
  \/ /\ Follow("members") /\ OfMembers
     /\ UNCHANGED <<sessionVars, rolloutVars, policyVars, moveVars, answerVars>>
  \/ /\ Follow("rollout") /\ RolloutNext
     /\ UNCHANGED <<sessionVars, accountVars, policyVars, moveVars, answerVars>>
  \/ /\ Follow("policy") /\ PolicyNext
     /\ UNCHANGED <<sessionVars, accountVars, rolloutVars, moveVars, answerVars>>
  \/ /\ Follow("move") /\ MoveNext
     /\ UNCHANGED <<sessionVars, accountVars, rolloutVars, policyVars, answerVars>>
  \/ /\ Follow("answers") /\ AnswersNext
     /\ UNCHANGED <<sessionVars, accountVars, rolloutVars, policyVars, moveVars>>

MCSpec == MCInit /\ [][MCNext]_accessVars

\* Types of the variables, of the component that moves.
AccessTypeOK ==
  /\ focus = "sessions" => SessionsTypeOK
  /\ focus \in {"accounts", "members"} => AccountsTypeOK
  /\ focus = "rollout"  => RolloutTypeOK
  /\ focus = "policy"   => PolicyTypeOK
  /\ focus = "move"     => MoveTypeOK
  /\ focus = "answers"  => AnswersTypeOK
=============================================================================
