------------------------------ MODULE MCProgress ------------------------------
(* What must come to an end, for TLC: locks of user names, chat turns and     *)
(* deletions of documents.  They share no state here, so a behaviour follows  *)
(* one of them (focus) and the others stay as they were at the start.         *)
EXTENDS LoginLimit, ChatStream, DocumentDeletion

VARIABLE focus

progressVars == <<focus, limitVars, chatVars, deletionVars>>

MCInit ==
  /\ focus \in {"login", "chat", "deletion"}
  /\ LoginLimitInit /\ ChatInit /\ DeletionInit
  /\ focus # "login" => sqlUp
  /\ focus # "deletion" => InService

MCNext ==
  \/ focus = "login" /\ LoginLimitNext /\ UNCHANGED <<focus, chatVars, deletionVars>>
  \/ focus = "chat" /\ ChatNext /\ UNCHANGED <<focus, limitVars, deletionVars>>
  \/ focus = "deletion" /\ DeletionNext /\ UNCHANGED <<focus, limitVars, chatVars>>

\* The fairness of the components.  Of logins and turns nothing is enabled at the start,
\* so that it asks nothing of a component that does not move; of the deletion something is.
DeletionMoves == focus = "deletion"

MCSpec ==
  /\ MCInit /\ [][MCNext]_progressVars
  /\ WF_limitVars(AgeFailures)
  /\ ChatFairness
  /\ WF_deletionVars(DeletionMoves /\ Repeat)
  /\ \A c \in DeleteCalls : WF_deletionVars(DeletionMoves /\ Proceed(c))
  /\ WF_deletionVars(DeletionMoves /\ BeginIngest)
  /\ WF_deletionVars(DeletionMoves /\ Work)

\* Types of the variables, of the component that moves.
ProgressTypeOK ==
  /\ focus = "login"    => LoginLimitTypeOK
  /\ focus = "chat"     => ChatTypeOK
  /\ focus = "deletion" => DeletionTypeOK
=============================================================================
