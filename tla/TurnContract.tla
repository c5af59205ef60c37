---------------------------- MODULE TurnContract ----------------------------
(***************************************************************************)
(* What the two servers promise of a chat turn: at most MaxConcurrent are  *)
(* worked on at a time, each once; the work reports one outcome; an answer *)
(* is saved only if the work reported one, while the turn has not ended,   *)
(* and its evidence after it.  Permits, threads, the queue of events, the  *)
(* flag, the connection and who reads what do not appear, nor that either  *)
(* server may outlast, abandon or lose the other.                          *)
(***************************************************************************)
EXTENDS Naturals, FiniteSets

CONSTANTS Turns, MaxConcurrent

VARIABLES
  work,     \* of the RAG server on each turn: none, going, over
  outcome,  \* what it has reported: nothing, answer, failure
  saved,    \* what the history has of each turn: none, row, complete
  ended     \* turns the application server is done with

contractVars == <<work, outcome, saved, ended>>

TurnInit ==
  /\ work = [t \in Turns |-> "none"]
  /\ outcome = [t \in Turns |-> "nothing"]
  /\ saved = [t \in Turns |-> "none"]
  /\ ended = {}

Going == {t \in Turns : work[t] = "going"}

TakeUp(t) ==
  /\ work[t] = "none" /\ Cardinality(Going) < MaxConcurrent
  /\ work' = [work EXCEPT ![t] = "going"]
  /\ UNCHANGED <<outcome, saved, ended>>

Report(t, result) ==
  /\ work[t] = "going" /\ outcome[t] = "nothing"
  /\ outcome' = [outcome EXCEPT ![t] = result]
  /\ UNCHANGED <<work, saved, ended>>

\* The work on these turns is done, was refused or is lost.
StopWork(T) ==
  /\ work' = [t \in Turns |-> IF t \in T THEN "over" ELSE work[t]]
  /\ UNCHANGED <<outcome, saved, ended>>

Save(t) ==
  /\ outcome[t] = "answer" /\ t \notin ended /\ saved[t] = "none"
  /\ saved' = [saved EXCEPT ![t] = "row"]
  /\ UNCHANGED <<work, outcome, ended>>

SaveBasis(t) ==
  /\ t \notin ended /\ saved[t] = "row"
  /\ saved' = [saved EXCEPT ![t] = "complete"]
  /\ ended' = ended \cup {t}
  /\ UNCHANGED <<work, outcome>>

\* These turns end as they are.
EndTurns(T) ==
  /\ ended' = ended \cup T
  /\ UNCHANGED <<work, outcome, saved>>

TurnNext ==
  \/ \E t \in Turns :
       \/ TakeUp(t) \/ Report(t, "answer") \/ Report(t, "failure")
       \/ Save(t) \/ SaveBasis(t)
  \/ \E T \in SUBSET Turns : StopWork(T) \/ EndTurns(T)

TurnSpec == TurnInit /\ [][TurnNext]_contractVars
=============================================================================
