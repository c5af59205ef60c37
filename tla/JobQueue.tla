------------------------------ MODULE JobQueue ------------------------------
(***************************************************************************)
(* What the queue of ingestion jobs promises: a job is in at most one      *)
(* worker's hands and is taken up only while it has tries left; a failed   *)
(* try is counted and the last one decides the job; what was decided while *)
(* nobody had it may be asked for again, with fresh tries; what a worker   *)
(* has finished, or has dropped after somebody decided it, is shelved and  *)
(* not taken up again; a deleted job is gone.  Leases and their expiry,    *)
(* documents, points and the parts of an attempt do not appear.            *)
(***************************************************************************)
EXTENDS Integers

CONSTANTS Jobs, NoJob, Workers, MaxRetry

VARIABLES
  stage,  \* waiting, working, decided (but open to another try), shelved, deleted
  tries,  \* failed tries of each job
  hand    \* the job each worker has in its hands

queueVars == <<stage, tries, hand>>

QueueInit ==
  /\ stage = [j \in Jobs |-> "waiting"]
  /\ tries = [j \in Jobs |-> 0]
  /\ hand = [w \in Workers |-> NoJob]

Free(j) == \A w \in Workers : hand[w] # j

SetStage(j, s) == stage' = [stage EXCEPT ![j] = s]
PutDown(w) == hand' = [hand EXCEPT ![w] = NoJob]

TakeUp(w, j) ==
  /\ hand[w] = NoJob /\ Free(j)
  /\ stage[j] \in {"waiting", "working"} /\ tries[j] < MaxRetry
  /\ SetStage(j, "working")
  /\ hand' = [hand EXCEPT ![w] = j]
  /\ UNCHANGED tries

Has(w, j) == hand[w] = j /\ stage[j] # "deleted"

\* Whoever has the job may call it worked on, also after it was rejected.
GoOn(w, j) ==
  /\ Has(w, j)
  /\ SetStage(j, "working")
  /\ UNCHANGED <<tries, hand>>

Finish(w, j) ==
  /\ Has(w, j)
  /\ SetStage(j, "shelved") /\ PutDown(w)
  /\ UNCHANGED tries

FailTry(w, j) ==
  /\ Has(w, j)
  /\ tries' = [tries EXCEPT ![j] = @ + 1]
  /\ \/ tries[j] + 1 < MaxRetry /\ SetStage(j, "waiting")
     \/ SetStage(j, "decided")
  /\ PutDown(w)

Postpone(w, j) ==
  /\ Has(w, j)
  /\ SetStage(j, "waiting") /\ PutDown(w)
  /\ UNCHANGED tries

\* The worker dies, or finds its job deleted.
Drop(w) ==
  /\ hand[w] # NoJob
  /\ PutDown(w)
  /\ UNCHANGED <<stage, tries>>

Decide(j) ==
  /\ \/ stage[j] = "waiting" /\ SetStage(j, "decided")
     \/ stage[j] = "working" /\ SetStage(j, "shelved")
  /\ UNCHANGED <<tries, hand>>

AskAgain(j) ==
  /\ Free(j) /\ stage[j] = "decided"
  /\ SetStage(j, "waiting")
  /\ tries' = [tries EXCEPT ![j] = 0]
  /\ UNCHANGED hand

Delete(j) ==
  /\ SetStage(j, "deleted")
  /\ UNCHANGED <<tries, hand>>

QueueNext ==
  \/ \E w \in Workers : Drop(w)
  \/ \E w \in Workers, j \in Jobs :
       \/ TakeUp(w, j) \/ GoOn(w, j) \/ Finish(w, j)
       \/ FailTry(w, j) \/ Postpone(w, j)
  \/ \E j \in Jobs : Decide(j) \/ AskAgain(j) \/ Delete(j)

QueueSpec == QueueInit /\ [][QueueNext]_queueVars
=============================================================================
