------------------------ MODULE PublicationContract ------------------------
(***************************************************************************)
(* What publication promises, seen from SQL alone: a queue of events, each *)
(* attempted at least once and at most MaxAttempts times, and the set of   *)
(* servable documents.  A document becomes servable only when an event     *)
(* being processed is completed, which also withdraws the documents it     *)
(* supersedes; a completed event stays completed; asking for a publication *)
(* never withdraws a document that is being served.  How an event is       *)
(* processed, Qdrant, locks and crashes do not appear.                     *)
(***************************************************************************)
EXTENDS Integers, Sequences

CONSTANTS Docs, Actions, MaxAttempts,
          Families  \* the documents a publication of each document may supersede

VARIABLES queue, servable

contractVars == <<queue, servable>>

ContractEvent == [doc : Docs, action : Actions,
                  status : {"pending", "processing", "done", "failed"},
                  attempts : 0..MaxAttempts]

ContractInit ==
  /\ queue = <<>>
  /\ servable \in SUBSET Docs

SetStatus(i, s) == queue' = [queue EXCEPT ![i].status = s]

Request(d, a) ==
  /\ d \notin servable
  /\ queue' = Append(queue, [doc |-> d, action |-> a, status |-> "pending",
                             attempts |-> 0])
  /\ UNCHANGED servable

RequestAgain(i) ==
  /\ queue[i].doc \notin servable
  /\ queue[i].status \in {"pending", "failed"}
  /\ SetStatus(i, "pending")
  /\ UNCHANGED servable

\* Events whose processing was abandoned are freed.
Freed(abandoned) ==
  [i \in DOMAIN queue |->
     IF i \in abandoned THEN [queue[i] EXCEPT !.status = "failed"] ELSE queue[i]]

Abandonable == {i \in DOMAIN queue : queue[i].status = "processing"}

Free(abandoned) == queue' = Freed(abandoned) /\ UNCHANGED servable

Attempted(event) ==
  [doc |-> event.doc, action |-> event.action, status |-> "processing",
   attempts |-> event.attempts + 1]

Attempt(i, abandoned) ==
  /\ Freed(abandoned)[i].status \in {"pending", "failed"}
  /\ queue[i].attempts < MaxAttempts
  /\ queue' = [Freed(abandoned) EXCEPT ![i] = Attempted(Freed(abandoned)[i])]
  /\ servable' = servable \ {queue[i].doc}

Processing(i) == i \in DOMAIN queue /\ queue[i].status = "processing"

Hold(i) ==
  /\ Processing(i)
  /\ servable' = servable \ {queue[i].doc}
  /\ UNCHANGED queue

Complete(i, old) ==
  /\ Processing(i)
  /\ SetStatus(i, "done")
  /\ servable' = (servable \ old) \cup {queue[i].doc}

Fail(i) ==
  /\ Processing(i)
  /\ SetStatus(i, "failed")
  /\ servable' = servable \ {queue[i].doc}

Remove(d) == servable' = servable \ {d} /\ UNCHANGED queue

ContractNext ==
  \/ \E d \in Docs, a \in Actions : Request(d, a)
  \/ \E i \in DOMAIN queue : RequestAgain(i) \/ Hold(i) \/ Fail(i)
  \/ \E abandoned \in SUBSET Abandonable :
       \/ Free(abandoned)
       \/ \E i \in DOMAIN queue : Attempt(i, abandoned)
  \/ \E i \in DOMAIN queue :
       \E old \in SUBSET Families[queue[i].doc] : Complete(i, old)
  \/ \E d \in Docs : Remove(d)

ContractSpec == ContractInit /\ [][ContractNext]_contractVars

-----------------------------------------------------------------------------
\* A document enters service only through the completion of an event about it,
\* and a completed event is final.
OnlyCompletionServes ==
  [][/\ \A d \in servable' \ servable :
          \E i \in DOMAIN queue : /\ queue[i].doc = d
                                  /\ queue[i].status = "processing"
                                  /\ queue'[i].status = "done"
     /\ \A i \in DOMAIN queue :
          queue[i].status = "done" => queue'[i] = queue[i]]_contractVars
=============================================================================
