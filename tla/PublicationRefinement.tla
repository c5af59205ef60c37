----------------------- MODULE PublicationRefinement -----------------------
(* Publication implements PublicationContract, for every value of the        *)
(* constants, provided no publication outlives the lock of its event.        *)
EXTENDS PublicationProofs, SequenceTheorems

\* What a publication will supersede was read as a current document of the
\* same slot, after the claim.
OldInFamily ==
  \A p \in Publishers :
    /\ publisher[p].old \subseteq Family(publisher[p].doc)
    /\ publisher[p].step \in {"idle", "validated", "queued", "claimed"} =>
         publisher[p].old = {}

LEMMA OldInit == Init => OldInFamily
  BY DEF Init, NoPublication, OldInFamily

LEMMA OldNext ==
  ASSUME Typed, OldInFamily, [Next]_vars
  PROVE  OldInFamily'
  <1>1. publisher \in [Publishers -> Publication]
    BY DEF Typed, TypeOK
  <1>2. ASSUME NEW p \in Publishers, NEW m \in Publication,
               publisher' = [publisher EXCEPT ![p] = m],
               m.old \subseteq Family(m.doc),
               m.step \in {"idle", "validated", "queued", "claimed"} => m.old = {}
        PROVE  OldInFamily'
    BY <1>1, <1>2 DEF OldInFamily, Family, SameSlot
  <1>3. ASSUME NEW p \in Publishers, Leave(p)
        PROVE  OldInFamily'
    BY <1>1, <1>3 DEF Leave, NoPublication, OldInFamily, Family, SameSlot
  <1>4. ASSUME NEW p \in Publishers, NEW s \in PublisherStep, Goto(p, s),
               publisher[p].step \notin {"idle", "validated", "queued"},
               s \notin {"idle", "validated", "queued", "claimed"}
        PROVE  OldInFamily'
    BY <1>1, <1>4 DEF Goto, OldInFamily, Family, SameSlot, Publication
  <1>5. ASSUME NEW p \in Publishers, Publish(p) \/ Crash(p)
        PROVE  OldInFamily'
    <2> USE <1>1 DEF OldInFamily, Family, SameSlot, Publication
    <2>1. CASE EnqueueRefused(p) \/ EnqueueJoin(p) \/ ClaimLost(p) \/ FinalizeSql(p)
               \/ MarkFailed(p) \/ Crash(p)
      BY <1>3, <2>1 DEF EnqueueRefused, EnqueueJoin, ClaimLost, FinalizeSql, MarkFailed, Crash
    <2>2. ASSUME NEW i, Await(p, i), publisher[p].step = "validated"
          PROVE  OldInFamily'
      BY <2>2 DEF Await
    <2>3. CASE EnqueueReopen(p) \/ EnqueueInsert(p)
      BY <2>2, <2>3 DEF EnqueueReopen, EnqueueInsert
    <2>4. ASSUME NEW i, ClaimOutbox(p, i), publisher[p].step \in {"idle", "queued"}
          PROVE  OldInFamily'
      BY <2>4 DEF ClaimOutbox
    <2>5. CASE ClaimQueued(p) \/ PollClaim(p)
      BY <2>4, <2>5 DEF ClaimQueued, PollClaim
    <2>6. CASE PollNothing(p)
      BY <2>6 DEF PollNothing
    <2>7. CASE BeginPublish(p)
      BY <2>7 DEF BeginPublish, OldDocs
    <2>8. CASE BeginFails(p) \/ StageQdrant(p) \/ SyncSql(p) \/ BatchQdrant(p)
               \/ FinalizeFails(p) \/ RollbackQdrant(p) \/ DisableQdrant(p)
      BY <1>4, <2>8 DEF BeginFails, StageQdrant, SyncSql, BatchQdrant, FinalizeFails,
                        RollbackQdrant, DisableQdrant, PublisherStep
    <2> QED
      BY <1>5, <2>1, <2>3, <2>5, <2>6, <2>7, <2>8 DEF Publish, Enqueue
  <1>6. ASSUME NEW p \in Publishers, NEW d \in Docs, NEW a \in Actions,
               ValidateRequest(p, d, a)
        PROVE  OldInFamily'
    BY <1>1, <1>6 DEF ValidateRequest, OldInFamily, Family, SameSlot, Publication
  <1>7. CASE UNCHANGED publisher
    BY <1>7 DEF OldInFamily, Family, SameSlot
  <1>8. ASSUME NEW i \in DOMAIN outbox, LockExpires(i)
        PROVE  UNCHANGED publisher
    BY <1>8, SMTT(40) DEF LockExpires
  <1>9. ASSUME NEW r \in Reviewers,
               \/ \E d \in Docs : \/ ArchiveQdrant(r, d) \/ RejectQdrant(r, d)
                                 \/ ExpireSql(r, d)
               \/ FinishReview(r) \/ ReviewCrash(r)
        PROVE  UNCHANGED publisher
    BY <1>9
    DEF ArchiveQdrant, RejectQdrant, ExpireSql, FinishReview, ArchiveSql, RejectSql,
        ExpireQdrant, ReviewCrash
  <1>10. ASSUME NEW r \in Reconcilers, Reconcile(r) \/ ReconcileCrash(r)
         PROVE  UNCHANGED publisher
    BY <1>10 DEF Reconcile, ReconcileRead, ReconcileWrite, ReconcileCrash
  <1> QED
    BY <1>5, <1>6, <1>7, <1>8, <1>9, <1>10 DEF Next, vars

-----------------------------------------------------------------------------
(* The mapping *)

QueueVars == <<Queue, Servable>>

ContractStep == [Contract!ContractNext]_QueueVars

LEMMA QueueIs ==
  ASSUME TypeOK
  PROVE  /\ Queue \in Seq(Contract!ContractEvent)
         /\ DOMAIN Queue = DOMAIN outbox /\ Len(Queue) = Len(outbox)
         /\ \A i \in DOMAIN outbox : /\ Queue[i] = Queued(outbox[i])
                                     /\ Queue[i].doc = outbox[i].doc
                                     /\ Queue[i].status = outbox[i].status
                                     /\ Queue[i].attempts = outbox[i].attempts
  <1>1. \A e \in Event : Queued(e) \in Contract!ContractEvent
    BY DEF Queued, Event, EventStatus, Contract!ContractEvent
  <1>2. DOMAIN outbox = 1..Len(outbox) /\ Len(outbox) \in Nat
        /\ \A i \in DOMAIN outbox : outbox[i] \in Event
    BY DEF TypeOK
  <1>3. \A i \in 1..Len(outbox) : Queued(outbox[i]) \in Contract!ContractEvent
    BY <1>1, <1>2
  <1>4. Queue \in Seq(Contract!ContractEvent) /\ Len(Queue) = Len(outbox)
    BY <1>2, <1>3 DEF Queue
  <1> QED
    BY <1>4 DEF Queue, Queued

LEMMA MapStutter ==
  ASSUME UNCHANGED <<outbox, Servable>>
  PROVE  ContractStep
  BY DEF ContractStep, QueueVars, Queue

\* Unlocking sets the status of one event, of the outbox and of the queue.
LEMMA MapUnlock ==
  ASSUME TypeOK, NEW i \in DOMAIN outbox, NEW s \in EventStatus, Unlock(i, s)
  PROVE  Contract!SetStatus(i, s)
  <1> DEFINE e == [outbox[i] EXCEPT !.status = s, !.lock = "none"]
  <1>1. outbox[i] \in Event /\ outbox' = [outbox EXCEPT ![i] = e]
    BY DEF TypeOK, Unlock
  <1>2. Queued(e) = [Queued(outbox[i]) EXCEPT !.status = s]
    BY <1>1 DEF Event, Queued
  <1> HIDE DEF e
  <1>3. DOMAIN outbox' = DOMAIN outbox
        /\ outbox'[i] = e /\ \A j \in DOMAIN outbox \ {i} : outbox'[j] = outbox[j]
    BY <1>1 DEF TypeOK
  <1>4. Queue' = [Queue EXCEPT ![i] = [Queue[i] EXCEPT !.status = s]]
    BY <1>2, <1>3 DEF Queue
  <1> QED
    BY <1>4 DEF Contract!SetStatus

LEMMA MapHidden ==
  ASSUME TypeOK, NEW d \in Docs, NEW row, row.servable = FALSE, UpdateRow(d, row)
  PROVE  Servable' = Servable \ {d}
  BY DEF UpdateRow, Servable, TypeOK

LEMMA MapWithdraw ==
  ASSUME TypeOK, NEW d \in Docs, Withdraw(d)
  PROVE  Servable' = Servable \ {d}
  <1>1. [sql[d] EXCEPT !.state = "publishing", !.servable = FALSE].servable = FALSE
    BY DEF TypeOK, Row
  <1> QED
    BY <1>1, MapHidden DEF Withdraw

LEMMA MapRemove ==
  ASSUME TypeOK, NEW d \in Docs, NEW row, row.servable = FALSE, UpdateRow(d, row),
         UNCHANGED outbox
  PROVE  ContractStep
  <1>1. Contract!Remove(d)
    BY MapHidden DEF Contract!Remove, Queue
  <1> QED
    BY <1>1 DEF ContractStep, Contract!ContractNext

\* Only a request for a document that is not served gets past the refusal.
LEMMA NotServed ==
  ASSUME ServingBasis, NEW d \in Docs, NEW a, ~Refused(d, a)
  PROVE  d \notin Servable
  BY DEF ServingBasis, Refused, Servable

-----------------------------------------------------------------------------
(* Every step of publication is a step of the contract, or none *)

ContractInv == Typed /\ ServingBasis /\ OneHolder /\ OldInFamily

LEMMA MapEnqueue ==
  ASSUME ContractInv, NEW p \in Publishers, Enqueue(p)
  PROVE  ContractStep
  <1> DEFINE d == publisher[p].doc
             a == publisher[p].action
  <1>1. TypeOK /\ ServingBasis
    BY DEF ContractInv, Typed
  <1>2. publisher[p].step = "validated" => d \in Docs /\ a \in Actions
    BY DEF ContractInv, Typed, Engaged, EngagedPublisher
  <1>3. CASE EnqueueRefused(p)
    BY <1>3, MapStutter DEF EnqueueRefused, Servable
  \* Past the refusal the document is not served: withdrawing it is no change.
  <1>4. ASSUME ~Refused(d, a), Withdraw(d), d \in Docs
        PROVE  d \notin Servable /\ UNCHANGED Servable
    BY <1>1, <1>4, NotServed, MapWithdraw
  <1>5. CASE EnqueueJoin(p)
    BY <1>2, <1>4, <1>5, MapStutter DEF EnqueueJoin
  <1>6. CASE EnqueueReopen(p)
    <2>1. PICK i \in Existing(d, a) :
            outbox[i].status # "processing" /\ Unlock(i, "pending")
      BY <1>6 DEF EnqueueReopen
    <2>2. /\ i \in DOMAIN outbox /\ outbox[i].doc = d /\ outbox[i] \in Event
          /\ outbox[i].status # "done"
      BY <1>1, <2>1 DEF Existing, OpenEvents, TypeOK
    <2>3. outbox[i].status \in {"pending", "failed"}
      BY <2>1, <2>2 DEF Event, EventStatus
    <2>4. Contract!SetStatus(i, "pending")
      BY <1>1, <2>1, <2>2, MapUnlock DEF EventStatus
    <2>5. d \notin Servable /\ UNCHANGED Servable
      BY <1>2, <1>4, <1>6 DEF EnqueueReopen
    <2>6. i \in DOMAIN Queue /\ Queue[i].doc = d /\ Queue[i].status = outbox[i].status
      BY <1>1, <2>2, QueueIs
    <2>7. Contract!RequestAgain(i)
      BY <2>3, <2>4, <2>5, <2>6 DEF Contract!RequestAgain
    <2> QED
      BY <2>6, <2>7 DEF ContractStep, Contract!ContractNext
  <1>7. CASE EnqueueInsert(p)
    <2> DEFINE e == [doc |-> d, action |-> a, status |-> "pending", attempts |-> 0,
                     lock |-> "none"]
               q == [doc |-> d, action |-> a, status |-> "pending", attempts |-> 0]
    <2>1. outbox' = Append(outbox, e) /\ Queued(e) = q
      BY <1>7 DEF EnqueueInsert, Queued
    <2> HIDE DEF e, q
    <2>2. /\ DOMAIN outbox' = 1..(Len(outbox) + 1) /\ outbox'[Len(outbox) + 1] = e
          /\ \A i \in DOMAIN outbox : outbox'[i] = outbox[i]
          /\ DOMAIN outbox = 1..Len(outbox) /\ Len(outbox) \in Nat
      BY <1>1, <2>1 DEF TypeOK
    <2>3. /\ Queue' = [i \in 1..(Len(outbox) + 1) |-> Queued(outbox'[i])]
          /\ Len(Queue) = Len(outbox) /\ Queue \in Seq(Contract!ContractEvent)
          /\ \A i \in 1..Len(outbox) : Queue[i] = Queued(outbox[i])
      BY <1>1, <2>2, QueueIs DEF Queue
    <2>4. Queue' = Append(Queue, q)
      <3> DEFINE n == Len(outbox)
                 appended == Append(Queue, q)
      <3>1. q \in Contract!ContractEvent
        BY <1>2, <1>7, PublicationAssumptions
        DEF q, EnqueueInsert, Contract!ContractEvent, PublicationAssumptions
      <3>2. /\ appended \in Seq(Contract!ContractEvent) /\ Len(appended) = n + 1
            /\ appended[n + 1] = q /\ \A i \in 1..n : appended[i] = Queue[i]
        BY <2>3, <3>1, AppendProperties
      <3>3. \A i \in 1..(n + 1) : appended[i] = Queued(outbox'[i])
        BY <2>1, <2>2, <2>3, <3>2
      <3> HIDE DEF appended
      <3>4. appended = [i \in 1..(n + 1) |-> appended[i]]
        BY <2>2, <3>2
      <3>5. Queue' = appended
        BY <2>3, <3>3, <3>4
      <3> QED
        BY <3>5 DEF appended
    <2>5. d \notin Servable /\ UNCHANGED Servable /\ d \in Docs /\ a \in Actions
      BY <1>2, <1>4, <1>7 DEF EnqueueInsert
    <2>6. Contract!Request(d, a)
      BY <2>4, <2>5 DEF Contract!Request, q
    <2> QED
      BY <2>5, <2>6 DEF ContractStep, Contract!ContractNext
  <1> QED
    BY <1>3, <1>5, <1>6, <1>7 DEF Enqueue

Abandoned == {i \in DOMAIN outbox : outbox[i].status = "processing" /\ outbox[i].lock = "stale"}

LEMMA MapReaped ==
  ASSUME TypeOK
  PROVE  /\ Abandoned \in SUBSET Contract!Abandonable
         /\ Contract!Freed(Abandoned) = [i \in DOMAIN outbox |-> Queued(Reap(i))]
  <1>1. \A i \in DOMAIN outbox : outbox[i] \in Event
    BY DEF TypeOK
  <1>2. /\ DOMAIN Queue = DOMAIN outbox
        /\ \A i \in DOMAIN outbox : /\ Queue[i] = Queued(outbox[i])
                                    /\ Queue[i].status = outbox[i].status
    BY QueueIs
  <1>3. \A i \in DOMAIN outbox :
          Queued([outbox[i] EXCEPT !.status = "failed", !.lock = "none"])
            = [Queued(outbox[i]) EXCEPT !.status = "failed"]
    BY <1>1 DEF Queued, Event
  <1>4. Abandoned \in SUBSET Contract!Abandonable
    BY <1>2 DEF Abandoned, Contract!Abandonable
  <1>5. \A i \in DOMAIN outbox :
          Queued(Reap(i)) = IF i \in Abandoned THEN [Queue[i] EXCEPT !.status = "failed"]
                                               ELSE Queue[i]
    BY <1>2, <1>3 DEF Reap, Abandoned
  <1> QED
    BY <1>2, <1>4, <1>5 DEF Contract!Freed

LEMMA MapFree ==
  ASSUME TypeOK, outbox' = Reaped, UNCHANGED Servable
  PROVE  ContractStep
  <1>1. Queue' = [i \in DOMAIN outbox |-> Queued(Reap(i))]
    BY ReapedKeeps DEF Queue
  <1>2. Contract!Free(Abandoned)
    BY <1>1, MapReaped DEF Contract!Free
  <1> QED
    BY <1>2, MapReaped DEF ContractStep, Contract!ContractNext

LEMMA MapClaim ==
  ASSUME TypeOK, NEW p \in Publishers, NEW i \in DOMAIN outbox, ClaimOutbox(p, i)
  PROVE  ContractStep
  <1> DEFINE freed == Contract!Freed(Abandoned)
  <1>1. outbox[i] \in Event /\ Reap(i) \in Event /\ Reap(i).attempts = outbox[i].attempts
    BY ReapedKeeps DEF TypeOK
  <1>2. outbox[i].doc \in Docs
    BY <1>1 DEF Event
  <1>3. freed = [j \in DOMAIN outbox |-> Queued(Reap(j))]
        /\ Abandoned \in SUBSET Contract!Abandonable
    BY MapReaped
  <1>4. outbox' = [Reaped EXCEPT ![i] = Claimed(Reap(i))] /\ Claimable(i)
    BY DEF ClaimOutbox
  <1>5. /\ DOMAIN outbox' = DOMAIN outbox /\ outbox'[i] = Claimed(Reap(i))
        /\ \A j \in DOMAIN outbox \ {i} : outbox'[j] = Reap(j)
    BY <1>4, ReapedKeeps
  <1>6. Queued(Claimed(Reap(i))) = Contract!Attempted(Queued(Reap(i)))
    <2> DEFINE e == Reap(i)
    <2>1. /\ Claimed(e).doc = e.doc /\ Claimed(e).action = e.action
          /\ Claimed(e).status = "processing" /\ Claimed(e).attempts = e.attempts + 1
      BY <1>1 DEF Claimed, Event
    <2>2. Queued(Claimed(e)) = [doc |-> e.doc, action |-> e.action,
                                status |-> "processing", attempts |-> e.attempts + 1]
      BY <2>1 DEF Queued
    <2> QED
      BY <2>2 DEF Queued, Contract!Attempted
  <1> HIDE DEF freed
  <1>7. Queue' = [freed EXCEPT ![i] = Contract!Attempted(freed[i])]
    BY <1>3, <1>5, <1>6 DEF Queue
  <1>8. freed[i].status \in {"pending", "failed"} /\ Queue[i].attempts < MaxAttempts
    BY <1>1, <1>3, <1>4, QueueIs DEF Claimable, Queued
  <1>9. Servable' = Servable \ {Queue[i].doc}
    BY <1>2, MapWithdraw, QueueIs DEF ClaimOutbox
  <1>10. Contract!Attempt(i, Abandoned)
    BY <1>7, <1>8, <1>9 DEF Contract!Attempt, freed
  <1> QED
    BY <1>3, <1>10, QueueIs DEF ContractStep, Contract!ContractNext

LEMMA MapClaims ==
  ASSUME ContractInv, NEW p \in Publishers,
         ClaimQueued(p) \/ ClaimLost(p) \/ PollClaim(p) \/ PollNothing(p)
  PROVE  ContractStep
  <1>1. TypeOK /\ Typed
    BY DEF ContractInv, Typed
  <1>2. CASE ClaimQueued(p)
    <2>1. publisher[p].event \in DOMAIN outbox
      BY <1>1, <1>2, Busy DEF ClaimQueued
    <2> QED
      BY <1>1, <1>2, <2>1, MapClaim DEF ClaimQueued
  <1>3. CASE PollClaim(p)
    BY <1>1, <1>3, MapClaim DEF PollClaim
  <1>4. CASE ClaimLost(p) \/ PollNothing(p)
    BY <1>1, <1>4, MapFree DEF ClaimLost, PollNothing, Servable
  <1> QED
    BY <1>2, <1>3, <1>4

\* A holder's event is being processed: here the lock time matters.
LEMMA Holding ==
  ASSUME ContractInv, ~SlowHolders, NEW p \in Publishers,
         publisher[p].step \notin {"idle", "validated", "queued"}
  PROVE  LET i == publisher[p].event
         IN  /\ TypeOK /\ i \in DOMAIN outbox /\ i \in DOMAIN Queue
             /\ publisher[p].doc \in Docs /\ sql[publisher[p].doc] \in Row
             /\ Queue[i].doc = publisher[p].doc
             /\ Contract!Processing(i)
  <1> DEFINE i == publisher[p].event
  <1>1. /\ TypeOK /\ i \in DOMAIN outbox /\ i \in 0..MaxEvents /\ i # 0
        /\ publisher[p].doc \in Docs /\ sql[publisher[p].doc] \in Row
        /\ outbox[i].doc = publisher[p].doc
    BY Busy DEF ContractInv
  <1>2. i \in 1..MaxEvents
    BY <1>1, PublicationAssumptions DEF PublicationAssumptions
  <1>3. Holds(p, i)
    BY DEF Holds
  <1>4. outbox[i].status = "processing"
    BY <1>2, <1>3 DEF ContractInv, OneHolder
  <1> QED
    BY <1>1, <1>4, QueueIs DEF Contract!Processing

LEMMA MapSync ==
  ASSUME ContractInv, ~SlowHolders, NEW p \in Publishers, SyncSql(p)
  PROVE  ContractStep
  <1> DEFINE i == publisher[p].event
             row == [sql[publisher[p].doc] EXCEPT
                       !.servable = FALSE, !.state = "qdrant_synced"]
  <1>1. /\ TypeOK /\ i \in DOMAIN Queue /\ publisher[p].doc \in Docs
        /\ sql[publisher[p].doc] \in Row
        /\ Queue[i].doc = publisher[p].doc /\ Contract!Processing(i)
    BY Holding DEF SyncSql
  <1>2. UNCHANGED outbox
    BY DEF SyncSql
  <1>3. CASE UNCHANGED sql
    BY <1>2, <1>3, MapStutter DEF Servable
  <1>4. CASE UpdateRow(publisher[p].doc, row)
    <2>1. row.servable = FALSE
      BY <1>1 DEF Row
    <2> HIDE DEF row
    <2> QED
      BY <1>1, <1>2, <1>4, <2>1, MapRemove
  <1> QED
    BY <1>3, <1>4 DEF SyncSql

LEMMA MapFinalize ==
  ASSUME ContractInv, ~SlowHolders, NEW p \in Publishers, FinalizeSql(p)
  PROVE  ContractStep
  <1> DEFINE i == publisher[p].event
             d == publisher[p].doc
             old == publisher[p].old
  <1>1. /\ TypeOK /\ i \in DOMAIN outbox /\ i \in DOMAIN Queue /\ d \in Docs
        /\ Queue[i].doc = d /\ Contract!Processing(i)
    BY Holding DEF FinalizeSql
  <1>2. old \subseteq Family(d)
    BY DEF ContractInv, OldInFamily
  <1>3. d \notin old /\ old \subseteq Docs
    BY <1>2 DEF Family
  <1>4. /\ sql'[d].servable = TRUE
        /\ \A e \in old : sql'[e].servable = FALSE
        /\ \A e \in Docs \ (old \cup {d}) : sql'[e] = sql[e]
    BY <1>1, <1>3 DEF FinalizeSql, TypeOK, Row
  <1>5. Servable' = (Servable \ old) \cup {d}
    BY <1>1, <1>3, <1>4 DEF Servable
  <1>6. Contract!SetStatus(i, "done")
    BY <1>1, MapUnlock DEF FinalizeSql, EventStatus
  <1>7. Contract!Complete(i, old)
    BY <1>1, <1>5, <1>6 DEF Contract!Complete
  <1>8. old \in SUBSET [e \in Docs |-> Family(e)][Queue[i].doc]
    BY <1>1, <1>2
  <1> QED
    BY <1>1, <1>7, <1>8 DEF ContractStep, Contract!ContractNext

LEMMA MapMarkFailed ==
  ASSUME ContractInv, ~SlowHolders, NEW p \in Publishers, MarkFailed(p)
  PROVE  ContractStep
  <1> DEFINE i == publisher[p].event
             d == publisher[p].doc
             row == [sql[d] EXCEPT !.state = "failed", !.servable = FALSE]
  <1>1. /\ TypeOK /\ i \in DOMAIN outbox /\ i \in DOMAIN Queue /\ d \in Docs
        /\ sql[d] \in Row /\ Queue[i].doc = d /\ Contract!Processing(i)
    BY Holding DEF MarkFailed
  <1>2. Contract!SetStatus(i, "failed")
    BY <1>1, MapUnlock DEF MarkFailed, EventStatus
  <1>3. row.servable = FALSE /\ UpdateRow(d, row)
    BY <1>1 DEF MarkFailed, Row
  <1> HIDE DEF row
  <1>4. Servable' = Servable \ {d}
    BY <1>1, <1>3, MapHidden
  <1>5. Contract!Fail(i)
    BY <1>1, <1>2, <1>4 DEF Contract!Fail
  <1> QED
    BY <1>1, <1>5 DEF ContractStep, Contract!ContractNext

LEMMA MapReviews ==
  ASSUME ContractInv, NEW r \in Reviewers, FinishReview(r) \/ ReviewCrash(r)
  PROVE  ContractStep
  <1> DEFINE d == reviewer[r].doc
  <1>1. TypeOK /\ (reviewer[r].step # "idle" => d \in Docs /\ sql[d] \in Row)
    BY DEF ContractInv, Typed, TypeOK, Engaged
  <1>2. CASE ArchiveSql(r)
    <2> DEFINE row == [sql[d] EXCEPT !.servable = FALSE, !.current = FALSE,
                         !.life = "archived", !.state = "published"]
    <2>1. d \in Docs /\ row.servable = FALSE /\ UpdateRow(d, row)
      BY <1>1, <1>2 DEF ArchiveSql, Row
    <2> HIDE DEF row
    <2> QED
      BY <1>1, <1>2, <2>1, MapRemove DEF ArchiveSql
  <1>3. CASE RejectSql(r)
    <2> DEFINE row == [sql[d] EXCEPT !.servable = FALSE, !.approved = FALSE,
                         !.life = "rejected", !.state = "failed"]
    <2>1. d \in Docs /\ row.servable = FALSE /\ UpdateRow(d, row)
      BY <1>1, <1>3 DEF RejectSql, Row
    <2> HIDE DEF row
    <2> QED
      BY <1>1, <1>3, <2>1, MapRemove DEF RejectSql
  <1>4. CASE ExpireQdrant(r) \/ ReviewCrash(r)
    BY <1>4, MapStutter DEF ExpireQdrant, ReviewCrash, Servable
  <1> QED
    BY <1>2, <1>3, <1>4 DEF FinishReview

LEMMA MapNext ==
  ASSUME ContractInv, ~SlowHolders, [Next]_vars
  PROVE  ContractStep
  <1>1. TypeOK
    BY DEF ContractInv, Typed
  <1>2. CASE UNCHANGED <<sql, outbox>>
    BY <1>2, MapStutter DEF Servable
  <1>3. ASSUME NEW p \in Publishers, Publish(p)
        PROVE  ContractStep
    <2>1. CASE BeginPublish(p) \/ BeginFails(p) \/ StageQdrant(p) \/ BatchQdrant(p)
               \/ FinalizeFails(p) \/ RollbackQdrant(p) \/ DisableQdrant(p)
      BY <1>2, <2>1 DEF BeginPublish, BeginFails, StageQdrant, BatchQdrant, FinalizeFails,
                        RollbackQdrant, DisableQdrant
    <2> QED
      BY <1>3, <2>1, MapEnqueue, MapClaims, MapSync, MapFinalize, MapMarkFailed DEF Publish
  <1>4. ASSUME NEW i \in DOMAIN outbox, LockExpires(i)
        PROVE  ContractStep
    <2> DEFINE e == [outbox[i] EXCEPT !.lock = "stale"]
    <2>1. outbox[i] \in Event /\ outbox' = [outbox EXCEPT ![i] = e]
      BY <1>1, <1>4 DEF LockExpires, TypeOK
    <2>2. Queued(e) = Queued(outbox[i])
      BY <2>1 DEF Queued, Event
    <2> HIDE DEF e
    <2>3. DOMAIN outbox' = DOMAIN outbox
          /\ \A j \in DOMAIN outbox : Queued(outbox'[j]) = Queued(outbox[j])
      BY <1>1, <2>1, <2>2 DEF TypeOK
    <2>4. UNCHANGED <<Queue, Servable>>
      BY <1>4, <2>3 DEF LockExpires, Queue, Servable
    <2> QED
      BY <2>4 DEF ContractStep, QueueVars
  <1>5. ASSUME NEW r \in Reviewers, NEW d \in Docs, ExpireSql(r, d)
        PROVE  ContractStep
    <2>1. \A e \in Docs : sql'[e].servable = sql[e].servable
      BY <1>1, <1>5 DEF ExpireSql, UpdateRow, TypeOK, Row
    <2>2. UNCHANGED <<outbox, Servable>>
      BY <1>5, <2>1 DEF ExpireSql, Servable
    <2> QED
      BY <2>2, MapStutter
  <1>6. ASSUME NEW r \in Reviewers, NEW d \in Docs, ArchiveQdrant(r, d) \/ RejectQdrant(r, d)
        PROVE  UNCHANGED <<sql, outbox>>
    BY <1>6 DEF ArchiveQdrant, RejectQdrant
  <1>7. ASSUME NEW p \in Publishers,
               Crash(p) \/ \E d \in Docs, a \in Actions : ValidateRequest(p, d, a)
        PROVE  UNCHANGED <<sql, outbox>>
    BY <1>7 DEF Crash, ValidateRequest
  <1>8. ASSUME NEW r \in Reconcilers, Reconcile(r) \/ ReconcileCrash(r)
        PROVE  UNCHANGED <<sql, outbox>>
    BY <1>8 DEF Reconcile, ReconcileRead, ReconcileWrite, ReconcileCrash
  <1>9. CASE UNCHANGED vars
    BY <1>2, <1>9 DEF vars
  <1> QED
    BY <1>2, <1>3, <1>4, <1>5, <1>6, <1>7, <1>8, <1>9, MapReviews DEF Next

\* Publication implements its contract: seen from SQL, every interleaving of
\* requests, workers, reviews and crashes is a queue of events served in turn,
\* as long as publications end within the lock time.
THEOREM PublicationImplementsContract ==
  ASSUME ~SlowHolders
  PROVE  Spec => ImplementsContract
  <1>1. Init => Contract!ContractInit
    BY DEF Init, Contract!ContractInit, Queue, Servable
  <1>2. Init => ContractInv
    <2>1. Init => ServingBasis
      BY DEF Init, InitialRow, ServingBasis
    <2>2. Init => OneHolder
      BY DEF Init, NoPublication, Holds, OneHolder
    <2> QED
      BY <2>1, <2>2, TypeInit, OldInit DEF ContractInv
  <1>3. ContractInv /\ [Next]_vars => ContractInv'
    BY TypedNext, BasisNext, OneHolderNext, OldNext DEF ContractInv
  <1>4. ContractInv /\ [Next]_vars => [Contract!ContractNext]_<<Queue, Servable>>
    BY MapNext DEF ContractStep, QueueVars
  <1> QED
    BY <1>1, <1>2, <1>3, <1>4, PTL
    DEF Spec, ImplementsContract, Contract!ContractSpec, Contract!contractVars
=============================================================================
