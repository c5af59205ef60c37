---------------------------- MODULE Publication ----------------------------
(***************************************************************************)
(* Publication of documents: the SQL workflow (table TaiLieu), the         *)
(* transactional outbox (table PublicationOutbox) and the payload that the *)
(* retrieval path filters on (Qdrant).  SQL and Qdrant have no common      *)
(* transaction: a publication is a saga of SQL transactions and Qdrant     *)
(* calls, one action of this module each, run by API requests and by the   *)
(* reconciling worker at the same time.  Reviewers archive, reject and     *)
(* expire documents meanwhile, and the serving reconciler copies SQL state *)
(* to Qdrant from a snapshot it read earlier.                              *)
(*                                                                         *)
(* PublicationState of a Qdrant point is not kept: the code writes         *)
(* servable = true only together with publication_state = 'published'.     *)
(* IsArchived, PublicationVersion and the descriptive columns decide       *)
(* nothing here and are left out.                                          *)
(***************************************************************************)
EXTENDS Integers, Sequences, FiniteSets

CONSTANTS
  Docs,           \* rows of TaiLieu (each with its points in Qdrant)
  NoDoc,          \* not a document
  Slots,          \* pairs (BaseCode, VariantCode)
  NoSlot,         \* the slot of a document without BaseCode
  Slot,           \* the slot of every document
  NamedSlots,     \* slots whose VariantCode is not blank and not 'default'
  LiveAtStart,    \* documents published before the behaviour begins
  Actions,        \* the publish actions requested
  Requesters,     \* API requests: publish a document, run its event inline
  Workers,        \* reconciling workers: poll the outbox
  Reviewers,      \* API requests that archive, reject or expire
  Reconcilers,    \* passes of reconcile_serving_state
  MaxAttempts,    \* publication_max_attempts
  MaxEvents,      \* bound: events ever enqueued
  MaxFaults,      \* bound: failed calls and crashes
  MaxReviews,     \* bound: review operations started
  SlowHolders     \* may a live holder keep its event beyond the five-minute lock?

PublishActions == {"standalone", "new_variant", "new_version"}

Publishers == Requesters \cup Workers

SameSlot(d, e) == Slot[d] # NoSlot /\ Slot[d] = Slot[e]

ASSUME PublicationAssumptions ==
  /\ NoDoc \notin Docs
  /\ NoSlot \notin Slots
  /\ Slot \in [Docs -> Slots \cup {NoSlot}]
  /\ NamedSlots \subseteq Slots
  /\ LiveAtStart \subseteq Docs
  /\ \A d, e \in LiveAtStart : SameSlot(d, e) => d = e
  /\ Actions \subseteq PublishActions
  /\ MaxAttempts \in Nat \ {0}
  /\ MaxEvents \in Nat
  /\ MaxFaults \in Nat
  /\ MaxReviews \in Nat
  /\ SlowHolders \in BOOLEAN

VARIABLES
  sql,        \* the row of each document in TaiLieu
  qdrant,     \* the metadata carried by the points of each document
  outbox,     \* PublicationOutbox; OutboxID is the position
  publisher,  \* the publication each publisher is running
  reviewer,   \* the review operation each reviewer is running
  reviews,    \* review operations started so far
  snapshot,   \* the rows a reconciler has read and not yet copied
  faults      \* failed calls and crashes so far

vars == <<sql, qdrant, outbox, publisher, reviewer, reviews, snapshot, faults>>

-----------------------------------------------------------------------------
(* Data *)

PublicationState ==
  {"draft", "publishing", "qdrant_synced", "published", "failed"}
LifecycleStatus == {"draft", "published", "archived", "superseded", "rejected"}
EffectiveStatus == {"effective", "expired", "superseded"}

Row == [servable : BOOLEAN, state : PublicationState, life : LifecycleStatus,
        effective : EffectiveStatus, approved : BOOLEAN, current : BOOLEAN,
        epoch : 0..MaxEvents]

Point == [servable : BOOLEAN, life : LifecycleStatus,
          effective : EffectiveStatus, approved : BOOLEAN, current : BOOLEAN,
          epoch : 0..MaxEvents]

\* The columns backfill_qdrant_servable reads: all of a point but effective.
Copy == [doc : Docs, servable : BOOLEAN, life : LifecycleStatus, approved : BOOLEAN,
         current : BOOLEAN, epoch : 0..MaxEvents]

EventStatus == {"pending", "processing", "done", "failed"}
Event == [doc : Docs, action : Actions, status : EventStatus,
          attempts : 0..MaxAttempts, lock : {"none", "held", "stale"}]

\* What _publish_event_unlocked remembers of a row for its rollback.
Seen == [effective : EffectiveStatus, epoch : 0..MaxEvents]
Unseen == [effective |-> "effective", epoch |-> 0]

PublisherStep ==
  {"idle", "validated", "queued", "claimed", "stage", "sync", "batch",
   "finalize", "rollback", "disable", "markFailed"}
Publication == [step : PublisherStep, doc : Docs \cup {NoDoc},
                action : PublishActions, event : 0..MaxEvents,
                old : SUBSET Docs, seen : [Docs -> Seen]]
NoPublication == [step |-> "idle", doc |-> NoDoc, action |-> "standalone",
                  event |-> 0, old |-> {}, seen |-> [d \in Docs |-> Unseen]]

ReviewStep == {"idle", "archive", "reject", "expire"}
Review == [step : ReviewStep, doc : Docs \cup {NoDoc}]
NoReview == [step |-> "idle", doc |-> NoDoc]

\* current_published_filter: the points a question about current documents
\* may retrieve.  The same conjunction over a SQL row tells whether SQL says
\* that the document is being served.
Served(m) ==
  /\ m.servable
  /\ m.life = "published"
  /\ m.approved
  /\ m.current
  /\ m.effective \notin {"expired", "superseded"}

TypeOK ==
  /\ sql \in [Docs -> Row]
  /\ qdrant \in [Docs -> Point]
  /\ outbox \in Seq(Event)
  /\ Len(outbox) <= MaxEvents
  /\ publisher \in [Publishers -> Publication]
  /\ reviewer \in [Reviewers -> Review]
  /\ reviews \in 0..MaxReviews
  /\ snapshot \in [Reconcilers -> SUBSET Copy]
  /\ faults \in 0..MaxFaults

InitialPoint(d) ==
  IF d \in LiveAtStart
    THEN [servable |-> TRUE, life |-> "published", effective |-> "effective",
          approved |-> TRUE, current |-> TRUE, epoch |-> 0]
    ELSE [servable |-> FALSE, life |-> "draft", effective |-> "effective",
          approved |-> FALSE, current |-> FALSE, epoch |-> 0]

InitialRow(d) ==
  IF d \in LiveAtStart
    THEN [servable |-> TRUE, state |-> "published", life |-> "published",
          effective |-> "effective", approved |-> TRUE, current |-> TRUE,
          epoch |-> 0]
    ELSE [servable |-> FALSE, state |-> "draft", life |-> "draft",
          effective |-> "effective", approved |-> FALSE, current |-> FALSE,
          epoch |-> 0]

Init ==
  /\ sql = [d \in Docs |-> InitialRow(d)]
  /\ qdrant = [d \in Docs |-> InitialPoint(d)]
  /\ outbox = <<>>
  /\ publisher = [p \in Publishers |-> NoPublication]
  /\ reviewer = [r \in Reviewers |-> NoReview]
  /\ reviews = 0
  /\ snapshot = [r \in Reconcilers |-> {}]
  /\ faults = 0

-----------------------------------------------------------------------------
(* Failures.  A call to Qdrant that fails may still have been applied: the *)
(* client timed out, or the batch got through some of its operations.      *)

Fault == faults < MaxFaults /\ faults' = faults + 1

\* update_qdrant_metadata returned True; point d carries m.
QdrantOk(d, m) == qdrant' = [qdrant EXCEPT ![d] = m] /\ UNCHANGED faults

\* update_qdrant_metadata returned False.
QdrantFails(d, m) ==
  /\ Fault
  /\ qdrant' \in {qdrant, [qdrant EXCEPT ![d] = m]}

\* The operations of a batch are applied in order, those of the old documents
\* before that of the published one; a failed batch stopped somewhere.
BatchOk(new) == qdrant' = new /\ UNCHANGED faults

BatchFails(new, p) ==
  /\ Fault
  /\ \E done \in SUBSET (publisher[p].old \cup {publisher[p].doc}) :
       /\ publisher[p].doc \in done => publisher[p].old \subseteq done
       /\ qdrant' = [d \in Docs |-> IF d \in done THEN new[d] ELSE qdrant[d]]

Goto(p, step) == publisher' = [publisher EXCEPT ![p].step = step]
Leave(p) == publisher' = [publisher EXCEPT ![p] = NoPublication]

UpdateRow(d, row) == sql' = [sql EXCEPT ![d] = row]
\* An event that nobody processes any more, or not yet, is not locked.
Unlock(i, status) ==
  outbox' = [outbox EXCEPT ![i] = [@ EXCEPT !.status = status, !.lock = "none"]]

-----------------------------------------------------------------------------
(* publish_document: validate, enqueue, claim the event and process it *)

Unpublishable == {"deleting", "rejected", "retired"}

\* validate_publish_contract and validate_publish_actor.  Governance and the
\* actor's rights belong to the environment: validation may fail any time,
\* and it succeeds only on a document whose lifecycle can be published.
ContractOK(d) == sql[d].life \notin Unpublishable

\* The slot already holds a current document other than d and those in old.
Occupied(d, old) ==
  \E e \in Docs \ (old \cup {d}) : SameSlot(d, e) /\ sql[e].current

VariantError(d) == Slot[d] \notin NamedSlots \/ Occupied(d, {})

\* The event a request joins or reopens: the latest one of its document and
\* action that is not done and has attempts left.
OpenEvents(d, a) ==
  {i \in DOMAIN outbox : /\ outbox[i].doc = d /\ outbox[i].action = a
                         /\ outbox[i].status # "done"
                         /\ outbox[i].attempts < MaxAttempts}
Existing(d, a) ==
  {i \in OpenEvents(d, a) : \A j \in OpenEvents(d, a) : j <= i}

\* No new event is asked for once MaxEvents is reached.
ValidateRequest(p, d, a) ==
  /\ p \in Requesters
  /\ publisher[p].step = "idle"
  /\ ContractOK(d)
  /\ OpenEvents(d, a) = {} => Len(outbox) < MaxEvents
  /\ publisher' = [publisher EXCEPT ![p] = [@ EXCEPT !.step = "validated",
                                                      !.doc = d, !.action = a]]
  /\ UNCHANGED <<sql, qdrant, outbox, reviewer, reviews, snapshot, faults>>

\* Mutant of Refused: a served document may be published again.
RefusedVariantOnly(d, a) == a = "new_variant" /\ VariantError(d)

Refused(d, a) ==
  \/ sql[d].state = "published" /\ sql[d].servable
  \/ a = "new_variant" /\ VariantError(d)

Withdraw(d) ==
  UpdateRow(d, [sql[d] EXCEPT !.state = "publishing", !.servable = FALSE])

\* The request goes on to process the event itself.
Await(p, i) ==
  publisher' = [publisher EXCEPT ![p] = [@ EXCEPT !.step = "queued", !.event = i]]

EnqueueRefused(p) ==
  /\ publisher[p].step = "validated"
  /\ Refused(publisher[p].doc, publisher[p].action)
  /\ Leave(p)
  /\ UNCHANGED <<sql, qdrant, outbox, reviewer, reviews, snapshot, faults>>

\* An event being processed elsewhere is joined: the caller is told so.
EnqueueJoin(p) ==
  LET d == publisher[p].doc
      a == publisher[p].action
  IN /\ publisher[p].step = "validated"
     /\ ~Refused(d, a)
     /\ \E i \in Existing(d, a) : outbox[i].status = "processing"
     /\ Withdraw(d)
     /\ Leave(p)
     /\ UNCHANGED <<qdrant, outbox, reviewer, reviews, snapshot, faults>>

\* Mutant of EnqueueReopen: an event being processed is reopened too.
EnqueueReopenAny(p) ==
  LET d == publisher[p].doc
      a == publisher[p].action
  IN /\ publisher[p].step = "validated"
     /\ ~Refused(d, a)
     /\ \E i \in Existing(d, a) :
          /\ Unlock(i, "pending")
          /\ Await(p, i)
     /\ Withdraw(d)
     /\ UNCHANGED <<qdrant, reviewer, reviews, snapshot, faults>>

EnqueueReopen(p) ==
  LET d == publisher[p].doc
      a == publisher[p].action
  IN /\ publisher[p].step = "validated"
     /\ ~Refused(d, a)
     /\ \E i \in Existing(d, a) :
          /\ outbox[i].status # "processing"
          /\ Unlock(i, "pending")
          /\ Await(p, i)
     /\ Withdraw(d)
     /\ UNCHANGED <<qdrant, reviewer, reviews, snapshot, faults>>

EnqueueInsert(p) ==
  LET d == publisher[p].doc
      a == publisher[p].action
  IN /\ publisher[p].step = "validated"
     /\ ~Refused(d, a)
     /\ OpenEvents(d, a) = {}
     /\ Len(outbox) < MaxEvents
     /\ Withdraw(d)
     /\ outbox' = Append(outbox, [doc |-> d, action |-> a, status |-> "pending",
                                  attempts |-> 0, lock |-> "none"])
     /\ Await(p, Len(outbox) + 1)
     /\ UNCHANGED <<qdrant, reviewer, reviews, snapshot, faults>>

\* Mutant of Reap: the lock of a dead worker is never lifted.
ReapNothing(i) == outbox[i]

\* Every claim first frees the events whose lock is older than five minutes.
Reap(i) ==
  IF outbox[i].status = "processing" /\ outbox[i].lock = "stale"
    THEN [outbox[i] EXCEPT !.status = "failed", !.lock = "none"]
    ELSE outbox[i]
Reaped == [i \in DOMAIN outbox |-> Reap(i)]

\* Mutant of Claimable: attempts are not limited.
ClaimableForever(i) == Reap(i).status \in {"pending", "failed"}

Claimable(i) ==
  /\ Reap(i).status \in {"pending", "failed"}
  /\ Reap(i).attempts < MaxAttempts

Claimed(event) == [event EXCEPT !.status = "processing", !.lock = "held",
                                !.attempts = @ + 1]

\* The transaction of _claim_outbox, for a given event (an inline request,
\* whatever its AvailableAt) or for one that is due (the poll).  Due times
\* are not kept: a failed event may be due at any later time.
ClaimOutbox(p, i) ==
  /\ Claimable(i)
  /\ outbox' = [Reaped EXCEPT ![i] = Claimed(Reap(i))]
  /\ Withdraw(outbox[i].doc)
  /\ publisher' = [publisher EXCEPT ![p] = [@ EXCEPT !.step = "claimed", !.event = i,
                     !.doc = outbox[i].doc, !.action = outbox[i].action]]
  /\ UNCHANGED <<qdrant, reviewer, reviews, snapshot, faults>>

ClaimQueued(p) ==
  /\ publisher[p].step = "queued"
  /\ ClaimOutbox(p, publisher[p].event)

\* Claimed, completed or exhausted elsewhere in the meantime.
ClaimLost(p) ==
  /\ publisher[p].step = "queued"
  /\ ~Claimable(publisher[p].event)
  /\ outbox' = Reaped
  /\ Leave(p)
  /\ UNCHANGED <<sql, qdrant, reviewer, reviews, snapshot, faults>>

\* reconcile_publications: poll for events until none is due.
PollClaim(p) ==
  /\ p \in Workers
  /\ publisher[p].step = "idle"
  /\ \E i \in DOMAIN outbox : ClaimOutbox(p, i)

PollNothing(p) ==
  /\ p \in Workers
  /\ publisher[p].step = "idle"
  /\ \A i \in DOMAIN outbox : ~Claimable(i)
  /\ outbox' = Reaped
  /\ UNCHANGED <<sql, qdrant, publisher, reviewer, reviews, snapshot, faults>>

-----------------------------------------------------------------------------
(* _publish_event *)

\* From the validation of a publication to its end: the steps at which a
\* new_variant holds the application lock of its slot.  Others do not take it.
Locking == {"stage", "sync", "batch", "finalize", "rollback"}

VariantLocked(p) ==
  \E q \in Publishers \ {p} :
    /\ publisher[q].action = "new_variant"
    /\ publisher[q].step \in Locking
    /\ Slot[publisher[q].doc] = Slot[publisher[p].doc]

\* Mutant of MayLock: nobody waits for the lock of the slot.
MayLockAlways(p) == TRUE

MayLock(p) == publisher[p].action = "new_variant" => ~VariantLocked(p)

\* Mutant of OldDocs: a publication supersedes whatever its action is.
OldDocsOfAnyAction(d, a) == {e \in Docs \ {d} : SameSlot(d, e) /\ sql[e].current}

OldDocs(d, a) ==
  IF a = "new_version"
    THEN {e \in Docs \ {d} : SameSlot(d, e) /\ sql[e].current}
    ELSE {}

SeenRows(read) ==
  [e \in Docs |-> IF e \in read
                    THEN [effective |-> sql[e].effective, epoch |-> sql[e].epoch]
                    ELSE Unseen]

\* Take the lock, validate again, read the document and those it supersedes.
\* Only the lifecycle of the document itself is validated, and no other step
\* changes that together with what is read next: one action for the reads.
BeginPublish(p) ==
  LET d == publisher[p].doc
      a == publisher[p].action
  IN /\ publisher[p].step = "claimed"
     /\ MayLock(p)
     /\ ContractOK(d)
     /\ a = "new_variant" => ~VariantError(d)
     /\ publisher' =
          [publisher EXCEPT ![p] =
             [@ EXCEPT !.step = "stage", !.old = OldDocs(d, a),
                       !.seen = SeenRows(OldDocs(d, a) \cup {d})]]
     /\ UNCHANGED <<sql, qdrant, outbox, reviewer, reviews, snapshot, faults>>

\* The lock timed out, the contract or the actor no longer holds, or the
\* variant is taken.
BeginFails(p) ==
  /\ publisher[p].step = "claimed"
  /\ Goto(p, "disable")
  /\ UNCHANGED <<sql, qdrant, outbox, reviewer, reviews, snapshot, faults>>

StagedPoint(p) ==
  [qdrant[publisher[p].doc] EXCEPT !.servable = FALSE,
                                   !.epoch = publisher[p].event]

StageQdrant(p) ==
  /\ publisher[p].step = "stage"
  /\ \/ QdrantOk(publisher[p].doc, StagedPoint(p)) /\ Goto(p, "sync")
     \/ QdrantFails(publisher[p].doc, StagedPoint(p)) /\ Goto(p, "disable")
  /\ UNCHANGED <<sql, outbox, reviewer, reviews, snapshot>>

SyncSql(p) ==
  /\ publisher[p].step = "sync"
  /\ \/ /\ UpdateRow(publisher[p].doc, [sql[publisher[p].doc] EXCEPT
             !.servable = FALSE, !.state = "qdrant_synced"])
        /\ Goto(p, "batch")
        /\ UNCHANGED faults
     \/ Fault /\ Goto(p, "disable") /\ UNCHANGED sql
  /\ UNCHANGED <<qdrant, outbox, reviewer, reviews, snapshot>>

\* One batch takes the old documents out of serving and puts the new one in.
ActivatedPoints(p) ==
  [d \in Docs |->
     IF d = publisher[p].doc
       THEN [servable |-> TRUE, life |-> "published", effective |-> "effective",
             approved |-> TRUE, current |-> TRUE, epoch |-> publisher[p].event]
     ELSE IF d \in publisher[p].old
       THEN [qdrant[d] EXCEPT !.servable = FALSE, !.current = FALSE,
                              !.life = "superseded", !.effective = "superseded"]
     ELSE qdrant[d]]

BatchQdrant(p) ==
  /\ publisher[p].step = "batch"
  /\ \/ BatchOk(ActivatedPoints(p)) /\ Goto(p, "finalize")
     \/ BatchFails(ActivatedPoints(p), p) /\ Goto(p, "disable")
  /\ UNCHANGED <<sql, outbox, reviewer, reviews, snapshot>>

\* The unique index UX_TaiLieu_Current_Per_Variant refuses the transaction.
IndexViolated(p) ==
  \E e \in Docs \ (publisher[p].old \cup {publisher[p].doc}) :
    /\ SameSlot(publisher[p].doc, e)
    /\ sql[e].current /\ sql[e].life = "published"

\* One transaction: the old documents superseded, the new one servable, the
\* event done.  Nothing in it looks at what the rows or the event have become
\* since they were read.
FinalizeSql(p) ==
  /\ publisher[p].step = "finalize"
  /\ ~IndexViolated(p)
  /\ sql' = [d \in Docs |->
       IF d = publisher[p].doc
         THEN [servable |-> TRUE, state |-> "published", life |-> "published",
               effective |-> "effective", approved |-> TRUE, current |-> TRUE,
               epoch |-> publisher[p].event]
       ELSE IF d \in publisher[p].old
         THEN [sql[d] EXCEPT !.servable = FALSE, !.current = FALSE,
                             !.life = "superseded", !.effective = "superseded",
                             !.state = "published"]
       ELSE sql[d]]
  /\ Unlock(publisher[p].event, "done")
  /\ Leave(p)
  /\ UNCHANGED <<qdrant, reviewer, reviews, snapshot, faults>>

FinalizeFails(p) ==
  /\ publisher[p].step = "finalize"
  /\ \/ IndexViolated(p) /\ UNCHANGED faults
     \/ Fault
  /\ Goto(p, "rollback")
  /\ UNCHANGED <<sql, qdrant, outbox, reviewer, reviews, snapshot>>

\* The compensation restores what was read before the batch.
RestoredPoints(p) ==
  [d \in Docs |->
     IF d = publisher[p].doc
       THEN [qdrant[d] EXCEPT !.servable = FALSE, !.current = FALSE,
                              !.effective = publisher[p].seen[d].effective,
                              !.epoch = publisher[p].seen[d].epoch]
     ELSE IF d \in publisher[p].old
       THEN [qdrant[d] EXCEPT !.servable = TRUE, !.current = TRUE,
                              !.life = "published",
                              !.effective = publisher[p].seen[d].effective,
                              !.epoch = publisher[p].seen[d].epoch]
     ELSE qdrant[d]]

RollbackQdrant(p) ==
  /\ publisher[p].step = "rollback"
  /\ BatchOk(RestoredPoints(p)) \/ BatchFails(RestoredPoints(p), p)
  /\ Goto(p, "disable")
  /\ UNCHANGED <<sql, outbox, reviewer, reviews, snapshot>>

\* _mark_outbox_failure: hide the point (the answer is not looked at), then
\* record the failure on the event and the document.
DisableQdrant(p) ==
  LET d == publisher[p].doc
      hidden == [qdrant[d] EXCEPT !.servable = FALSE]
  IN /\ publisher[p].step = "disable"
     /\ QdrantOk(d, hidden) \/ QdrantFails(d, hidden)
     /\ Goto(p, "markFailed")
     /\ UNCHANGED <<sql, outbox, reviewer, reviews, snapshot>>

\* Mutant of MarkFailed: the row of the document is left as it is.
MarkFailedEventOnly(p) ==
  /\ publisher[p].step = "markFailed"
  /\ Unlock(publisher[p].event, "failed")
  /\ Leave(p)
  /\ UNCHANGED <<sql, qdrant, reviewer, reviews, snapshot, faults>>

\* Mutant of MarkFailed: an event is dropped once its attempts are used up.
MarkFailedGivingUp(p) ==
  /\ publisher[p].step = "markFailed"
  /\ Unlock(publisher[p].event,
            IF outbox[publisher[p].event].attempts = MaxAttempts
              THEN "done" ELSE "failed")
  /\ UpdateRow(publisher[p].doc,
               [sql[publisher[p].doc] EXCEPT !.state = "failed", !.servable = FALSE])
  /\ Leave(p)
  /\ UNCHANGED <<qdrant, reviewer, reviews, snapshot, faults>>

MarkFailed(p) ==
  /\ publisher[p].step = "markFailed"
  /\ Unlock(publisher[p].event, "failed")
  /\ UpdateRow(publisher[p].doc,
               [sql[publisher[p].doc] EXCEPT !.state = "failed", !.servable = FALSE])
  /\ Leave(p)
  /\ UNCHANGED <<qdrant, reviewer, reviews, snapshot, faults>>

\* The process dies, or its last SQL transaction fails: nothing is undone.
Crash(p) ==
  /\ publisher[p].step # "idle"
  /\ Fault
  /\ Leave(p)
  /\ UNCHANGED <<sql, qdrant, outbox, reviewer, reviews, snapshot>>

Holds(p, i) ==
  /\ publisher[p].event = i
  /\ publisher[p].step \notin {"idle", "validated", "queued"}

\* Five minutes pass since LockedAt.
LockExpires(i) ==
  /\ outbox[i].status = "processing" /\ outbox[i].lock = "held"
  /\ SlowHolders \/ \A p \in Publishers : ~Holds(p, i)
  /\ outbox' = [outbox EXCEPT ![i].lock = "stale"]
  /\ UNCHANGED <<sql, qdrant, publisher, reviewer, reviews, snapshot, faults>>

-----------------------------------------------------------------------------
(* archive_document and reject_document hide the points first, and change   *)
(* SQL only if that succeeded; mark_document_expired changes SQL first and  *)
(* tells Qdrant best-effort.                                                *)

BeginReview(r) ==
  /\ reviewer[r].step = "idle"
  /\ reviews < MaxReviews /\ reviews' = reviews + 1
NextReviewStep(r, d, step) ==
  reviewer' = [reviewer EXCEPT ![r] = [step |-> step, doc |-> d]]
EndReview(r) == reviewer' = [reviewer EXCEPT ![r] = NoReview]

ArchiveQdrant(r, d) ==
  LET hidden == [qdrant[d] EXCEPT !.servable = FALSE, !.current = FALSE,
                                  !.life = "archived"]
  IN /\ BeginReview(r)
     /\ \/ QdrantOk(d, hidden) /\ NextReviewStep(r, d, "archive")
        \/ QdrantFails(d, hidden) /\ UNCHANGED reviewer
     /\ UNCHANGED <<sql, outbox, publisher, snapshot>>

ArchiveSql(r) ==
  /\ reviewer[r].step = "archive"
  /\ UpdateRow(reviewer[r].doc, [sql[reviewer[r].doc] EXCEPT !.servable = FALSE,
       !.current = FALSE, !.life = "archived", !.state = "published"])
  /\ EndReview(r)
  /\ UNCHANGED <<qdrant, outbox, publisher, reviews, snapshot, faults>>

RejectQdrant(r, d) ==
  LET hidden == [qdrant[d] EXCEPT !.servable = FALSE, !.life = "rejected",
                                  !.approved = FALSE]
  IN /\ BeginReview(r)
     /\ \/ QdrantOk(d, hidden) /\ NextReviewStep(r, d, "reject")
        \/ QdrantFails(d, hidden) /\ UNCHANGED reviewer
     /\ UNCHANGED <<sql, outbox, publisher, snapshot>>

RejectSql(r) ==
  /\ reviewer[r].step = "reject"
  /\ UpdateRow(reviewer[r].doc, [sql[reviewer[r].doc] EXCEPT !.servable = FALSE,
       !.approved = FALSE, !.life = "rejected", !.state = "failed"])
  /\ EndReview(r)
  /\ UNCHANGED <<qdrant, outbox, publisher, reviews, snapshot, faults>>

ExpireSql(r, d) ==
  /\ BeginReview(r)
  /\ UpdateRow(d, [sql[d] EXCEPT !.effective = "expired"])
  /\ NextReviewStep(r, d, "expire")
  /\ UNCHANGED <<qdrant, outbox, publisher, snapshot, faults>>

ExpireQdrant(r) ==
  LET d == reviewer[r].doc
      expired == [qdrant[d] EXCEPT !.effective = "expired"]
  IN /\ reviewer[r].step = "expire"
     /\ QdrantOk(d, expired) \/ QdrantFails(d, expired)
     /\ EndReview(r)
     /\ UNCHANGED <<sql, outbox, publisher, reviews, snapshot>>

ReviewCrash(r) ==
  /\ reviewer[r].step # "idle"
  /\ Fault
  /\ EndReview(r)
  /\ UNCHANGED <<sql, qdrant, outbox, publisher, reviews, snapshot>>

-----------------------------------------------------------------------------
(* reconcile_serving_state: one read of all rows, then one write per row *)

CopyOf(d, m) == [doc |-> d, servable |-> m.servable, life |-> m.life,
                 approved |-> m.approved, current |-> m.current,
                 epoch |-> m.epoch]

ReconcileRead(r) ==
  /\ snapshot[r] = {}
  /\ snapshot' = [snapshot EXCEPT ![r] = {CopyOf(d, sql[d]) : d \in Docs}]
  /\ UNCHANGED <<sql, qdrant, outbox, publisher, reviewer, reviews, faults>>

\* Mutant of ReconcileWrite: is_current is not copied.
ReconcileWriteNotCurrent(r, row) ==
  LET copied == [qdrant[row.doc] EXCEPT !.servable = row.servable,
                   !.life = row.life, !.approved = row.approved,
                   !.epoch = row.epoch]
  IN /\ row \in snapshot[r]
     /\ QdrantOk(row.doc, copied) \/ QdrantFails(row.doc, copied)
     /\ snapshot' = [snapshot EXCEPT ![r] = @ \ {row}]
     /\ UNCHANGED <<sql, outbox, publisher, reviewer, reviews>>

\* A failed write is reported and left for the next pass.
ReconcileWrite(r, row) ==
  LET copied == [qdrant[row.doc] EXCEPT !.servable = row.servable,
                   !.life = row.life, !.approved = row.approved,
                   !.current = row.current, !.epoch = row.epoch]
  IN /\ row \in snapshot[r]
     /\ QdrantOk(row.doc, copied) \/ QdrantFails(row.doc, copied)
     /\ snapshot' = [snapshot EXCEPT ![r] = @ \ {row}]
     /\ UNCHANGED <<sql, outbox, publisher, reviewer, reviews>>

ReconcileCrash(r) ==
  /\ snapshot[r] # {}
  /\ Fault
  /\ snapshot' = [snapshot EXCEPT ![r] = {}]
  /\ UNCHANGED <<sql, qdrant, outbox, publisher, reviewer, reviews>>

-----------------------------------------------------------------------------

Enqueue(p) ==
  EnqueueRefused(p) \/ EnqueueJoin(p) \/ EnqueueReopen(p) \/ EnqueueInsert(p)

\* What a running publisher does next, the poll of an idle worker included.
Publish(p) ==
  \/ Enqueue(p) \/ ClaimQueued(p) \/ ClaimLost(p)
  \/ PollClaim(p) \/ PollNothing(p)
  \/ BeginPublish(p) \/ BeginFails(p) \/ StageQdrant(p) \/ SyncSql(p)
  \/ BatchQdrant(p) \/ FinalizeSql(p) \/ FinalizeFails(p)
  \/ RollbackQdrant(p) \/ DisableQdrant(p) \/ MarkFailed(p)

FinishReview(r) == ArchiveSql(r) \/ RejectSql(r) \/ ExpireQdrant(r)

Reconcile(r) == ReconcileRead(r) \/ \E row \in snapshot[r] : ReconcileWrite(r, row)

Next ==
  \/ \E p \in Publishers :
       \/ \E d \in Docs, a \in Actions : ValidateRequest(p, d, a)
       \/ Publish(p)
       \/ Crash(p)
  \/ \E i \in DOMAIN outbox : LockExpires(i)
  \/ \E r \in Reviewers :
       \/ \E d \in Docs : ArchiveQdrant(r, d) \/ RejectQdrant(r, d) \/ ExpireSql(r, d)
       \/ FinishReview(r)
       \/ ReviewCrash(r)
  \/ \E r \in Reconcilers : Reconcile(r) \/ ReconcileCrash(r)

Spec == Init /\ [][Next]_vars

\* Running code goes on, the worker keeps polling, time passes.  Nobody is
\* obliged to request a publication or a review.
Fairness ==
  /\ \A p \in Publishers : WF_vars(Publish(p))
  /\ \A i \in 1..MaxEvents : WF_vars(i \in DOMAIN outbox /\ LockExpires(i))
  /\ \A r \in Reviewers : WF_vars(FinishReview(r))
  /\ \A r \in Reconcilers : WF_vars(Reconcile(r))

FairSpec == Spec /\ Fairness

\* From its claim on, a publication holds the event it processes.
Held == Locking \cup {"claimed", "disable", "markFailed"}

\* No document is being published by two at a time, and no slot: only new_variant
\* publications see to the second themselves (MayLock), and nothing to the first.
\* An assumption on how requests and retries come, made by ApartSpec alone.
DocsApart ==
  \A p, q \in Publishers :
    p # q /\ publisher[p].step \in Held /\ publisher[q].step \in Held =>
      publisher[p].doc # publisher[q].doc
SlotsApart ==
  \A p, q \in Publishers :
    p # q /\ publisher[p].step \in Locking /\ publisher[q].step \in Locking =>
      ~SameSlot(publisher[p].doc, publisher[q].doc)

ApartSpec == Init /\ [][Next /\ (DocsApart /\ SlotsApart)']_vars

-----------------------------------------------------------------------------
(* Properties *)

\* A row of TaiLieu is servable only on the strength of a publication that
\* was completed and not failed since: its ServingEpoch is the OutboxID of a
\* done event of that document (or 0, published before the outbox existed),
\* and the row is published, approved and current.  Retries, unfenced
\* holders, reviews and crashes in any order must not break it.
ServingBasis ==
  \A d \in Docs : sql[d].servable =>
    /\ sql[d].state = "published" /\ sql[d].life = "published"
    /\ sql[d].approved /\ sql[d].current
    /\ sql[d].epoch = 0 => d \in LiveAtStart
    /\ sql[d].epoch # 0 => /\ sql[d].epoch \in DOMAIN outbox
                           /\ outbox[sql[d].epoch].doc = d
                           /\ outbox[sql[d].epoch].status = "done"

\* While publications finish within the lock time, an event has one holder,
\* and no request, poll or reaping takes it from that holder.
OneHolder ==
  ~SlowHolders =>
    \A p \in Publishers, i \in 1..MaxEvents : Holds(p, i) =>
      /\ i \in DOMAIN outbox
      /\ outbox[i].status = "processing" /\ outbox[i].lock = "held"
      /\ \A q \in Publishers \ {p} : ~Holds(q, i)

\* With no other publication of the slot and no review in the way, a point that
\* answers questions although SQL does not serve it has an event that is not done:
\* a retry is to settle it, or it stands failed in the outbox, its attempts used up.
UnbackedIsCovered ==
  \A d \in Docs : Served(qdrant[d]) /\ ~sql[d].servable =>
    \E i \in DOMAIN outbox : outbox[i].doc = d /\ outbox[i].status # "done"

\* Likewise a document SQL serves while its point is hidden is one that a
\* new version, not yet published, is about to supersede.
HiddenIsCovered ==
  \A d \in Docs : Served(sql[d]) /\ ~Served(qdrant[d]) =>
    \E i \in DOMAIN outbox : /\ outbox[i].action = "new_version"
                             /\ outbox[i].status # "done"
                             /\ SameSlot(d, outbox[i].doc)

\* What SQL and Qdrant disagree about is unfinished business of the outbox, in both
\* directions: nothing stays wrong between the stores with every event done.
DisagreementsAreCovered == UnbackedIsCovered /\ HiddenIsCovered

\* The lock of the slot and the check made under it: when a new_variant
\* publication finds its variant taken after all, a publication of another
\* action took it, never a second new_variant.
VariantLockHolds ==
  \A p \in Publishers, e \in Docs :
    /\ publisher[p].action = "new_variant"
    /\ publisher[p].step \in {"stage", "sync", "batch", "finalize"}
    /\ e # publisher[p].doc /\ SameSlot(publisher[p].doc, e) /\ sql[e].current
    => /\ sql[e].epoch \in DOMAIN outbox
       /\ outbox[sql[e].epoch].action # "new_variant"

\* The SQL side of publication implements PublicationContract, as long as no
\* publication outlives its lock.
Family(d) == {e \in Docs \ {d} : SameSlot(d, e)}
Queued(event) == [doc |-> event.doc, action |-> event.action,
                  status |-> event.status, attempts |-> event.attempts]
Queue == [i \in DOMAIN outbox |-> Queued(outbox[i])]
Servable == {d \in Docs : sql[d].servable}

Contract == INSTANCE PublicationContract WITH
  Families <- [d \in Docs |-> Family(d)], queue <- Queue, servable <- Servable
ImplementsContract == Contract!ContractSpec

\* The serving invariant the retrieval filters state: a superseded document is
\* not retrieved, unless it is itself being published again.  What restores
\* the documents that a failed publication had hidden must not bring back one
\* that another publication has superseded meanwhile.
SupersededNotServed ==
  \A d \in Docs :
    /\ sql[d].life = "superseded"
    /\ \A i \in DOMAIN outbox : outbox[i].doc = d => outbox[i].status = "done"
    => ~Served(qdrant[d])

\* Every event is completed or uses up its attempts, whatever crashes: none is
\* forgotten in the queue or left locked by a dead worker.
Settled(i) ==
  /\ i \in DOMAIN outbox
  /\ \/ outbox[i].status = "done"
     \/ outbox[i].status = "failed" /\ outbox[i].attempts = MaxAttempts
EventsSettle ==
  \A i \in 1..MaxEvents : i \in DOMAIN outbox ~> Settled(i)

\* Once requests, reviews and faults stop, SQL and Qdrant come to agree on
\* every column that the serving reconciler copies, and stay so.
CopiesConverge ==
  <>[](\A d \in Docs : CopyOf(d, qdrant[d]) = CopyOf(d, sql[d]))

\* ... and, as reconcile_serving_state promises, on what is served.
DriftRepaired == <>[](\A d \in Docs : Served(qdrant[d]) = Served(sql[d]))
=============================================================================
