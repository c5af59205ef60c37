------------------------- MODULE PublicationProofs -------------------------
(* Theorems about Publication, for every value of its constants.            *)
EXTENDS Publication, TLAPS

-----------------------------------------------------------------------------
(* What running code knows of its document and of its event *)

EngagedPublisher(p) ==
  /\ publisher[p].step # "idle" =>
       publisher[p].doc \in Docs /\ publisher[p].action \in Actions
  /\ publisher[p].step \notin {"idle", "validated"} =>
       /\ publisher[p].event \in DOMAIN outbox
       /\ outbox[publisher[p].event].doc = publisher[p].doc

Engaged ==
  /\ \A p \in Publishers : EngagedPublisher(p)
  /\ \A r \in Reviewers : reviewer[r].step # "idle" => reviewer[r].doc \in Docs

Typed == TypeOK /\ Engaged

\* The events that exist go on to exist, about the same documents.
KeepsEvents ==
  /\ outbox' \in Seq(Event)
  /\ Len(outbox') <= MaxEvents
  /\ DOMAIN outbox \subseteq DOMAIN outbox'
  /\ \A i \in DOMAIN outbox : outbox'[i].doc = outbox[i].doc

LEMMA TypeInit == Init => Typed
  <1> SUFFICES ASSUME Init PROVE Typed
    OBVIOUS
  <1>1. TypeOK
    BY PublicationAssumptions
    DEF PublicationAssumptions, Init, TypeOK, InitialRow, InitialPoint, Row, Point,
        Publication, NoPublication, PublisherStep, PublishActions, Seen, Unseen,
        Review, NoReview, ReviewStep, PublicationState, LifecycleStatus,
        EffectiveStatus, Event
  <1>2. Engaged
    BY DEF Init, Engaged, EngagedPublisher, NoPublication, NoReview
  <1> QED
    BY <1>1, <1>2 DEF Typed

LEMMA UpdateRowType ==
  ASSUME TypeOK, NEW d \in Docs, NEW row \in Row, UpdateRow(d, row)
  PROVE  sql' \in [Docs -> Row]
  BY DEF UpdateRow, TypeOK

LEMMA WithdrawType ==
  ASSUME TypeOK, NEW d \in Docs, Withdraw(d)
  PROVE  sql' \in [Docs -> Row]
  BY UpdateRowType, ZenonT(60) DEF Withdraw, TypeOK, Row, PublicationState

LEMMA LeaveType ==
  ASSUME TypeOK, NEW p \in Publishers, Leave(p)
  PROVE  publisher' \in [Publishers -> Publication]
  BY PublicationAssumptions
  DEF PublicationAssumptions, Leave, TypeOK, Publication, NoPublication,
      PublisherStep, PublishActions, Seen, Unseen, EffectiveStatus

LEMMA GotoType ==
  ASSUME TypeOK, NEW p \in Publishers, NEW s \in PublisherStep, Goto(p, s)
  PROVE  publisher' \in [Publishers -> Publication]
  BY ZenonT(60) DEF Goto, TypeOK, Publication

LEMMA FaultType ==
  ASSUME TypeOK, Fault
  PROVE  faults' \in 0..MaxFaults
  BY PublicationAssumptions DEF PublicationAssumptions, Fault, TypeOK

LEMMA QdrantType ==
  ASSUME TypeOK, NEW d \in Docs, NEW m \in Point, QdrantOk(d, m) \/ QdrantFails(d, m)
  PROVE  qdrant' \in [Docs -> Point] /\ faults' \in 0..MaxFaults
  BY FaultType DEF QdrantOk, QdrantFails, TypeOK

LEMMA BatchType ==
  ASSUME TypeOK, NEW p \in Publishers, NEW new \in [Docs -> Point],
         BatchOk(new) \/ BatchFails(new, p)
  PROVE  qdrant' \in [Docs -> Point] /\ faults' \in 0..MaxFaults
  BY FaultType DEF BatchOk, BatchFails, TypeOK

\* Every unlocking changes one event, and neither its document nor its attempts.
LEMMA UnlockKeeps ==
  ASSUME TypeOK, NEW i \in DOMAIN outbox, NEW s \in EventStatus, Unlock(i, s)
  PROVE  /\ KeepsEvents
         /\ Len(outbox') = Len(outbox)
         /\ outbox'[i].status = s
         /\ \A j \in DOMAIN outbox \ {i} : outbox'[j] = outbox[j]
  <1> DEFINE e == [outbox[i] EXCEPT !.status = s, !.lock = "none"]
  <1>1. outbox[i] \in Event
    BY DEF TypeOK
  <1>2. e \in Event /\ e.doc = outbox[i].doc /\ e.status = s
    BY <1>1 DEF Event
  <1>3. outbox' = [outbox EXCEPT ![i] = e]
    BY DEF Unlock
  <1> HIDE DEF e
  <1>4. /\ outbox' \in Seq(Event) /\ Len(outbox') = Len(outbox)
        /\ outbox'[i] = e
        /\ \A j \in DOMAIN outbox \ {i} : outbox'[j] = outbox[j]
    BY <1>2, <1>3 DEF TypeOK
  <1> QED
    BY <1>2, <1>4 DEF TypeOK, KeepsEvents

\* Reaping keeps every event, its document and its attempts.
LEMMA ReapedKeeps ==
  ASSUME TypeOK
  PROVE  /\ Reaped \in Seq(Event) /\ Len(Reaped) = Len(outbox)
         /\ DOMAIN Reaped = DOMAIN outbox
         /\ \A i \in DOMAIN outbox : /\ Reaped[i] = Reap(i) /\ Reap(i) \in Event
                                     /\ Reap(i).attempts = outbox[i].attempts
                                     /\ Reap(i).doc = outbox[i].doc
                                     /\ Reap(i).action = outbox[i].action
  <1>1. \A i \in DOMAIN outbox : outbox[i] \in Event
    BY DEF TypeOK
  <1>2. \A i \in DOMAIN outbox : /\ Reap(i) \in Event
                                 /\ Reap(i).attempts = outbox[i].attempts
                                 /\ Reap(i).doc = outbox[i].doc
                                 /\ Reap(i).action = outbox[i].action
    BY <1>1 DEF Reap, Event, EventStatus
  <1>3. DOMAIN outbox = 1..Len(outbox) /\ Len(outbox) \in Nat
    BY DEF TypeOK
  <1>4. Reaped \in Seq(Event) /\ Len(Reaped) = Len(outbox)
    BY <1>2, <1>3 DEF Reaped
  <1> QED
    BY <1>2, <1>4 DEF Reaped

LEMMA ReapingKeeps ==
  ASSUME TypeOK, outbox' = Reaped
  PROVE  KeepsEvents
  BY ReapedKeeps DEF KeepsEvents, TypeOK

\* A step that keeps the events and moves one publisher, keeping its document,
\* its action and its event, keeps everybody engaged.
LEMMA EngagedKept ==
  ASSUME Typed, NEW p \in Publishers, KeepsEvents, UNCHANGED reviewer,
         NEW m \in Publication, publisher' = [publisher EXCEPT ![p] = m],
         m.step # "idle" => m.doc \in Docs /\ m.action \in Actions,
         m.step \notin {"idle", "validated"} =>
           m.event \in DOMAIN outbox' /\ outbox'[m.event].doc = m.doc
  PROVE  Engaged'
  BY DEF Typed, TypeOK, KeepsEvents, Engaged, EngagedPublisher

LEMMA SameOutboxKeeps ==
  ASSUME TypeOK, UNCHANGED outbox
  PROVE  KeepsEvents
  BY DEF TypeOK, KeepsEvents

-----------------------------------------------------------------------------
(* publish_document *)

LEMMA TypedEnqueue ==
  ASSUME Typed, NEW p \in Publishers, Enqueue(p)
  PROVE  Typed'
  <1> DEFINE d == publisher[p].doc
             a == publisher[p].action
  <1>1. publisher[p] \in Publication /\ TypeOK
    BY DEF Typed, TypeOK
  <1>2. publisher[p].step = "validated" => d \in Docs /\ a \in Actions
    BY DEF Typed, Engaged, EngagedPublisher
  <1>3. CASE EnqueueRefused(p)
    <2>1. publisher' \in [Publishers -> Publication] /\ KeepsEvents
      BY <1>1, <1>3, LeaveType, SameOutboxKeeps DEF EnqueueRefused
    <2>2. TypeOK'
      BY <1>1, <1>3, <2>1 DEF EnqueueRefused, TypeOK
    <2>3. Engaged'
      BY <1>1, <1>3, <2>1 DEF EnqueueRefused, Leave, NoPublication, Typed, TypeOK, KeepsEvents, Engaged, EngagedPublisher
    <2> QED
      BY <2>2, <2>3 DEF Typed
  <1>4. CASE EnqueueJoin(p)
    <2>1. publisher' \in [Publishers -> Publication] /\ sql' \in [Docs -> Row]
      BY <1>1, <1>2, <1>4, LeaveType, WithdrawType DEF EnqueueJoin
    <2>2. TypeOK'
      BY <1>1, <1>4, <2>1 DEF EnqueueJoin, TypeOK
    <2>3. Engaged'
      BY <1>1, <1>4, <2>1 DEF EnqueueJoin, Leave, NoPublication, Typed, TypeOK, Engaged, EngagedPublisher
    <2> QED
      BY <2>2, <2>3 DEF Typed
  <1>5. CASE EnqueueReopen(p)
    <2>1. PICK i \in Existing(d, a) : Unlock(i, "pending") /\ Await(p, i)
      BY <1>5 DEF EnqueueReopen
    <2>2. i \in DOMAIN outbox /\ outbox[i].doc = d /\ i \in 0..MaxEvents
      BY <1>1, <2>1, PublicationAssumptions
      DEF Existing, OpenEvents, TypeOK, PublicationAssumptions
    <2>3. KeepsEvents /\ sql' \in [Docs -> Row] /\ Len(outbox') = Len(outbox)
      BY <1>1, <1>2, <1>5, <2>1, <2>2, UnlockKeeps, WithdrawType DEF EnqueueReopen, EventStatus
    <2> DEFINE m == [publisher[p] EXCEPT !.step = "queued", !.event = i]
    <2>4. m \in Publication /\ m.doc = d /\ m.action = a /\ m.event = i /\ m.step = "queued"
      BY <1>1, <2>2 DEF Publication, PublisherStep
    <2>5. publisher' = [publisher EXCEPT ![p] = m] /\ UNCHANGED reviewer
      BY <1>5, <2>1 DEF Await, EnqueueReopen
    <2> HIDE DEF m
    <2>6. TypeOK'
      BY <1>1, <1>5, <2>3, <2>4, <2>5 DEF EnqueueReopen, KeepsEvents, TypeOK
    <2>7. m.event \in DOMAIN outbox' /\ outbox'[m.event].doc = m.doc
      BY <2>2, <2>3, <2>4 DEF KeepsEvents
    <2>8. d \in Docs /\ a \in Actions
      BY <1>2, <1>5 DEF EnqueueReopen
    <2>9. Engaged'
      BY <2>3, <2>4, <2>5, <2>7, <2>8, EngagedKept
    <2> QED
      BY <2>6, <2>9 DEF Typed
  <1>6. CASE EnqueueInsert(p)
    <2> DEFINE e == [doc |-> d, action |-> a, status |-> "pending", attempts |-> 0, lock |-> "none"]
               m == [publisher[p] EXCEPT !.step = "queued", !.event = Len(outbox) + 1]
    <2>1. d \in Docs /\ a \in Actions
      BY <1>2, <1>6 DEF EnqueueInsert
    <2>2. e \in Event /\ e.doc = d
      BY <2>1, PublicationAssumptions DEF Event, EventStatus, PublicationAssumptions
    <2>3. /\ outbox' = Append(outbox, e) /\ Len(outbox) < MaxEvents
          /\ publisher' = [publisher EXCEPT ![p] = m] /\ UNCHANGED reviewer
      BY <1>6 DEF EnqueueInsert, Await
    <2>. Len(outbox) + 1 \in 0..MaxEvents
      BY <1>1, <2>3, PublicationAssumptions DEF TypeOK, PublicationAssumptions
    <2>4. /\ m \in Publication /\ m.doc = d /\ m.action = a
          /\ m.event = Len(outbox) + 1 /\ m.step = "queued"
      BY <1>1 DEF Publication, PublisherStep
    <2> HIDE DEF e, m
    <2>5. KeepsEvents /\ outbox'[Len(outbox) + 1] = e /\ Len(outbox) + 1 \in DOMAIN outbox'
      BY <1>1, <2>2, <2>3, PublicationAssumptions DEF KeepsEvents, TypeOK, PublicationAssumptions
    <2>6. sql' \in [Docs -> Row]
      BY <1>1, <1>6, <2>1, WithdrawType DEF EnqueueInsert
    <2>7. TypeOK'
      BY <1>1, <1>6, <2>3, <2>4, <2>5, <2>6 DEF EnqueueInsert, KeepsEvents, TypeOK
    <2>8. Engaged'
      BY <2>1, <2>2, <2>3, <2>4, <2>5, EngagedKept
    <2> QED
      BY <2>7, <2>8 DEF Typed
  <1> QED
    BY <1>3, <1>4, <1>5, <1>6 DEF Enqueue

-----------------------------------------------------------------------------
(* Claims *)

LEMMA TypedClaim ==
  ASSUME Typed, NEW p \in Publishers, NEW i \in DOMAIN outbox, ClaimOutbox(p, i)
  PROVE  Typed'
  <1> DEFINE e == Claimed(Reap(i))
             m == [publisher[p] EXCEPT !.step = "claimed", !.event = i,
                     !.doc = outbox[i].doc, !.action = outbox[i].action]
  <1>1. TypeOK /\ publisher[p] \in Publication /\ outbox[i] \in Event
    BY DEF Typed, TypeOK
  <1>2. Reap(i) \in Event /\ Reap(i).doc = outbox[i].doc
    BY <1>1, ReapedKeeps
  <1>3. Reap(i).attempts \in 0..MaxAttempts /\ Reap(i).attempts < MaxAttempts
    BY <1>2 DEF ClaimOutbox, Claimable, Event
  <1>4. Reap(i).attempts + 1 \in 0..MaxAttempts
    BY <1>3, PublicationAssumptions DEF PublicationAssumptions
  <1>5. e \in Event /\ e.doc = outbox[i].doc
    BY <1>2, <1>4 DEF Claimed, Event, EventStatus
  <1>6. outbox[i].doc \in Docs /\ outbox[i].action \in Actions /\ i \in 0..MaxEvents
    BY <1>1, PublicationAssumptions DEF Event, TypeOK, PublicationAssumptions
  <1>7. /\ m \in Publication /\ m.doc = outbox[i].doc
        /\ m.action = outbox[i].action /\ m.event = i /\ m.step = "claimed"
    BY <1>1, <1>6, PublicationAssumptions
    DEF Publication, PublisherStep, PublicationAssumptions
  <1>8. /\ outbox' = [Reaped EXCEPT ![i] = e]
        /\ publisher' = [publisher EXCEPT ![p] = m]
        /\ UNCHANGED <<qdrant, reviewer, reviews, snapshot, faults>>
    <2>1. outbox' = [Reaped EXCEPT ![i] = e]
      BY DEF ClaimOutbox
    <2>2. publisher' = [publisher EXCEPT ![p] = m]
      BY DEF ClaimOutbox
    <2> QED
      BY <2>1, <2>2 DEF ClaimOutbox
  <1>9. sql' \in [Docs -> Row]
    BY <1>1, <1>6, WithdrawType DEF ClaimOutbox
  <1> HIDE DEF e, m
  <1>10. KeepsEvents
    BY <1>1, <1>5, <1>8, ReapedKeeps DEF KeepsEvents, TypeOK
  <1>11. TypeOK'
    BY <1>1, <1>7, <1>8, <1>9, <1>10 DEF KeepsEvents, TypeOK
  <1>12. outbox'[i].doc = m.doc /\ i \in DOMAIN outbox'
    BY <1>7, <1>10 DEF KeepsEvents
  <1>13. Engaged'
    BY <1>6, <1>7, <1>8, <1>10, <1>12, EngagedKept
  <1> QED
    BY <1>11, <1>13 DEF Typed

\* A publisher that leaves is engaged to nothing.
LEMMA TypedLeave ==
  ASSUME Typed, NEW p \in Publishers, Leave(p), KeepsEvents,
         sql' \in [Docs -> Row], qdrant' \in [Docs -> Point], faults' \in 0..MaxFaults,
         UNCHANGED <<reviewer, reviews, snapshot>>
  PROVE  Typed'
  <1>1. TypeOK
    BY DEF Typed
  <1>2. TypeOK'
    BY <1>1, LeaveType DEF TypeOK, KeepsEvents
  <1>3. Engaged'
    BY <1>1 DEF Typed, Leave, NoPublication, TypeOK, KeepsEvents, Engaged, EngagedPublisher
  <1> QED
    BY <1>2, <1>3 DEF Typed

\* A publisher that takes its next step stays with its document and its event.
LEMMA TypedGoto ==
  ASSUME Typed, NEW p \in Publishers,
         publisher[p].step \notin {"idle", "validated"},
         NEW s \in PublisherStep, Goto(p, s),
         sql' \in [Docs -> Row], qdrant' \in [Docs -> Point], faults' \in 0..MaxFaults,
         UNCHANGED <<outbox, reviewer, reviews, snapshot>>
  PROVE  Typed'
  <1>1. TypeOK
    BY DEF Typed
  <1>2. TypeOK'
    BY <1>1, GotoType DEF TypeOK
  <1>3. Engaged'
    BY <1>1 DEF Typed, Goto, TypeOK, Engaged, EngagedPublisher, Publication
  <1> QED
    BY <1>2, <1>3 DEF Typed

LEMMA TypedClaims ==
  ASSUME Typed, NEW p \in Publishers,
         ClaimQueued(p) \/ ClaimLost(p) \/ PollClaim(p) \/ PollNothing(p)
  PROVE  Typed'
  <1>1. TypeOK
    BY DEF Typed
  <1>2. CASE ClaimQueued(p)
    <2>1. publisher[p].event \in DOMAIN outbox
      BY <1>2 DEF ClaimQueued, Typed, Engaged, EngagedPublisher
    <2> QED
      BY <1>2, <2>1, TypedClaim DEF ClaimQueued
  <1>3. CASE ClaimLost(p)
    <2>1. KeepsEvents
      BY <1>1, <1>3, ReapingKeeps DEF ClaimLost
    <2> QED
      BY <1>1, <1>3, <2>1, TypedLeave DEF ClaimLost, TypeOK
  <1>4. CASE PollClaim(p)
    BY <1>4, TypedClaim DEF PollClaim
  <1>5. CASE PollNothing(p)
    <2>1. KeepsEvents
      BY <1>1, <1>5, ReapingKeeps DEF PollNothing
    <2> QED
      BY <1>1, <1>5, <2>1 DEF PollNothing, Typed, TypeOK, KeepsEvents, Engaged, EngagedPublisher
  <1> QED
    BY <1>2, <1>3, <1>4, <1>5

-----------------------------------------------------------------------------
(* _publish_event *)

\* What a publisher past its claim knows.
LEMMA Busy ==
  ASSUME Typed, NEW p \in Publishers, publisher[p].step \notin {"idle", "validated"}
  PROVE  /\ TypeOK
         /\ publisher[p] \in Publication
         /\ publisher[p].doc \in Docs
         /\ publisher[p].event \in DOMAIN outbox
         /\ publisher[p].event \in 0..MaxEvents /\ publisher[p].event # 0
         /\ outbox[publisher[p].event].doc = publisher[p].doc
         /\ sql[publisher[p].doc] \in Row
         /\ qdrant[publisher[p].doc] \in Point
  BY PublicationAssumptions
  DEF PublicationAssumptions, Typed, TypeOK, Engaged, EngagedPublisher, Publication

LEMMA TypedBegin ==
  ASSUME Typed, NEW p \in Publishers, BeginPublish(p)
  PROVE  Typed'
  <1> DEFINE old == OldDocs(publisher[p].doc, publisher[p].action)
             read == old \cup {publisher[p].doc}
             m == [publisher[p] EXCEPT !.step = "stage", !.old = old,
                                       !.seen = SeenRows(read)]
  <1>1. publisher[p].step = "claimed"
    BY DEF BeginPublish
  <1>2. /\ TypeOK /\ publisher[p] \in Publication /\ publisher[p].doc \in Docs
        /\ publisher[p].event \in DOMAIN outbox
        /\ outbox[publisher[p].event].doc = publisher[p].doc
        /\ publisher[p].action \in Actions
    BY <1>1, Busy DEF Typed, Engaged, EngagedPublisher
  <1>3. \A read_ \in SUBSET Docs : SeenRows(read_) \in [Docs -> Seen]
    BY <1>2, PublicationAssumptions
    DEF SeenRows, Seen, Unseen, TypeOK, Row, EffectiveStatus, PublicationAssumptions
  <1>4. old \in SUBSET Docs /\ read \in SUBSET Docs
    BY <1>2 DEF OldDocs
  <1>5. SeenRows(read) \in [Docs -> Seen]
    BY <1>3, <1>4
  <1>6. publisher' = [publisher EXCEPT ![p] = m]
    BY DEF BeginPublish
  <1> HIDE DEF old, read
  <1>7. /\ m \in Publication /\ m.doc = publisher[p].doc /\ m.step = "stage"
        /\ m.event = publisher[p].event /\ m.action = publisher[p].action
    BY <1>2, <1>4, <1>5 DEF Publication, PublisherStep
  <1> HIDE DEF m
  <1>8. KeepsEvents /\ UNCHANGED reviewer /\ UNCHANGED outbox
    BY <1>2, SameOutboxKeeps DEF BeginPublish
  <1>9. TypeOK'
    BY <1>2, <1>6, <1>7 DEF BeginPublish, TypeOK
  <1>10. Engaged'
    BY <1>2, <1>6, <1>7, <1>8, EngagedKept
  <1> QED
    BY <1>9, <1>10 DEF Typed

LEMMA TypedCalls ==
  ASSUME Typed, NEW p \in Publishers,
         \/ BeginFails(p) \/ StageQdrant(p) \/ SyncSql(p) \/ BatchQdrant(p)
         \/ FinalizeFails(p) \/ RollbackQdrant(p) \/ DisableQdrant(p)
  PROVE  Typed'
  <1> DEFINE d == publisher[p].doc
  <1> USE DEF PublisherStep
  <1>1. publisher[p].step \notin {"idle", "validated"}
    BY DEF BeginFails, StageQdrant, SyncSql, BatchQdrant, FinalizeFails,
           RollbackQdrant, DisableQdrant
  <1>2. /\ TypeOK /\ d \in Docs /\ sql[d] \in Row /\ qdrant[d] \in Point
        /\ publisher[p] \in Publication /\ publisher[p].event \in 0..MaxEvents
    BY <1>1, Busy
  <1>3. CASE BeginFails(p)
    BY <1>1, <1>2, <1>3, TypedGoto DEF BeginFails, TypeOK
  <1>4. CASE StageQdrant(p)
    <2>1. StagedPoint(p) \in Point
      BY <1>2 DEF StagedPoint, Point
    <2>2. qdrant' \in [Docs -> Point] /\ faults' \in 0..MaxFaults
      BY <1>2, <1>4, <2>1, QdrantType DEF StageQdrant
    <2> QED
      BY <1>1, <1>2, <1>4, <2>2, TypedGoto DEF StageQdrant, TypeOK
  <1>5. CASE SyncSql(p)
    <2>1. [sql[d] EXCEPT !.servable = FALSE, !.state = "qdrant_synced"] \in Row
      BY <1>2 DEF Row, PublicationState
    <2>2. sql' \in [Docs -> Row] /\ faults' \in 0..MaxFaults
      BY <1>2, <1>5, <2>1, UpdateRowType, FaultType DEF SyncSql, TypeOK
    <2> QED
      BY <1>1, <1>2, <1>5, <2>2, TypedGoto DEF SyncSql, TypeOK
  <1>6. CASE BatchQdrant(p)
    <2>1. ActivatedPoints(p) \in [Docs -> Point]
      BY <1>2 DEF ActivatedPoints, TypeOK, Point, LifecycleStatus, EffectiveStatus
    <2>2. qdrant' \in [Docs -> Point] /\ faults' \in 0..MaxFaults
      BY <1>2, <1>6, <2>1, BatchType DEF BatchQdrant
    <2> QED
      BY <1>1, <1>2, <1>6, <2>2, TypedGoto DEF BatchQdrant, TypeOK
  <1>7. CASE FinalizeFails(p)
    <2>1. faults' \in 0..MaxFaults
      BY <1>2, <1>7, FaultType DEF FinalizeFails, TypeOK
    <2> QED
      BY <1>1, <1>2, <1>7, <2>1, TypedGoto DEF FinalizeFails, TypeOK
  <1>8. CASE RollbackQdrant(p)
    <2>1. \A e \in Docs : publisher[p].seen[e] \in Seen /\ qdrant[e] \in Point
      BY <1>2 DEF TypeOK, Publication
    <2>2. RestoredPoints(p) \in [Docs -> Point]
      BY <1>2, <2>1 DEF RestoredPoints, Seen, Point, LifecycleStatus
    <2>3. qdrant' \in [Docs -> Point] /\ faults' \in 0..MaxFaults
      BY <1>2, <1>8, <2>2, BatchType DEF RollbackQdrant
    <2> QED
      BY <1>1, <1>2, <1>8, <2>3, TypedGoto DEF RollbackQdrant, TypeOK
  <1>9. CASE DisableQdrant(p)
    <2>1. [qdrant[d] EXCEPT !.servable = FALSE] \in Point
      BY <1>2 DEF Point
    <2>2. qdrant' \in [Docs -> Point] /\ faults' \in 0..MaxFaults
      BY <1>2, <1>9, <2>1, QdrantType DEF DisableQdrant
    <2> QED
      BY <1>1, <1>2, <1>9, <2>2, TypedGoto DEF DisableQdrant, TypeOK
  <1> QED
    BY <1>3, <1>4, <1>5, <1>6, <1>7, <1>8, <1>9

LEMMA TypedEnds ==
  ASSUME Typed, NEW p \in Publishers,
         FinalizeSql(p) \/ MarkFailed(p) \/ Crash(p)
  PROVE  Typed'
  <1> DEFINE d == publisher[p].doc
             i == publisher[p].event
  <1>1. TypeOK
    BY DEF Typed
  <1>2. CASE FinalizeSql(p)
    <2>1. /\ d \in Docs /\ i \in DOMAIN outbox /\ i \in 0..MaxEvents
      BY <1>2, Busy DEF FinalizeSql
    <2>2. KeepsEvents
      BY <1>1, <1>2, <2>1, UnlockKeeps DEF FinalizeSql, EventStatus
    <2>3. \A e \in Docs : sql[e] \in Row
      BY <1>1 DEF TypeOK
    <2>4. \A e \in Docs :
            /\ [sql[e] EXCEPT !.servable = FALSE, !.current = FALSE,
                              !.life = "superseded", !.effective = "superseded",
                              !.state = "published"] \in Row
            /\ [servable |-> TRUE, state |-> "published", life |-> "published",
                effective |-> "effective", approved |-> TRUE, current |-> TRUE,
                epoch |-> i] \in Row
      BY <2>1, <2>3, ZenonT(60) DEF Row, PublicationState, LifecycleStatus, EffectiveStatus
    <2>5. sql' \in [Docs -> Row]
      BY <1>2, <2>3, <2>4 DEF FinalizeSql
    <2> QED
      BY <1>1, <1>2, <2>2, <2>5, TypedLeave DEF FinalizeSql, TypeOK
  <1>3. CASE MarkFailed(p)
    <2>1. d \in Docs /\ i \in DOMAIN outbox /\ sql[d] \in Row
      BY <1>3, Busy DEF MarkFailed
    <2>2. KeepsEvents
      BY <1>1, <1>3, <2>1, UnlockKeeps DEF MarkFailed, EventStatus
    <2>3. [sql[d] EXCEPT !.state = "failed", !.servable = FALSE] \in Row
      BY <2>1 DEF Row, PublicationState
    <2>4. sql' \in [Docs -> Row]
      BY <1>1, <1>3, <2>1, <2>3, UpdateRowType DEF MarkFailed
    <2> QED
      BY <1>1, <1>3, <2>2, <2>4, TypedLeave DEF MarkFailed, TypeOK
  <1>4. CASE Crash(p)
    BY <1>1, <1>4, SameOutboxKeeps, FaultType, TypedLeave DEF Crash, TypeOK
  <1> QED
    BY <1>2, <1>3, <1>4

LEMMA TypedPublish ==
  ASSUME Typed, NEW p \in Publishers, Publish(p)
  PROVE  Typed'
  BY TypedEnqueue, TypedClaims, TypedBegin, TypedCalls, TypedEnds DEF Publish

-----------------------------------------------------------------------------
(* Requests, the clock, reviews and reconciliation *)

LEMMA TypedRequest ==
  ASSUME Typed, NEW p \in Publishers, NEW d \in Docs, NEW a \in Actions,
         ValidateRequest(p, d, a)
  PROVE  Typed'
  <1> DEFINE m == [publisher[p] EXCEPT !.step = "validated", !.doc = d, !.action = a]
  <1>1. TypeOK /\ publisher[p] \in Publication
    BY DEF Typed, TypeOK
  <1>2. m \in Publication /\ m.doc = d /\ m.action = a /\ m.step = "validated"
    BY <1>1, PublicationAssumptions
    DEF Publication, PublisherStep, PublicationAssumptions
  <1>3. publisher' = [publisher EXCEPT ![p] = m]
    BY DEF ValidateRequest
  <1> HIDE DEF m
  <1>4. TypeOK'
    BY <1>1, <1>2, <1>3 DEF ValidateRequest, TypeOK
  <1>5. KeepsEvents
    BY <1>1, SameOutboxKeeps DEF ValidateRequest
  <1>6. Engaged'
    BY <1>2, <1>3, <1>5, EngagedKept DEF ValidateRequest
  <1> QED
    BY <1>4, <1>6 DEF Typed

LEMMA TypedClock ==
  ASSUME Typed, NEW i \in DOMAIN outbox, LockExpires(i)
  PROVE  Typed'
  <1> DEFINE e == [outbox[i] EXCEPT !.lock = "stale"]
  <1>1. TypeOK /\ outbox[i] \in Event
    BY DEF Typed, TypeOK
  <1>2. e \in Event /\ e.doc = outbox[i].doc
    BY <1>1 DEF Event
  <1>3. outbox' = [outbox EXCEPT ![i] = e]
    BY DEF LockExpires
  <1> HIDE DEF e
  <1>4. KeepsEvents
    BY <1>1, <1>2, <1>3 DEF KeepsEvents, TypeOK
  <1>5. TypeOK'
    BY <1>1, <1>4 DEF LockExpires, TypeOK, KeepsEvents
  <1>6. Engaged'
    BY <1>4 DEF LockExpires, Typed, KeepsEvents, Engaged, EngagedPublisher
  <1> QED
    BY <1>5, <1>6 DEF Typed

\* Reviews change neither the outbox nor the publishers.
LEMMA TypedReview ==
  ASSUME Typed, NEW r \in Reviewers,
         UNCHANGED <<outbox, publisher, snapshot>>,
         sql' \in [Docs -> Row], qdrant' \in [Docs -> Point],
         reviews' \in 0..MaxReviews, faults' \in 0..MaxFaults,
         NEW v \in Review, reviewer' = [reviewer EXCEPT ![r] = v],
         v.step # "idle" => v.doc \in Docs
  PROVE  Typed'
  <1>1. TypeOK'
    BY DEF Typed, TypeOK
  <1>2. Engaged'
    BY DEF Typed, TypeOK, Engaged, EngagedPublisher
  <1> QED
    BY <1>1, <1>2 DEF Typed

LEMMA TypedBeginReview ==
  ASSUME Typed, NEW r \in Reviewers, NEW d \in Docs,
         ArchiveQdrant(r, d) \/ RejectQdrant(r, d) \/ ExpireSql(r, d)
  PROVE  Typed'
  <1>1. TypeOK /\ sql[d] \in Row /\ qdrant[d] \in Point /\ reviewer[r] \in Review
    BY DEF Typed, TypeOK
  <1>2. reviews' \in 0..MaxReviews /\ reviewer[r].step = "idle"
    BY <1>1, PublicationAssumptions
    DEF ArchiveQdrant, RejectQdrant, ExpireSql, BeginReview, TypeOK, PublicationAssumptions
  <1>3. \A s \in ReviewStep : [step |-> s, doc |-> d] \in Review
    BY DEF Review
  <1>4. CASE ArchiveQdrant(r, d)
    <2> DEFINE hidden == [qdrant[d] EXCEPT !.servable = FALSE, !.current = FALSE,
                                           !.life = "archived"]
    <2>1. hidden \in Point
      BY <1>1 DEF Point, LifecycleStatus
    <2>2. QdrantOk(d, hidden) \/ QdrantFails(d, hidden)
      BY <1>4 DEF ArchiveQdrant
    <2>3. qdrant' \in [Docs -> Point] /\ faults' \in 0..MaxFaults
      BY <1>1, <2>1, <2>2, QdrantType
    <2>4. NextReviewStep(r, d, "archive") \/ UNCHANGED reviewer
      BY <1>4 DEF ArchiveQdrant
    <2>5. PICK v \in Review : /\ reviewer' = [reviewer EXCEPT ![r] = v]
                              /\ v.step # "idle" => v.doc \in Docs
      BY <1>1, <1>2, <1>3, <2>4 DEF NextReviewStep, ReviewStep, TypeOK
    <2> QED
      BY <1>1, <1>2, <1>4, <2>3, <2>5, TypedReview DEF ArchiveQdrant, TypeOK
  <1>5. CASE RejectQdrant(r, d)
    <2> DEFINE hidden == [qdrant[d] EXCEPT !.servable = FALSE, !.life = "rejected",
                                           !.approved = FALSE]
    <2>1. hidden \in Point
      BY <1>1 DEF Point, LifecycleStatus
    <2>2. QdrantOk(d, hidden) \/ QdrantFails(d, hidden)
      BY <1>5 DEF RejectQdrant
    <2>3. qdrant' \in [Docs -> Point] /\ faults' \in 0..MaxFaults
      BY <1>1, <2>1, <2>2, QdrantType
    <2>4. NextReviewStep(r, d, "reject") \/ UNCHANGED reviewer
      BY <1>5 DEF RejectQdrant
    <2>5. PICK v \in Review : /\ reviewer' = [reviewer EXCEPT ![r] = v]
                              /\ v.step # "idle" => v.doc \in Docs
      BY <1>1, <1>2, <1>3, <2>4 DEF NextReviewStep, ReviewStep, TypeOK
    <2> QED
      BY <1>1, <1>2, <1>5, <2>3, <2>5, TypedReview DEF RejectQdrant, TypeOK
  <1>6. CASE ExpireSql(r, d)
    <2>1. [sql[d] EXCEPT !.effective = "expired"] \in Row
      BY <1>1 DEF Row, EffectiveStatus
    <2>2. sql' \in [Docs -> Row]
      BY <1>1, <1>6, <2>1, UpdateRowType DEF ExpireSql
    <2>3. PICK v \in Review : /\ reviewer' = [reviewer EXCEPT ![r] = v]
                              /\ v.step # "idle" => v.doc \in Docs
      BY <1>3, <1>6 DEF ExpireSql, NextReviewStep, ReviewStep
    <2> QED
      BY <1>1, <1>2, <1>6, <2>2, <2>3, TypedReview DEF ExpireSql, TypeOK
  <1> QED
    BY <1>4, <1>5, <1>6

LEMMA TypedEndReview ==
  ASSUME Typed, NEW r \in Reviewers, FinishReview(r) \/ ReviewCrash(r)
  PROVE  Typed'
  <1> DEFINE d == reviewer[r].doc
  <1>1. TypeOK /\ NoReview \in Review /\ NoReview.step = "idle"
    BY DEF Typed, NoReview, Review, ReviewStep
  <1>2. d \in Docs /\ sql[d] \in Row /\ qdrant[d] \in Point
    BY <1>1
    DEF FinishReview, ArchiveSql, RejectSql, ExpireQdrant, ReviewCrash, Typed, TypeOK, Engaged
  <1>3. reviewer' = [reviewer EXCEPT ![r] = NoReview]
    BY DEF FinishReview, ArchiveSql, RejectSql, ExpireQdrant, ReviewCrash, EndReview
  <1>4. CASE ArchiveSql(r)
    <2>1. [sql[d] EXCEPT !.servable = FALSE, !.current = FALSE,
             !.life = "archived", !.state = "published"] \in Row
      BY <1>2 DEF Row, LifecycleStatus, PublicationState
    <2>2. sql' \in [Docs -> Row]
      BY <1>1, <1>2, <1>4, <2>1, UpdateRowType DEF ArchiveSql
    <2> QED
      BY <1>1, <1>3, <1>4, <2>2, TypedReview DEF ArchiveSql, TypeOK
  <1>5. CASE RejectSql(r)
    <2>1. [sql[d] EXCEPT !.servable = FALSE, !.approved = FALSE,
             !.life = "rejected", !.state = "failed"] \in Row
      BY <1>2 DEF Row, LifecycleStatus, PublicationState
    <2>2. sql' \in [Docs -> Row]
      BY <1>1, <1>2, <1>5, <2>1, UpdateRowType DEF RejectSql
    <2> QED
      BY <1>1, <1>3, <1>5, <2>2, TypedReview DEF RejectSql, TypeOK
  <1>6. CASE ExpireQdrant(r)
    <2>1. [qdrant[d] EXCEPT !.effective = "expired"] \in Point
      BY <1>2 DEF Point, EffectiveStatus
    <2>2. qdrant' \in [Docs -> Point] /\ faults' \in 0..MaxFaults
      BY <1>1, <1>2, <1>6, <2>1, QdrantType DEF ExpireQdrant
    <2> QED
      BY <1>1, <1>3, <1>6, <2>2, TypedReview DEF ExpireQdrant, TypeOK
  <1>7. CASE ReviewCrash(r)
    BY <1>1, <1>3, <1>7, FaultType, TypedReview DEF ReviewCrash, TypeOK
  <1> QED
    BY <1>4, <1>5, <1>6, <1>7 DEF FinishReview

LEMMA TypedReconcile ==
  ASSUME Typed, NEW r \in Reconcilers, Reconcile(r) \/ ReconcileCrash(r)
  PROVE  Typed'
  <1>1. TypeOK
    BY DEF Typed
  <1>2. UNCHANGED <<sql, outbox, publisher, reviewer, reviews>>
    BY DEF Reconcile, ReconcileRead, ReconcileWrite, ReconcileCrash
  <1>3. Engaged'
    BY <1>2 DEF Typed, Engaged, EngagedPublisher
  <1>4. CASE ReconcileRead(r)
    <2>1. {CopyOf(d, sql[d]) : d \in Docs} \in SUBSET Copy
      BY <1>1 DEF TypeOK, CopyOf, Copy, Row
    <2> QED
      BY <1>1, <1>3, <1>4, <2>1 DEF ReconcileRead, Typed, TypeOK
  <1>5. ASSUME NEW row \in snapshot[r], ReconcileWrite(r, row)
        PROVE  Typed'
    <2> DEFINE copied == [qdrant[row.doc] EXCEPT !.servable = row.servable,
                            !.life = row.life, !.approved = row.approved,
                            !.current = row.current, !.epoch = row.epoch]
    <2>1. row \in Copy /\ row.doc \in Docs /\ qdrant[row.doc] \in Point
      BY <1>1 DEF TypeOK, Copy
    <2>2. copied \in Point
      BY <2>1 DEF Point, Copy
    <2>3. QdrantOk(row.doc, copied) \/ QdrantFails(row.doc, copied)
      BY <1>5 DEF ReconcileWrite
    <2>4. qdrant' \in [Docs -> Point] /\ faults' \in 0..MaxFaults
      BY <1>1, <2>1, <2>2, <2>3, QdrantType
    <2>5. snapshot' \in [Reconcilers -> SUBSET Copy]
      BY <1>1, <1>5 DEF ReconcileWrite, TypeOK
    <2> QED
      BY <1>1, <1>2, <1>3, <2>4, <2>5 DEF Typed, TypeOK
  <1>6. CASE ReconcileCrash(r)
    BY <1>1, <1>3, <1>6, FaultType DEF ReconcileCrash, Typed, TypeOK
  <1> QED
    BY <1>4, <1>5, <1>6 DEF Reconcile

LEMMA TypedNext ==
  ASSUME Typed, [Next]_vars
  PROVE  Typed'
  <1>1. CASE Next
    BY <1>1, TypedRequest, TypedPublish, TypedEnds, TypedClock, TypedBeginReview,
       TypedEndReview, TypedReconcile
    DEF Next
  <1>2. CASE UNCHANGED vars
    BY <1>2 DEF vars, Typed, TypeOK, Engaged, EngagedPublisher
  <1> QED
    BY <1>1, <1>2

\* Every variable keeps its type, and code that is at work knows an existing
\* document and an event about it, whatever fails, crashes or races.
THEOREM TypeCorrect == Spec => [](TypeOK /\ Engaged)
  <1>1. Spec => []Typed
    BY TypeInit, TypedNext, PTL DEF Spec
  <1> QED
    BY <1>1, PTL DEF Typed

-----------------------------------------------------------------------------
(* ServingBasis.  With Typed it is inductive: a claim, a request and the     *)
(* reaping leave done events alone, the only step that takes one back is the *)
(* failure recorded by a holder that was overtaken, and that step withdraws  *)
(* the document of the event in the same transaction.                        *)

DoneKept ==
  \A i \in DOMAIN outbox : outbox[i].status = "done" =>
    i \in DOMAIN outbox' /\ outbox'[i].status = "done" /\ outbox'[i].doc = outbox[i].doc

\* No document enters service; those that stay keep what they stand on.
ServiceKept ==
  \A d \in Docs : sql'[d].servable =>
    /\ sql[d].servable
    /\ sql'[d].state = sql[d].state /\ sql'[d].life = sql[d].life
    /\ sql'[d].approved = sql[d].approved /\ sql'[d].current = sql[d].current
    /\ sql'[d].epoch = sql[d].epoch

LEMMA BasisKept ==
  ASSUME ServingBasis, DoneKept, ServiceKept
  PROVE  ServingBasis'
  BY DEF ServingBasis, DoneKept, ServiceKept

LEMMA RowsUnchanged ==
  ASSUME UNCHANGED sql
  PROVE  ServiceKept
  BY DEF ServiceKept

LEMMA OutboxUnchanged ==
  ASSUME UNCHANGED outbox
  PROVE  DoneKept
  BY DEF DoneKept

\* Writing a row out of service takes nothing else into it.
LEMMA RowHidden ==
  ASSUME TypeOK, NEW d \in Docs, NEW row, ~row.servable, UpdateRow(d, row)
  PROVE  ServiceKept
  BY DEF UpdateRow, TypeOK, ServiceKept

LEMMA Withdrawal ==
  ASSUME TypeOK, NEW d \in Docs, Withdraw(d)
  PROVE  ServiceKept
  <1>1. ~[sql[d] EXCEPT !.state = "publishing", !.servable = FALSE].servable
    BY DEF TypeOK, Row
  <1> QED
    BY <1>1, RowHidden DEF Withdraw

LEMMA BasisEnqueue ==
  ASSUME Typed, ServingBasis, NEW p \in Publishers, Enqueue(p)
  PROVE  ServingBasis'
  <1> DEFINE d == publisher[p].doc
             a == publisher[p].action
  <1>1. TypeOK /\ (publisher[p].step = "validated" => d \in Docs)
    BY DEF Typed, Engaged, EngagedPublisher
  <1>2. CASE EnqueueRefused(p)
    BY <1>2, RowsUnchanged, OutboxUnchanged, BasisKept DEF EnqueueRefused
  <1>3. CASE EnqueueJoin(p)
    BY <1>1, <1>3, Withdrawal, OutboxUnchanged, BasisKept DEF EnqueueJoin
  <1>4. CASE EnqueueReopen(p)
    <2>1. PICK i \in Existing(d, a) : Unlock(i, "pending")
      BY <1>4 DEF EnqueueReopen
    <2>2. i \in DOMAIN outbox /\ outbox[i].status # "done"
      BY <2>1 DEF Existing, OpenEvents
    <2>3. DoneKept
      BY <1>1, <2>1, <2>2, UnlockKeeps DEF EventStatus, KeepsEvents, DoneKept
    <2> QED
      BY <1>1, <1>4, <2>3, Withdrawal, BasisKept DEF EnqueueReopen
  <1>5. CASE EnqueueInsert(p)
    <2>1. \A e : outbox' = Append(outbox, e) => DoneKept
      BY <1>1 DEF TypeOK, DoneKept
    <2>2. DoneKept
      BY <1>5, <2>1 DEF EnqueueInsert
    <2> QED
      BY <1>1, <1>5, <2>2, Withdrawal, BasisKept DEF EnqueueInsert
  <1> QED
    BY <1>2, <1>3, <1>4, <1>5 DEF Enqueue

\* Reaping frees no completed event.
LEMMA ReapingDone ==
  ASSUME TypeOK, outbox' = Reaped
  PROVE  DoneKept
  BY ReapedKeeps DEF Reap, DoneKept

LEMMA BasisClaim ==
  ASSUME Typed, ServingBasis, NEW p \in Publishers, NEW i \in DOMAIN outbox,
         ClaimOutbox(p, i)
  PROVE  ServingBasis'
  <1>0. TypeOK /\ outbox[i] \in Event
    BY DEF Typed, TypeOK
  <1>1. TypeOK /\ outbox[i].doc \in Docs
    BY <1>0 DEF Event
  <1>2. outbox[i].status # "done"
    BY DEF ClaimOutbox, Claimable, Reap
  <1>3. outbox' = [Reaped EXCEPT ![i] = Claimed(Reap(i))]
    BY DEF ClaimOutbox
  <1>4. \A j \in DOMAIN outbox : j # i => outbox'[j] = Reap(j)
    BY <1>1, <1>3, ReapedKeeps
  <1>5. DoneKept
    BY <1>1, <1>2, <1>3, <1>4, ReapedKeeps DEF Reap, DoneKept
  <1> QED
    BY <1>1, <1>5, Withdrawal, BasisKept DEF ClaimOutbox

LEMMA BasisClaims ==
  ASSUME Typed, ServingBasis, NEW p \in Publishers,
         ClaimQueued(p) \/ ClaimLost(p) \/ PollClaim(p) \/ PollNothing(p)
  PROVE  ServingBasis'
  <1>1. TypeOK
    BY DEF Typed
  <1>2. CASE ClaimQueued(p)
    BY <1>2, Busy, BasisClaim DEF ClaimQueued
  <1>3. CASE ClaimLost(p) \/ PollNothing(p)
    BY <1>1, <1>3, ReapingDone, RowsUnchanged, BasisKept DEF ClaimLost, PollNothing
  <1>4. CASE PollClaim(p)
    BY <1>4, BasisClaim DEF PollClaim
  <1> QED
    BY <1>2, <1>3, <1>4

LEMMA BasisFinalize ==
  ASSUME Typed, ServingBasis, NEW p \in Publishers, FinalizeSql(p)
  PROVE  ServingBasis'
  <1> DEFINE d == publisher[p].doc
             i == publisher[p].event
  <1>1. /\ TypeOK /\ d \in Docs /\ i \in DOMAIN outbox /\ i # 0
        /\ outbox[i].doc = d
    BY Busy DEF FinalizeSql
  <1>2. /\ KeepsEvents
        /\ outbox'[i].status = "done"
        /\ \A j \in DOMAIN outbox \ {i} : outbox'[j] = outbox[j]
    BY <1>1, UnlockKeeps DEF FinalizeSql, EventStatus
  <1>3. DoneKept /\ i \in DOMAIN outbox' /\ outbox'[i].doc = d
    BY <1>1, <1>2 DEF KeepsEvents, DoneKept
  <1>4. /\ sql'[d].state = "published" /\ sql'[d].life = "published"
        /\ sql'[d].approved /\ sql'[d].current /\ sql'[d].epoch = i
    BY <1>1 DEF FinalizeSql
  <1>5. \A e \in Docs \ {d} : sql'[e].servable => sql'[e] = sql[e]
    BY <1>1 DEF FinalizeSql, TypeOK, Row
  <1>6. \A e \in Docs \ {d} : sql'[e].servable =>
          /\ sql'[e].state = "published" /\ sql'[e].life = "published"
          /\ sql'[e].approved /\ sql'[e].current
          /\ sql'[e].epoch = 0 => e \in LiveAtStart
          /\ sql'[e].epoch # 0 => /\ sql'[e].epoch \in DOMAIN outbox'
                                 /\ outbox'[sql'[e].epoch].doc = e
                                 /\ outbox'[sql'[e].epoch].status = "done"
    BY <1>3, <1>5 DEF ServingBasis, DoneKept
  <1> QED
    BY <1>1, <1>2, <1>3, <1>4, <1>6 DEF ServingBasis

LEMMA BasisMarkFailed ==
  ASSUME Typed, ServingBasis, NEW p \in Publishers, MarkFailed(p)
  PROVE  ServingBasis'
  <1> DEFINE d == publisher[p].doc
             i == publisher[p].event
             row == [sql[d] EXCEPT !.state = "failed", !.servable = FALSE]
  <1>1. /\ TypeOK /\ d \in Docs /\ i \in DOMAIN outbox /\ outbox[i].doc = d
        /\ sql[d] \in Row
    BY Busy DEF MarkFailed
  <1>2. /\ KeepsEvents
        /\ \A j \in DOMAIN outbox \ {i} : outbox'[j] = outbox[j]
    BY <1>1, UnlockKeeps DEF MarkFailed, EventStatus
  <1>3. ~row.servable /\ UpdateRow(d, row)
    BY <1>1 DEF MarkFailed, Row
  <1> HIDE DEF row
  <1>4. ~sql'[d].servable /\ \A e \in Docs \ {d} : sql'[e] = sql[e]
    BY <1>1, <1>3 DEF UpdateRow, TypeOK
  \* A document served on the strength of event i would be d itself.
  <1>5. \A e \in Docs \ {d} : sql[e].servable => sql[e].epoch # i
    BY <1>1 DEF ServingBasis, TypeOK
  <1> QED
    BY <1>1, <1>2, <1>4, <1>5 DEF ServingBasis, KeepsEvents

LEMMA BasisSteps ==
  ASSUME Typed, ServingBasis, NEW p \in Publishers,
         \/ BeginPublish(p) \/ BeginFails(p) \/ StageQdrant(p) \/ SyncSql(p)
         \/ BatchQdrant(p) \/ FinalizeFails(p) \/ RollbackQdrant(p)
         \/ DisableQdrant(p) \/ Crash(p)
  PROVE  ServingBasis'
  <1>1. CASE SyncSql(p)
    <2> DEFINE row == [sql[publisher[p].doc] EXCEPT
                         !.servable = FALSE, !.state = "qdrant_synced"]
    <2>1. TypeOK /\ publisher[p].doc \in Docs /\ sql[publisher[p].doc] \in Row
      BY <1>1, Busy DEF SyncSql
    <2>2. ~row.servable
      BY <2>1 DEF Row
    <2>3. UpdateRow(publisher[p].doc, row) \/ UNCHANGED sql
      BY <1>1 DEF SyncSql
    <2> HIDE DEF row
    <2>4. ServiceKept
      BY <2>1, <2>2, <2>3, RowHidden, RowsUnchanged
    <2> QED
      BY <1>1, <2>4, OutboxUnchanged, BasisKept DEF SyncSql
  <1>2. CASE ~SyncSql(p)
    <2>1. UNCHANGED <<sql, outbox>>
      BY <1>2 DEF BeginPublish, BeginFails, StageQdrant, BatchQdrant, FinalizeFails,
                  RollbackQdrant, DisableQdrant, Crash
    <2> QED
      BY <2>1, RowsUnchanged, OutboxUnchanged, BasisKept
  <1> QED
    BY <1>1, <1>2

LEMMA BasisReviews ==
  ASSUME Typed, ServingBasis, NEW r \in Reviewers,
         \/ \E d \in Docs : ArchiveQdrant(r, d) \/ RejectQdrant(r, d) \/ ExpireSql(r, d)
         \/ FinishReview(r) \/ ReviewCrash(r)
  PROVE  ServingBasis'
  <1>1. TypeOK /\ (reviewer[r].step # "idle" =>
                     reviewer[r].doc \in Docs /\ sql[reviewer[r].doc] \in Row)
    BY SMTT(40) DEF Typed, TypeOK, Engaged
  <1>2. DoneKept
    BY OutboxUnchanged
    DEF ArchiveQdrant, RejectQdrant, ExpireSql, FinishReview, ArchiveSql, RejectSql,
        ExpireQdrant, ReviewCrash
  <1>3. ASSUME NEW d \in Docs, ExpireSql(r, d)
        PROVE  ServiceKept
    BY <1>1, <1>3 DEF ExpireSql, UpdateRow, ServiceKept, TypeOK, Row
  <1>4. CASE ArchiveSql(r)
    <2> DEFINE row == [sql[reviewer[r].doc] EXCEPT !.servable = FALSE,
                         !.current = FALSE, !.life = "archived", !.state = "published"]
    <2>1. reviewer[r].doc \in Docs /\ ~row.servable /\ UpdateRow(reviewer[r].doc, row)
      BY <1>1, <1>4 DEF ArchiveSql, Row
    <2> HIDE DEF row
    <2> QED
      BY <1>1, <1>2, <2>1, RowHidden, BasisKept
  <1>5. CASE RejectSql(r)
    <2> DEFINE row == [sql[reviewer[r].doc] EXCEPT !.servable = FALSE,
                         !.approved = FALSE, !.life = "rejected", !.state = "failed"]
    <2>1. reviewer[r].doc \in Docs /\ ~row.servable /\ UpdateRow(reviewer[r].doc, row)
      BY <1>1, <1>5 DEF RejectSql, Row
    <2> HIDE DEF row
    <2> QED
      BY <1>1, <1>2, <2>1, RowHidden, BasisKept
  <1>6. CASE \/ \E d \in Docs : ArchiveQdrant(r, d) \/ RejectQdrant(r, d)
             \/ ExpireQdrant(r) \/ ReviewCrash(r)
    BY <1>2, <1>6, RowsUnchanged, BasisKept, Zenon
    DEF ArchiveQdrant, RejectQdrant, ExpireQdrant, ReviewCrash
  <1> QED
    BY <1>2, <1>3, <1>4, <1>5, <1>6, BasisKept DEF FinishReview

LEMMA BasisClock ==
  ASSUME Typed, ServingBasis, NEW i \in DOMAIN outbox, LockExpires(i)
  PROVE  ServingBasis'
  <1>1. DoneKept
    BY DEF LockExpires, DoneKept, Typed, TypeOK
  <1> QED
    BY <1>1, RowsUnchanged, BasisKept DEF LockExpires

LEMMA BasisNext ==
  ASSUME Typed, ServingBasis, [Next]_vars
  PROVE  ServingBasis'
  <1>1. ASSUME NEW p \in Publishers, Publish(p) PROVE ServingBasis'
    BY <1>1, BasisEnqueue, BasisClaims, BasisFinalize, BasisMarkFailed, BasisSteps
    DEF Publish
  <1>2. ASSUME NEW p \in Publishers, NEW d \in Docs, NEW a \in Actions,
               ValidateRequest(p, d, a)
        PROVE  ServingBasis'
    BY <1>2, RowsUnchanged, OutboxUnchanged, BasisKept DEF ValidateRequest
  <1>3. ASSUME NEW r \in Reconcilers, Reconcile(r) \/ ReconcileCrash(r)
        PROVE  ServingBasis'
    BY <1>3, RowsUnchanged, OutboxUnchanged, BasisKept
    DEF Reconcile, ReconcileRead, ReconcileWrite, ReconcileCrash
  <1>4. CASE UNCHANGED vars
    BY <1>4, RowsUnchanged, OutboxUnchanged, BasisKept DEF vars
  <1> QED
    BY <1>1, <1>2, <1>3, <1>4, BasisSteps, BasisReviews, BasisClock DEF Next

\* A document is servable in SQL only on the strength of a completed
\* publication of its own, however slow the holders of events are: the missing
\* fence on the outbox lock cannot put a withdrawn document back into service.
THEOREM ServedOnCompletion == Spec => []ServingBasis
  <1>1. Init => ServingBasis
    BY DEF Init, InitialRow, ServingBasis
  <1>2. Typed /\ ServingBasis /\ [Next]_vars => (Typed /\ ServingBasis)'
    BY TypedNext, BasisNext
  <1> QED
    BY <1>1, <1>2, TypeInit, PTL DEF Spec

-----------------------------------------------------------------------------
(* OneHolder.  It is inductive: only a claim makes a holder, of an event that *)
(* is neither processing nor about to be freed, and the clock lets a lock go  *)
(* stale only after its holder has gone.                                      *)

\* The holders after a step were holders before it, and the events they hold
\* are as they were.
LEMMA HoldersKept ==
  ASSUME OneHolder,
         ~SlowHolders => \A q \in Publishers, i \in 1..MaxEvents : Holds(q, i)' =>
           Holds(q, i) /\ i \in DOMAIN outbox' /\ outbox'[i] = outbox[i]
  PROVE  OneHolder'
  BY DEF OneHolder, Holds

LEMMA HoldersUnchanged ==
  ASSUME OneHolder, UNCHANGED <<outbox, publisher>>
  PROVE  OneHolder'
  BY DEF OneHolder, Holds

LEMMA HoldersMoved ==
  ASSUME Typed, OneHolder, NEW p \in Publishers, NEW s,
         publisher[p].step \notin {"idle", "validated", "queued"} \/
           s \in {"idle", "validated", "queued"},
         Leave(p) \/ Goto(p, s), UNCHANGED outbox
  PROVE  OneHolder'
  <1>1. \A q \in Publishers, i \in 1..MaxEvents : Holds(q, i)' => Holds(q, i)
    <2>1. publisher \in [Publishers -> Publication]
      BY DEF Typed, TypeOK
    <2>2. CASE Leave(p)
      BY <2>1, <2>2 DEF Leave, NoPublication, Holds
    <2>3. CASE Goto(p, s)
      <3>1. publisher'[p].event = publisher[p].event /\ publisher'[p].step = s
        BY <2>1, <2>3 DEF Goto, Publication
      <3>2. \A q \in Publishers \ {p} : publisher'[q] = publisher[q]
        BY <2>1, <2>3 DEF Goto
      <3> QED
        BY <3>1, <3>2 DEF Holds
    <2> QED
      BY <2>2, <2>3
  <1> QED
    BY <1>1, HoldersKept DEF OneHolder

LEMMA OneHolderEnqueue ==
  ASSUME Typed, OneHolder, NEW p \in Publishers, Enqueue(p)
  PROVE  OneHolder'
  <1>1. TypeOK
    BY DEF Typed
  <1>2. CASE EnqueueRefused(p) \/ EnqueueJoin(p)
    BY <1>2, HoldersMoved DEF EnqueueRefused, EnqueueJoin
  <1>3. ASSUME NEW i, Await(p, i)
        PROVE  \A q \in Publishers, j \in 1..MaxEvents : Holds(q, j)' => Holds(q, j)
    BY <1>1, <1>3 DEF TypeOK, Publication, Await, Holds
  <1>4. CASE EnqueueReopen(p)
    <2>1. PICK i \in Existing(publisher[p].doc, publisher[p].action) :
            outbox[i].status # "processing" /\ Unlock(i, "pending") /\ Await(p, i)
      BY <1>4 DEF EnqueueReopen
    <2>2. i \in DOMAIN outbox
      BY <2>1 DEF Existing, OpenEvents
    <2>3. KeepsEvents /\ \A j \in DOMAIN outbox \ {i} : outbox'[j] = outbox[j]
      BY <1>1, <2>1, <2>2, UnlockKeeps DEF EventStatus
    <2>4. ~SlowHolders => \A q \in Publishers, j \in 1..MaxEvents :
            Holds(q, j) => j \in DOMAIN outbox /\ j # i
      BY <2>1 DEF OneHolder
    <2> QED
      BY <1>3, <2>1, <2>3, <2>4, HoldersKept DEF KeepsEvents
  <1>5. CASE EnqueueInsert(p)
    <2>1. \A e : outbox' = Append(outbox, e) =>
            \A j \in DOMAIN outbox : j \in DOMAIN outbox' /\ outbox'[j] = outbox[j]
      BY <1>1 DEF TypeOK
    <2>2. \A j \in DOMAIN outbox : j \in DOMAIN outbox' /\ outbox'[j] = outbox[j]
      BY <1>5, <2>1 DEF EnqueueInsert
    <2>3. Await(p, Len(outbox) + 1)
      BY <1>5 DEF EnqueueInsert
    <2> QED
      BY <1>3, <2>2, <2>3, HoldersKept DEF OneHolder
  <1> QED
    BY <1>2, <1>4, <1>5 DEF Enqueue

\* Nothing that is held is reaped, nor can it be claimed.
LEMMA HeldIsSafe ==
  ASSUME Typed, OneHolder, ~SlowHolders, NEW q \in Publishers, NEW i \in 1..MaxEvents,
         Holds(q, i)
  PROVE  i \in DOMAIN outbox /\ Reap(i) = outbox[i] /\ ~Claimable(i)
  BY DEF OneHolder, Reap, Claimable

LEMMA OneHolderClaim ==
  ASSUME Typed, OneHolder, NEW p \in Publishers, NEW i \in DOMAIN outbox,
         ClaimOutbox(p, i),
         publisher[p].step \in {"idle", "queued"}
  PROVE  OneHolder'
  <1> SUFFICES ASSUME ~SlowHolders PROVE OneHolder'
    BY DEF OneHolder
  <1>1. TypeOK /\ publisher[p] \in Publication
    BY DEF Typed, TypeOK
  <1>2. outbox' = [Reaped EXCEPT ![i] = Claimed(Reap(i))]
    BY DEF ClaimOutbox
  <1>3. /\ i \in DOMAIN outbox' /\ outbox'[i] = Claimed(Reap(i))
        /\ \A j \in DOMAIN outbox \ {i} : j \in DOMAIN outbox' /\ outbox'[j] = Reap(j)
    BY <1>1, <1>2, ReapedKeeps
  <1>4. Reap(i) \in Event
    BY <1>1, ReapedKeeps
  <1>5. outbox'[i].status = "processing" /\ outbox'[i].lock = "held"
    BY <1>3, <1>4 DEF Claimed, Event
  <1>6. publisher'[p].event = i /\ \A q \in Publishers \ {p} : publisher'[q] = publisher[q]
    BY <1>1 DEF ClaimOutbox, TypeOK, Publication
  <1>7. \A q \in Publishers \ {p}, j \in 1..MaxEvents : Holds(q, j)' =>
          /\ Holds(q, j) /\ j # i
          /\ j \in DOMAIN outbox' /\ outbox'[j] = outbox[j]
    BY <1>3, <1>6, HeldIsSafe DEF Holds, ClaimOutbox
  <1> QED
    BY <1>3, <1>5, <1>6, <1>7 DEF OneHolder, Holds

LEMMA OneHolderClaims ==
  ASSUME Typed, OneHolder, NEW p \in Publishers,
         ClaimQueued(p) \/ ClaimLost(p) \/ PollClaim(p) \/ PollNothing(p)
  PROVE  OneHolder'
  <1>1. TypeOK
    BY DEF Typed
  <1>2. CASE ClaimQueued(p)
    <2>1. publisher[p].event \in DOMAIN outbox
      BY <1>2, Busy DEF ClaimQueued
    <2> QED
      BY <1>2, <2>1, OneHolderClaim DEF ClaimQueued
  <1>3. CASE PollClaim(p)
    BY <1>3, OneHolderClaim DEF PollClaim
  <1>4. CASE ClaimLost(p) \/ PollNothing(p)
    <2>1. \A q \in Publishers, i \in 1..MaxEvents : Holds(q, i)' => Holds(q, i)
      BY <1>1, <1>4 DEF ClaimLost, PollNothing, Leave, NoPublication, Holds, TypeOK
    <2>2. outbox' = Reaped
      BY <1>4 DEF ClaimLost, PollNothing
    <2>3. \A i \in DOMAIN outbox : i \in DOMAIN outbox' /\ outbox'[i] = Reap(i)
      BY <1>1, <2>2, ReapedKeeps
    <2> QED
      BY <2>1, <2>3, HeldIsSafe, HoldersKept
  <1> QED
    BY <1>2, <1>3, <1>4

LEMMA OneHolderEnds ==
  ASSUME Typed, OneHolder, NEW p \in Publishers, FinalizeSql(p) \/ MarkFailed(p)
  PROVE  OneHolder'
  <1> DEFINE i == publisher[p].event
  <1>0. TypeOK /\ i \in DOMAIN outbox /\ i \in 0..MaxEvents /\ i # 0
    BY Busy DEF FinalizeSql, MarkFailed
  <1>1. i \in 1..MaxEvents
    BY <1>0, PublicationAssumptions DEF PublicationAssumptions
  <1>2. KeepsEvents /\ \A j \in DOMAIN outbox \ {i} : outbox'[j] = outbox[j]
    BY <1>0, UnlockKeeps DEF FinalizeSql, MarkFailed, EventStatus
  <1>3. Holds(p, i) /\ Leave(p)
    BY DEF FinalizeSql, MarkFailed, Holds
  <1>4. \A q \in Publishers, j \in 1..MaxEvents : Holds(q, j)' => Holds(q, j) /\ q # p
    BY <1>0, <1>3 DEF Leave, NoPublication, Holds, TypeOK
  <1>5. ~SlowHolders => \A q \in Publishers, j \in 1..MaxEvents : Holds(q, j)' =>
          j \in DOMAIN outbox /\ j # i
    BY <1>1, <1>3, <1>4 DEF OneHolder
  <1> QED
    BY <1>2, <1>4, <1>5, HoldersKept DEF KeepsEvents

LEMMA OneHolderSteps ==
  ASSUME Typed, OneHolder, NEW p \in Publishers,
         \/ BeginPublish(p) \/ BeginFails(p) \/ StageQdrant(p) \/ SyncSql(p)
         \/ BatchQdrant(p) \/ FinalizeFails(p) \/ RollbackQdrant(p)
         \/ DisableQdrant(p) \/ Crash(p)
  PROVE  OneHolder'
  <1>1. CASE BeginPublish(p)
    <2>1. \A q \in Publishers, i \in 1..MaxEvents : Holds(q, i)' => Holds(q, i)
      BY <1>1 DEF BeginPublish, Typed, TypeOK, Publication, Holds
    <2> QED
      BY <1>1, <2>1, HoldersKept DEF BeginPublish, OneHolder
  <1>2. CASE BeginFails(p)
    BY <1>2, HoldersMoved DEF BeginFails
  <1>3. CASE StageQdrant(p)
    BY <1>3, HoldersMoved DEF StageQdrant
  <1>4. CASE SyncSql(p)
    BY <1>4, HoldersMoved DEF SyncSql
  <1>5. CASE BatchQdrant(p)
    BY <1>5, HoldersMoved DEF BatchQdrant
  <1>6. CASE FinalizeFails(p)
    BY <1>6, HoldersMoved DEF FinalizeFails
  <1>7. CASE RollbackQdrant(p)
    BY <1>7, HoldersMoved DEF RollbackQdrant
  <1>8. CASE DisableQdrant(p)
    BY <1>8, HoldersMoved DEF DisableQdrant
  <1>9. CASE Crash(p)
    BY <1>9, HoldersMoved DEF Crash
  <1> QED
    BY <1>1, <1>2, <1>3, <1>4, <1>5, <1>6, <1>7, <1>8, <1>9

LEMMA OneHolderClock ==
  ASSUME Typed, OneHolder, NEW i \in DOMAIN outbox, LockExpires(i)
  PROVE  OneHolder'
  <1>1. /\ \A j \in DOMAIN outbox : j \in DOMAIN outbox'
        /\ \A j \in DOMAIN outbox \ {i} : outbox'[j] = outbox[j]
    BY DEF LockExpires, Typed, TypeOK
  <1>2. ~SlowHolders => \A q \in Publishers, j \in 1..MaxEvents :
          Holds(q, j)' => Holds(q, j) /\ j \in DOMAIN outbox /\ j # i
    BY DEF LockExpires, OneHolder, Holds
  <1> QED
    BY <1>1, <1>2, HoldersKept

LEMMA OneHolderNext ==
  ASSUME Typed, OneHolder, [Next]_vars
  PROVE  OneHolder'
  <1>1. ASSUME NEW p \in Publishers, Publish(p) PROVE OneHolder'
    BY <1>1, OneHolderEnqueue, OneHolderClaims, OneHolderEnds, OneHolderSteps
    DEF Publish
  <1>2. ASSUME NEW p \in Publishers, NEW d \in Docs, NEW a \in Actions,
               ValidateRequest(p, d, a)
        PROVE  OneHolder'
    <2>1. \A q \in Publishers, i \in 1..MaxEvents : Holds(q, i)' => Holds(q, i)
      BY <1>2, SMTT(40) DEF ValidateRequest, Typed, TypeOK, Publication, Holds
    <2> QED
      BY <1>2, <2>1, HoldersKept DEF ValidateRequest, OneHolder
  <1>3. ASSUME NEW r \in Reviewers,
               \/ \E d \in Docs : \/ ArchiveQdrant(r, d) \/ RejectQdrant(r, d)
                                 \/ ExpireSql(r, d)
               \/ FinishReview(r) \/ ReviewCrash(r)
        PROVE  OneHolder'
    BY <1>3, HoldersUnchanged
    DEF ArchiveQdrant, RejectQdrant, ExpireSql, FinishReview, ArchiveSql, RejectSql,
        ExpireQdrant, ReviewCrash
  <1>4. ASSUME NEW r \in Reconcilers, Reconcile(r) \/ ReconcileCrash(r)
        PROVE  OneHolder'
    BY <1>4, HoldersUnchanged
    DEF Reconcile, ReconcileRead, ReconcileWrite, ReconcileCrash
  <1>5. CASE UNCHANGED vars
    BY <1>5, HoldersUnchanged DEF vars
  <1> QED
    BY <1>1, <1>2, <1>3, <1>4, <1>5, OneHolderSteps, OneHolderClock DEF Next

\* Publications that end within the lock time never share an event: whatever
\* polls, requests and crashes do, a held event stays with its holder.
THEOREM EventsHaveOneHolder == Spec => []OneHolder
  <1>1. Init => OneHolder
    BY DEF Init, NoPublication, Holds, OneHolder
  <1>2. Typed /\ OneHolder /\ [Next]_vars => (Typed /\ OneHolder)'
    BY TypedNext, OneHolderNext
  <1> QED
    BY <1>1, <1>2, TypeInit, PTL DEF Spec

-----------------------------------------------------------------------------
(* VariantLockHolds.  Who holds the lock of a slot found no current document *)
(* there, and a document becomes current only by a publication that ends:    *)
(* one of new_variant would have had to hold the same lock.                  *)

\* Running code knows the action of its event.
ActionKnown(p) ==
  publisher[p].step \notin {"idle", "validated"} =>
    /\ publisher[p].event \in DOMAIN outbox
    /\ outbox[publisher[p].event].action = publisher[p].action

HoldsLock(p) == publisher[p].action = "new_variant" /\ publisher[p].step \in Locking

\* No slot is locked twice.
LocksApart ==
  \A p, q \in Publishers : HoldsLock(p) /\ HoldsLock(q) /\ p # q =>
    Slot[publisher[p].doc] # Slot[publisher[q].doc]

\* What has become current in a locked slot.
SlotKept(p) ==
  \A e \in Docs :
    HoldsLock(p) /\ e # publisher[p].doc /\ SameSlot(publisher[p].doc, e) /\ sql[e].current
    => /\ sql[e].epoch \in DOMAIN outbox
       /\ outbox[sql[e].epoch].action # "new_variant"

LockInv ==
  /\ \A p \in Publishers : ActionKnown(p)
  /\ LocksApart
  /\ \A p \in Publishers : SlotKept(p)

\* The events that exist go on to exist, with their actions.
KeepsActions ==
  \A i \in DOMAIN outbox : i \in DOMAIN outbox' /\ outbox'[i].action = outbox[i].action

\* No document becomes current.
NoneMadeCurrent ==
  \A e \in Docs : sql'[e].current => sql[e].current /\ sql'[e].epoch = sql[e].epoch

\* The publisher goes on under the lock that it has, if any.
KeepsLock(q) ==
  \/ publisher'[q] = publisher[q]
  \/ /\ ActionKnown(q)'
     /\ publisher'[q].step \in Locking =>
          /\ publisher[q].step \in Locking
          /\ publisher'[q].doc = publisher[q].doc
          /\ publisher'[q].action = publisher[q].action

LEMMA LockInvInit == Init => LockInv
  BY DEF Init, NoPublication, LockInv, ActionKnown, LocksApart, SlotKept, HoldsLock, Locking

LEMMA ActionStays ==
  ASSUME NEW q \in Publishers, ActionKnown(q), KeepsActions, publisher'[q] = publisher[q]
  PROVE  ActionKnown(q)'
  BY DEF ActionKnown, KeepsActions

LEMMA LocksKept ==
  ASSUME LockInv, KeepsActions, NoneMadeCurrent, \A q \in Publishers : KeepsLock(q)
  PROVE  LockInv'
  <1>1. \A q \in Publishers : ActionKnown(q)'
    BY ActionStays DEF LockInv, KeepsLock
  <1>2. \A q \in Publishers : HoldsLock(q)' =>
          HoldsLock(q) /\ publisher'[q].doc = publisher[q].doc
    BY DEF KeepsLock, HoldsLock, Locking
  <1>3. LocksApart'
    BY <1>2 DEF LockInv, LocksApart
  <1>4. ASSUME NEW p \in Publishers
        PROVE  SlotKept(p)'
    BY <1>2, <1>4 DEF LockInv, SlotKept, KeepsActions, NoneMadeCurrent, SameSlot
  <1> QED
    BY <1>1, <1>3, <1>4 DEF LockInv

LEMMA SameEventsKeep ==
  ASSUME UNCHANGED outbox
  PROVE  KeepsActions
  BY DEF KeepsActions

LEMMA SameRowsKeep ==
  ASSUME UNCHANGED sql
  PROVE  NoneMadeCurrent
  BY DEF NoneMadeCurrent

LEMMA RowKeeps ==
  ASSUME TypeOK, NEW d \in Docs, NEW row, UpdateRow(d, row),
         row.current => sql[d].current /\ row.epoch = sql[d].epoch
  PROVE  NoneMadeCurrent
  BY DEF UpdateRow, TypeOK, NoneMadeCurrent

LEMMA WithdrawalKeeps ==
  ASSUME TypeOK, NEW d \in Docs, Withdraw(d)
  PROVE  NoneMadeCurrent
  <1> DEFINE row == [sql[d] EXCEPT !.state = "publishing", !.servable = FALSE]
  <1>1. row.current = sql[d].current /\ row.epoch = sql[d].epoch
    BY DEF TypeOK, Row
  <1>2. UpdateRow(d, row)
    BY DEF Withdraw
  <1> HIDE DEF row
  <1> QED
    BY <1>1, <1>2, RowKeeps

LEMMA UnlockingKeeps ==
  ASSUME TypeOK, NEW i \in DOMAIN outbox, NEW s \in EventStatus, Unlock(i, s)
  PROVE  KeepsActions
  <1>1. KeepsEvents /\ \A j \in DOMAIN outbox \ {i} : outbox'[j] = outbox[j]
    BY UnlockKeeps
  <1>2. outbox[i] \in Event
    BY DEF TypeOK
  <1>3. outbox'[i].action = outbox[i].action
    BY <1>2 DEF Unlock, TypeOK, Event
  <1> QED
    BY <1>1, <1>3 DEF KeepsEvents, KeepsActions

LEMMA ReapedActions ==
  ASSUME TypeOK, outbox' = Reaped
  PROVE  KeepsActions
  BY ReapedKeeps DEF KeepsActions

\* Who leaves, or goes on with what it has, keeps its lock or gives it back.
LEMMA Moving ==
  ASSUME TypeOK, LockInv, KeepsActions, NEW p \in Publishers, NEW s,
         \/ Leave(p)
         \/ /\ Goto(p, s)
            /\ publisher[p].step \notin {"idle", "validated"}
            /\ s \in Locking => publisher[p].step \in Locking
  PROVE  \A q \in Publishers : KeepsLock(q)
  <1>1. publisher \in [Publishers -> Publication]
    BY DEF TypeOK
  <1>2. \A q \in Publishers \ {p} : publisher'[q] = publisher[q]
    BY <1>1 DEF Leave, Goto
  <1>3. KeepsLock(p)
    <2>1. CASE Leave(p)
      BY <1>1, <2>1 DEF Leave, NoPublication, KeepsLock, ActionKnown, Locking
    <2>2. ASSUME Goto(p, s), publisher[p].step \notin {"idle", "validated"},
                 s \in Locking => publisher[p].step \in Locking
          PROVE  KeepsLock(p)
      <3>1. /\ publisher'[p].step = s /\ publisher'[p].event = publisher[p].event
            /\ publisher'[p].doc = publisher[p].doc
            /\ publisher'[p].action = publisher[p].action
        BY <1>1, <2>2 DEF Goto, Publication
      <3>2. ActionKnown(p)'
        BY <2>2, <3>1 DEF LockInv, ActionKnown, KeepsActions
      <3> QED
        BY <2>2, <3>1, <3>2 DEF KeepsLock
    <2> QED
      BY <2>1, <2>2
  <1> QED
    BY <1>2, <1>3 DEF KeepsLock

LEMMA LockEnqueue ==
  ASSUME Typed, LockInv, NEW p \in Publishers, Enqueue(p)
  PROVE  LockInv'
  <1> DEFINE d == publisher[p].doc
             a == publisher[p].action
  <1>1. TypeOK /\ publisher \in [Publishers -> Publication]
        /\ (publisher[p].step = "validated" => d \in Docs)
    BY DEF Typed, TypeOK, Engaged, EngagedPublisher
  <1>2. ASSUME NEW i, Await(p, i), KeepsActions, i \in DOMAIN outbox', outbox'[i].action = a
        PROVE  \A q \in Publishers : KeepsLock(q)
    <2>1. \A q \in Publishers \ {p} : publisher'[q] = publisher[q]
      BY <1>1, <1>2 DEF Await
    <2>2. publisher'[p].step = "queued" /\ publisher'[p].event = i /\ publisher'[p].action = a
      BY <1>1, <1>2 DEF Await, Publication
    <2>3. ActionKnown(p)'
      BY <1>2, <2>2 DEF ActionKnown
    <2> QED
      BY <2>1, <2>2, <2>3 DEF KeepsLock, Locking
  <1>3. CASE EnqueueRefused(p)
    BY <1>1, <1>3, SameEventsKeep, SameRowsKeep, Moving, LocksKept DEF EnqueueRefused
  <1>4. CASE EnqueueJoin(p)
    BY <1>1, <1>4, SameEventsKeep, WithdrawalKeeps, Moving, LocksKept DEF EnqueueJoin
  <1>5. CASE EnqueueReopen(p)
    <2>1. PICK i \in Existing(d, a) : Unlock(i, "pending") /\ Await(p, i)
      BY <1>5 DEF EnqueueReopen
    <2>2. i \in DOMAIN outbox /\ outbox[i].action = a
      BY <2>1 DEF Existing, OpenEvents
    <2>3. KeepsActions
      BY <1>1, <2>1, <2>2, UnlockingKeeps DEF EventStatus
    <2>4. NoneMadeCurrent
      BY <1>1, <1>5, WithdrawalKeeps DEF EnqueueReopen
    <2>5. i \in DOMAIN outbox' /\ outbox'[i].action = a
      BY <2>2, <2>3 DEF KeepsActions
    <2> QED
      BY <1>2, <2>1, <2>3, <2>4, <2>5, LocksKept
  <1>6. CASE EnqueueInsert(p)
    <2> DEFINE event == [doc |-> d, action |-> a, status |-> "pending", attempts |-> 0,
                         lock |-> "none"]
               i == Len(outbox) + 1
    <2>1. outbox' = Append(outbox, event) /\ Await(p, i)
      BY <1>6 DEF EnqueueInsert
    <2>2. /\ \A j \in DOMAIN outbox : j \in DOMAIN outbox' /\ outbox'[j] = outbox[j]
          /\ i \in DOMAIN outbox' /\ outbox'[i] = event
      BY <1>1, <2>1 DEF TypeOK
    <2>3. KeepsActions
      BY <2>2 DEF KeepsActions
    <2>4. NoneMadeCurrent
      BY <1>1, <1>6, WithdrawalKeeps DEF EnqueueInsert
    <2>5. outbox'[i].action = a
      BY <2>2
    <2> QED
      BY <1>2, <2>1, <2>2, <2>3, <2>4, <2>5, LocksKept
  <1> QED
    BY <1>3, <1>4, <1>5, <1>6 DEF Enqueue

LEMMA LockClaim ==
  ASSUME Typed, LockInv, NEW p \in Publishers, NEW i \in DOMAIN outbox, ClaimOutbox(p, i)
  PROVE  LockInv'
  <1>0. TypeOK /\ outbox[i] \in Event /\ publisher \in [Publishers -> Publication]
    BY DEF Typed, TypeOK
  <1>1. TypeOK /\ outbox[i] \in Event /\ outbox[i].doc \in Docs
        /\ publisher \in [Publishers -> Publication]
    BY <1>0 DEF Event
  <1>2. /\ i \in DOMAIN outbox' /\ outbox'[i] = Claimed(Reap(i))
        /\ \A j \in DOMAIN outbox \ {i} : j \in DOMAIN outbox' /\ outbox'[j] = Reap(j)
    BY <1>1, ReapedKeeps DEF ClaimOutbox
  <1>3. outbox'[i].action = outbox[i].action
    BY <1>1, <1>2, ReapedKeeps DEF Claimed, Event
  <1>4. KeepsActions
    BY <1>1, <1>2, <1>3, ReapedKeeps DEF KeepsActions
  <1>5. NoneMadeCurrent
    BY <1>1, WithdrawalKeeps DEF ClaimOutbox
  <1>6. /\ publisher'[p].step = "claimed" /\ publisher'[p].event = i
        /\ publisher'[p].action = outbox[i].action
        /\ \A q \in Publishers \ {p} : publisher'[q] = publisher[q]
    BY <1>1 DEF ClaimOutbox, Publication
  <1>7. ActionKnown(p)'
    BY <1>2, <1>3, <1>6 DEF ActionKnown
  <1>8. \A q \in Publishers : KeepsLock(q)
    BY <1>6, <1>7 DEF KeepsLock, Locking
  <1> QED
    BY <1>4, <1>5, <1>8, LocksKept

LEMMA LockClaims ==
  ASSUME Typed, LockInv, NEW p \in Publishers,
         ClaimQueued(p) \/ ClaimLost(p) \/ PollClaim(p) \/ PollNothing(p)
  PROVE  LockInv'
  <1>1. TypeOK
    BY DEF Typed
  <1>2. CASE ClaimQueued(p)
    BY <1>2, Busy, LockClaim DEF ClaimQueued
  <1>3. CASE ClaimLost(p)
    BY <1>1, <1>3, ReapedActions, SameRowsKeep, Moving, LocksKept DEF ClaimLost
  <1>4. CASE PollClaim(p)
    BY <1>4, LockClaim DEF PollClaim
  <1>5. CASE PollNothing(p)
    BY <1>1, <1>5, ReapedActions, SameRowsKeep, LocksKept DEF PollNothing, KeepsLock
  <1> QED
    BY <1>2, <1>3, <1>4, <1>5

\* The lock is free and the slot has no current document.
LEMMA LockBegin ==
  ASSUME Typed, LockInv, NEW p \in Publishers, BeginPublish(p)
  PROVE  LockInv'
  <1> DEFINE d == publisher[p].doc
  <1>1. publisher \in [Publishers -> Publication] /\ UNCHANGED <<sql, outbox>>
    BY DEF BeginPublish, Typed, TypeOK
  <1>2. /\ publisher'[p].step = "stage" /\ publisher'[p].doc = publisher[p].doc
        /\ publisher'[p].event = publisher[p].event
        /\ publisher'[p].action = publisher[p].action
        /\ \A q \in Publishers \ {p} : publisher'[q] = publisher[q]
    BY <1>1 DEF BeginPublish, Publication
  <1>3. \A q \in Publishers : ActionKnown(q)'
    BY <1>1, <1>2 DEF LockInv, ActionKnown, BeginPublish
  <1>4. ASSUME publisher[p].action = "new_variant"
        PROVE  /\ \A q \in Publishers \ {p} : HoldsLock(q) => Slot[publisher[q].doc] # Slot[d]
               /\ \A e \in Docs \ {d} : ~(SameSlot(d, e) /\ sql[e].current)
    BY <1>4 DEF BeginPublish, MayLock, VariantLocked, VariantError, Occupied, HoldsLock, Locking
  <1>5. LocksApart'
    BY <1>2, <1>4 DEF LockInv, LocksApart, HoldsLock
  <1>6. ASSUME NEW q \in Publishers
        PROVE  SlotKept(q)'
    BY <1>1, <1>2, <1>4 DEF LockInv, SlotKept, HoldsLock, SameSlot
  <1> QED
    BY <1>3, <1>5, <1>6 DEF LockInv

\* A publication that ends makes its document current: not one of new_variant, if
\* somebody else holds the lock of the slot.
LEMMA LockFinalize ==
  ASSUME Typed, LockInv, NEW p \in Publishers, FinalizeSql(p)
  PROVE  LockInv'
  <1>1. PICK d \in Docs, i \in DOMAIN outbox :
          d = publisher[p].doc /\ i = publisher[p].event
    BY Busy DEF FinalizeSql
  <1>2. TypeOK /\ sql \in [Docs -> Row]
    BY DEF Typed, TypeOK
  <1>3. KeepsActions
    BY <1>1, <1>2, UnlockingKeeps DEF FinalizeSql, EventStatus
  <1>4. \A q \in Publishers : KeepsLock(q)
    BY <1>2, <1>3, Moving DEF FinalizeSql
  <1>5. sql'[d].epoch = i
    BY <1>1 DEF FinalizeSql
  <1>6. \A e \in Docs \ {d} : sql'[e].current => sql[e].current /\ sql'[e].epoch = sql[e].epoch
    BY <1>1, <1>2, ZenonT(60) DEF FinalizeSql, Row
  <1>7. outbox[i].action = publisher[p].action
    BY <1>1 DEF LockInv, ActionKnown, FinalizeSql
  <1>8. \A q \in Publishers : HoldsLock(q)' =>
          HoldsLock(q) /\ publisher'[q].doc = publisher[q].doc /\ q # p
    BY <1>2, <1>4 DEF KeepsLock, HoldsLock, Locking, FinalizeSql, Leave, NoPublication, TypeOK
  <1>9. \A q \in Publishers : ActionKnown(q)'
    BY <1>3, <1>4, ActionStays DEF LockInv, KeepsLock
  <1>10. LocksApart'
    BY <1>8 DEF LockInv, LocksApart
  <1>11. ASSUME NEW q \in Publishers, HoldsLock(q)', NEW e \in Docs, e # publisher'[q].doc,
                SameSlot(publisher'[q].doc, e), sql'[e].current
         PROVE  sql'[e].epoch \in DOMAIN outbox' /\ outbox'[sql'[e].epoch].action # "new_variant"
    <2>1. HoldsLock(q) /\ q # p /\ SameSlot(publisher[q].doc, e) /\ e # publisher[q].doc
      BY <1>8, <1>11
    <2>2. CASE e = d
      <3>1. ~HoldsLock(p)
        BY <1>1, <2>1, <2>2 DEF LockInv, LocksApart, SameSlot
      <3>2. publisher[p].action # "new_variant"
        BY <3>1 DEF HoldsLock, Locking, FinalizeSql
      <3> QED
        BY <1>1, <1>3, <1>5, <1>7, <2>2, <3>2 DEF KeepsActions
    <2>3. CASE e # d
      BY <1>3, <1>6, <1>11, <2>1, <2>3 DEF LockInv, SlotKept, KeepsActions
    <2> QED
      BY <2>2, <2>3
  <1>12. \A q \in Publishers : SlotKept(q)'
    BY <1>11 DEF SlotKept, SameSlot
  <1> QED
    BY <1>9, <1>10, <1>12 DEF LockInv

LEMMA LockSteps ==
  ASSUME Typed, LockInv, NEW p \in Publishers,
         \/ BeginFails(p) \/ StageQdrant(p) \/ SyncSql(p) \/ BatchQdrant(p)
         \/ FinalizeFails(p) \/ RollbackQdrant(p) \/ DisableQdrant(p)
         \/ MarkFailed(p) \/ Crash(p)
  PROVE  LockInv'
  <1>1. TypeOK
    BY DEF Typed
  <1>2. CASE MarkFailed(p)
    <2> DEFINE d == publisher[p].doc
               row == [sql[d] EXCEPT !.state = "failed", !.servable = FALSE]
    <2>1. d \in Docs /\ publisher[p].event \in DOMAIN outbox /\ sql[d] \in Row
      BY <1>2, Busy DEF MarkFailed
    <2>2. KeepsActions
      BY <1>1, <1>2, <2>1, UnlockingKeeps DEF MarkFailed, EventStatus
    <2>3. UpdateRow(d, row) /\ row.current = sql[d].current /\ row.epoch = sql[d].epoch
      BY <1>2, <2>1 DEF MarkFailed, Row
    <2> HIDE DEF row
    <2>4. NoneMadeCurrent
      BY <1>1, <2>1, <2>3, RowKeeps
    <2> QED
      BY <1>1, <1>2, <2>2, <2>4, Moving, LocksKept DEF MarkFailed
  <1>3. CASE SyncSql(p)
    <2> DEFINE d == publisher[p].doc
               row == [sql[d] EXCEPT !.servable = FALSE, !.state = "qdrant_synced"]
    <2>1. d \in Docs /\ sql[d] \in Row
      BY <1>3, Busy DEF SyncSql
    <2>2. row.current = sql[d].current /\ row.epoch = sql[d].epoch
          /\ (UpdateRow(d, row) \/ UNCHANGED sql)
      BY <1>3, <2>1 DEF SyncSql, Row
    <2> HIDE DEF row
    <2>3. NoneMadeCurrent
      BY <1>1, <2>1, <2>2, RowKeeps, SameRowsKeep
    <2>4. KeepsActions /\ \E s \in {"batch", "disable"} : Goto(p, s)
      BY <1>3, SameEventsKeep DEF SyncSql
    <2>5. \A q \in Publishers : KeepsLock(q)
      BY <1>1, <1>3, <2>4, Moving DEF SyncSql, Locking
    <2> QED
      BY <2>3, <2>4, <2>5, LocksKept
  <1>4. CASE Crash(p)
    BY <1>1, <1>4, SameEventsKeep, SameRowsKeep, Moving, LocksKept DEF Crash
  <1>5. CASE \/ BeginFails(p) \/ StageQdrant(p) \/ BatchQdrant(p) \/ FinalizeFails(p)
             \/ RollbackQdrant(p) \/ DisableQdrant(p)
    <2>1. UNCHANGED <<sql, outbox>>
      BY <1>5
      DEF BeginFails, StageQdrant, BatchQdrant, FinalizeFails, RollbackQdrant, DisableQdrant
    <2>2. PICK s : /\ Goto(p, s)
                   /\ publisher[p].step \notin {"idle", "validated"}
                   /\ s \in Locking => publisher[p].step \in Locking
      BY <1>5
      DEF BeginFails, StageQdrant, BatchQdrant, FinalizeFails, RollbackQdrant,
          DisableQdrant, Locking
    <2>3. KeepsActions
      BY <2>1, SameEventsKeep
    <2>4. \A q \in Publishers : KeepsLock(q)
      BY <1>1, <2>2, <2>3, Moving
    <2> QED
      BY <2>1, <2>3, <2>4, SameRowsKeep, LocksKept
  <1> QED
    BY <1>2, <1>3, <1>4, <1>5

LEMMA LockReviews ==
  ASSUME Typed, LockInv, NEW r \in Reviewers,
         \/ \E d \in Docs : ArchiveQdrant(r, d) \/ RejectQdrant(r, d) \/ ExpireSql(r, d)
         \/ FinishReview(r) \/ ReviewCrash(r)
  PROVE  LockInv'
  <1>1. UNCHANGED <<outbox, publisher>>
    BY DEF ArchiveQdrant, RejectQdrant, ExpireSql, FinishReview, ArchiveSql, RejectSql,
           ExpireQdrant, ReviewCrash
  <1>2. KeepsActions /\ \A q \in Publishers : KeepsLock(q)
    BY <1>1, SameEventsKeep DEF KeepsLock
  <1>3. TypeOK /\ (reviewer[r].step # "idle" =>
                     reviewer[r].doc \in Docs /\ sql[reviewer[r].doc] \in Row)
    BY DEF Typed, TypeOK, Engaged
  <1>4. ASSUME NEW d \in Docs, ExpireSql(r, d)
        PROVE  NoneMadeCurrent
    BY <1>3, <1>4 DEF ExpireSql, UpdateRow, NoneMadeCurrent, TypeOK, Row
  <1>5. ASSUME ArchiveSql(r)
        PROVE  NoneMadeCurrent
    BY <1>3, <1>5 DEF ArchiveSql, UpdateRow, NoneMadeCurrent, TypeOK, Row
  <1>6. ASSUME RejectSql(r)
        PROVE  NoneMadeCurrent
    BY <1>3, <1>6 DEF RejectSql, UpdateRow, NoneMadeCurrent, TypeOK, Row
  <1>7. ASSUME \/ \E d \in Docs : ArchiveQdrant(r, d) \/ RejectQdrant(r, d)
               \/ ExpireQdrant(r) \/ ReviewCrash(r)
        PROVE  NoneMadeCurrent
    BY <1>7, SameRowsKeep, Zenon DEF ArchiveQdrant, RejectQdrant, ExpireQdrant, ReviewCrash
  <1> QED
    BY <1>2, <1>4, <1>5, <1>6, <1>7, LocksKept DEF FinishReview

LEMMA LockNext ==
  ASSUME Typed, LockInv, [Next]_vars
  PROVE  LockInv'
  <1>1. ASSUME NEW p \in Publishers, Publish(p) PROVE LockInv'
    BY <1>1, LockEnqueue, LockClaims, LockBegin, LockFinalize, LockSteps DEF Publish
  <1>2. ASSUME NEW p \in Publishers, NEW d \in Docs, NEW a \in Actions,
               ValidateRequest(p, d, a)
        PROVE  LockInv'
    <2>1. publisher'[p].step = "validated" /\ \A q \in Publishers \ {p} : publisher'[q] = publisher[q]
      BY <1>2 DEF ValidateRequest, Typed, TypeOK, Publication
    <2>2. \A q \in Publishers : KeepsLock(q)
      BY <2>1 DEF KeepsLock, ActionKnown, Locking
    <2> QED
      BY <1>2, <2>2, SameEventsKeep, SameRowsKeep, LocksKept DEF ValidateRequest
  <1>3. ASSUME NEW r \in Reconcilers, Reconcile(r) \/ ReconcileCrash(r)
        PROVE  LockInv'
    <2>1. UNCHANGED <<sql, outbox, publisher>>
      BY <1>3 DEF Reconcile, ReconcileRead, ReconcileWrite, ReconcileCrash
    <2> QED
      BY <2>1, SameEventsKeep, SameRowsKeep, LocksKept DEF KeepsLock
  <1>4. ASSUME NEW i \in DOMAIN outbox, LockExpires(i)
        PROVE  LockInv'
    <2>1. KeepsActions
      BY <1>4 DEF LockExpires, KeepsActions, Typed, TypeOK, Event
    <2> QED
      BY <1>4, <2>1, SameRowsKeep, LocksKept DEF LockExpires, KeepsLock
  <1>5. CASE UNCHANGED vars
    BY <1>5, SameEventsKeep, SameRowsKeep, LocksKept DEF vars, KeepsLock
  <1> QED
    BY <1>1, <1>2, <1>3, <1>4, <1>5, LockSteps, LockReviews DEF Next

\* The lock of a slot and the check made under it do what they are for, with any
\* number of publications, slow holders, reviews and crashes: a variant found taken
\* after the check was not taken by another new_variant.
THEOREM VariantLockHoldsAlways == Spec => []VariantLockHolds
  <1>1. Typed /\ LockInv /\ [Next]_vars => (Typed /\ LockInv)'
    BY TypedNext, LockNext
  <1>2. LockInv => VariantLockHolds
    BY DEF LockInv, SlotKept, HoldsLock, Locking, VariantLockHolds
  <1> QED
    BY <1>1, <1>2, TypeInit, LockInvInit, PTL DEF Spec

-----------------------------------------------------------------------------
(* DisagreementsAreCovered, for publications that keep apart and no reviews.   *)
(* What SQL and Qdrant disagree about is the business of an event that is not  *)
(* done: of the document's own, or of a new version in its slot.  A document   *)
(* that is current without being servable has such an event too, or the        *)
(* compensation of another publication would show it for good.                 *)

Open(i) == i \in DOMAIN outbox /\ outbox[i].status # "done"

Outstanding(d) == \E i \in DOMAIN outbox : outbox[i].doc = d /\ outbox[i].status # "done"

Superseding(d) ==
  \E i \in DOMAIN outbox : /\ outbox[i].action = "new_version"
                           /\ outbox[i].status # "done"
                           /\ SameSlot(d, outbox[i].doc)

Covered(d) ==
  /\ Served(qdrant[d]) /\ ~sql[d].servable => Outstanding(d)
  /\ Served(sql[d]) /\ ~Served(qdrant[d]) => Superseding(d)
  /\ sql[d].current /\ ~sql[d].servable => Outstanding(d)

\* What holds for the publisher from the claim on, because nobody interferes.
Undisturbed(p) ==
  /\ publisher[p].step \in Held =>
       ~sql[publisher[p].doc].servable /\ Open(publisher[p].event)
  /\ publisher[p].step \in Locking =>
       \A e \in publisher[p].old :
         /\ publisher[p].action = "new_version"
         /\ e # publisher[p].doc /\ SameSlot(e, publisher[p].doc) /\ sql[e].current
  /\ publisher[p].step = "finalize" =>
       /\ Served(qdrant[publisher[p].doc])
       /\ \A e \in publisher[p].old : ~Served(qdrant[e])

CoverInv ==
  /\ \A d \in Docs : Covered(d)
  /\ \A p \in Publishers : Undisturbed(p)

\* The assumptions of this section: on the constants, and on the behaviour.
NobodyReviews == Reviewers = {} /\ Reconcilers = {}
Apart == DocsApart /\ SlotsApart

\* Events that are not done stay so, and remain events of their document.
OpenKept ==
  \A i \in DOMAIN outbox : outbox[i].status # "done" =>
    /\ i \in DOMAIN outbox' /\ outbox'[i].status # "done"
    /\ outbox'[i].doc = outbox[i].doc /\ outbox'[i].action = outbox[i].action

LEMMA CoverInit == Init => CoverInv
  BY DEF Init, InitialRow, InitialPoint, NoPublication, CoverInv, Covered, Undisturbed,
         Served, Held, Locking

LEMMA CoversKept ==
  ASSUME OpenKept, NEW d \in Docs
  PROVE  (Outstanding(d) => Outstanding(d)') /\ (Superseding(d) => Superseding(d)')
  <1>1. Outstanding(d) => Outstanding(d)'
    BY DEF OpenKept, Outstanding
  <1>2. Superseding(d) => Superseding(d)'
    BY DEF OpenKept, Superseding, SameSlot
  <1> QED
    BY <1>1, <1>2

LEMMA CoveredElsewhere ==
  ASSUME OpenKept, NEW d \in Docs, Covered(d), sql'[d] = sql[d], qdrant'[d] = qdrant[d]
  PROVE  Covered(d)'
  BY CoversKept DEF Covered, Served

\* Nothing is wrong with a document out of service that has an event to come.
LEMMA CoveredOwn ==
  ASSUME NEW d \in Docs, ~sql'[d].servable, Outstanding(d)'
  PROVE  Covered(d)'
  BY DEF Covered, Served

\* The point of a current document may say anything while it is being superseded.
LEMMA CoveredOld ==
  ASSUME OpenKept, NEW d \in Docs, Covered(d), sql'[d] = sql[d], sql[d].current,
         Superseding(d)'
  PROVE  Covered(d)'
  BY CoversKept DEF Covered, Served

LEMMA UnlockingOpens ==
  ASSUME TypeOK, NEW i \in DOMAIN outbox, NEW s \in EventStatus \ {"done"}, Unlock(i, s)
  PROVE  OpenKept /\ Open(i)'
  <1>1. /\ KeepsEvents /\ outbox'[i].status = s
        /\ \A j \in DOMAIN outbox \ {i} : outbox'[j] = outbox[j]
    BY UnlockKeeps
  <1>2. KeepsActions
    BY UnlockingKeeps
  <1> QED
    BY <1>1, <1>2 DEF OpenKept, Open, KeepsEvents, KeepsActions

LEMMA ReapingOpens ==
  ASSUME TypeOK, outbox' = Reaped
  PROVE  OpenKept
  <1>1. \A i \in DOMAIN outbox : outbox[i] \in Event
    BY DEF TypeOK
  <1>2. \A i \in DOMAIN outbox : outbox[i].status # "done" => Reap(i).status # "done"
    BY <1>1 DEF Reap, Event
  <1> QED
    BY <1>2, ReapedKeeps DEF OpenKept

LEMMA SameOpen ==
  ASSUME UNCHANGED outbox
  PROVE  OpenKept
  BY DEF OpenKept

\* What a publisher relies on, none of it disturbed by a step of somebody else.
LEMMA StaysUndisturbed ==
  ASSUME NEW q \in Publishers, Undisturbed(q), publisher'[q] = publisher[q],
         publisher[q].step \in Held =>
           ~sql'[publisher[q].doc].servable /\ Open(publisher[q].event)',
         publisher[q].step \in Locking =>
           \A e \in publisher[q].old : sql'[e].current,
         publisher[q].step = "finalize" =>
           /\ Served(qdrant'[publisher[q].doc])
           /\ \A e \in publisher[q].old : ~Served(qdrant'[e])
  PROVE  Undisturbed(q)'
  BY DEF Undisturbed, SameSlot, Served

\* Rows may be taken out of service; what is current and the points stay.
RowsKept ==
  \A d \in Docs : /\ ~sql[d].servable => ~sql'[d].servable
                  /\ sql'[d].current = sql[d].current

LEMMA RowsKeptDisturbNobody ==
  ASSUME Typed, CoverInv, OpenKept, RowsKept, UNCHANGED qdrant,
         NEW q \in Publishers, publisher'[q] = publisher[q]
  PROVE  Undisturbed(q)'
  <1>1. Undisturbed(q)
    BY DEF CoverInv
  <1>2. publisher[q].old \subseteq Docs
    BY DEF Typed, TypeOK, Publication
  <1>3. ASSUME publisher[q].step \in Held
        PROVE  ~sql'[publisher[q].doc].servable /\ Open(publisher[q].event)'
    <2>1. publisher[q].doc \in Docs
      BY <1>3, Busy DEF Held, Locking
    <2>2. ~sql[publisher[q].doc].servable /\ Open(publisher[q].event)
      BY <1>1, <1>3 DEF Undisturbed
    <2>3. Open(publisher[q].event)'
      BY <2>2 DEF Open, OpenKept
    <2> QED
      BY <2>1, <2>2, <2>3 DEF RowsKept
  <1>4. ASSUME publisher[q].step \in Locking, NEW e \in publisher[q].old
        PROVE  sql'[e].current
    BY <1>1, <1>2, <1>4 DEF Undisturbed, RowsKept
  <1>5. publisher[q].step = "finalize" =>
          /\ Served(qdrant'[publisher[q].doc])
          /\ \A e \in publisher[q].old : ~Served(qdrant'[e])
    BY <1>1 DEF Undisturbed
  <1> QED
    BY <1>1, <1>3, <1>4, <1>5, StaysUndisturbed

LEMMA WithdrawKeepsRows ==
  ASSUME TypeOK, NEW d \in Docs, Withdraw(d)
  PROVE  RowsKept
  <1>1. \A e \in Docs : sql[e] \in Row
    BY DEF TypeOK
  <1>2. /\ sql'[d] = [sql[d] EXCEPT !.state = "publishing", !.servable = FALSE]
        /\ \A e \in Docs \ {d} : sql'[e] = sql[e]
    BY DEF Withdraw, UpdateRow, TypeOK
  <1>3. sql'[d].servable = FALSE /\ sql'[d].current = sql[d].current
    BY <1>1, <1>2 DEF Row
  <1> QED
    BY <1>2, <1>3 DEF RowsKept

\* Who holds nothing has nothing to be disturbed.
LEMMA IdleUndisturbed ==
  ASSUME NEW p \in Publishers, publisher'[p].step \notin Held
  PROVE  Undisturbed(p)'
  BY DEF Undisturbed, Held, Locking

\* Steps that touch neither SQL rows nor points, and leave open what is open.
LEMMA CoverIdle ==
  ASSUME Typed, CoverInv, OpenKept, UNCHANGED <<sql, qdrant>>,
         \A q \in Publishers :
           publisher'[q] = publisher[q] \/ publisher'[q].step \notin Held
  PROVE  CoverInv'
  <1>1. \A e \in Docs : Covered(e)'
    BY CoveredElsewhere DEF CoverInv
  <1>2. \A q \in Publishers : Undisturbed(q)'
    BY RowsKeptDisturbNobody, IdleUndisturbed DEF RowsKept
  <1> QED
    BY <1>1, <1>2 DEF CoverInv

\* A step on a document that it leaves, or takes, out of service.
LEMMA CoverWithdrawn ==
  ASSUME TypeOK, \A d \in Docs : Covered(d), OpenKept, NEW d \in Docs, Withdraw(d),
         Outstanding(d)', UNCHANGED qdrant
  PROVE  (\A e \in Docs : Covered(e)') /\ ~sql'[d].servable
  <1>1. ~sql'[d].servable /\ \A e \in Docs \ {d} : sql'[e] = sql[e]
    BY DEF Withdraw, UpdateRow, TypeOK, Row
  <1> QED
    BY <1>1, CoveredOwn, CoveredElsewhere

LEMMA CoverEnqueue ==
  ASSUME Typed, CoverInv, NEW p \in Publishers, Enqueue(p)
  PROVE  CoverInv'
  <1>1. /\ TypeOK /\ publisher \in [Publishers -> Publication]
        /\ \A e \in Docs : Covered(e)
        /\ publisher[p].doc \in Docs
    BY DEF Typed, TypeOK, Engaged, EngagedPublisher, CoverInv, Enqueue, EnqueueRefused,
           EnqueueJoin, EnqueueReopen, EnqueueInsert
  <1>2. PICK d \in Docs : d = publisher[p].doc
    BY <1>1
  <1>3. /\ publisher'[p].step \in {"idle", "queued"}
        /\ \A q \in Publishers \ {p} : publisher'[q] = publisher[q]
    <2>1. \A i : Await(p, i) => /\ publisher'[p].step = "queued"
                               /\ \A q \in Publishers \ {p} : publisher'[q] = publisher[q]
      BY <1>1 DEF Await, Publication
    <2>2. Leave(p) => /\ publisher'[p].step = "idle"
                      /\ \A q \in Publishers \ {p} : publisher'[q] = publisher[q]
      BY <1>1 DEF Leave, NoPublication
    <2> QED
      BY <2>1, <2>2
      DEF Enqueue, EnqueueRefused, EnqueueJoin, EnqueueReopen, EnqueueInsert
  <1>4. ASSUME OpenKept, Withdraw(d), Outstanding(d)', UNCHANGED qdrant
        PROVE  CoverInv'
    <2>1. \A e \in Docs : Covered(e)'
      BY <1>1, <1>4, CoverWithdrawn
    <2>2. RowsKept
      BY <1>1, <1>4, WithdrawKeepsRows
    <2>3. ASSUME NEW q \in Publishers
          PROVE  Undisturbed(q)'
      BY <1>3, <1>4, <2>2, IdleUndisturbed, RowsKeptDisturbNobody DEF Held, Locking
    <2> QED
      BY <2>1, <2>3 DEF CoverInv
  <1>5. ASSUME EnqueueRefused(p)
        PROVE  CoverInv'
    BY <1>3, <1>5, SameOpen, CoverIdle DEF EnqueueRefused, Held, Locking
  <1>6. ASSUME EnqueueJoin(p)
        PROVE  CoverInv'
    <2>1. OpenKept /\ Withdraw(d) /\ UNCHANGED <<qdrant, outbox>>
      BY <1>2, <1>6, SameOpen DEF EnqueueJoin
    <2>2. Outstanding(d)'
      BY <1>2, <1>6 DEF EnqueueJoin, Existing, OpenEvents, Outstanding
    <2> QED
      BY <1>4, <2>1, <2>2
  <1>7. ASSUME EnqueueReopen(p)
        PROVE  CoverInv'
    <2>1. PICK i \in Existing(publisher[p].doc, publisher[p].action) : Unlock(i, "pending")
      BY <1>7 DEF EnqueueReopen
    <2>2. i \in DOMAIN outbox /\ outbox[i].doc = d
      BY <1>2, <2>1 DEF Existing, OpenEvents
    <2>3. OpenKept /\ Open(i)'
      BY <1>1, <2>1, <2>2, UnlockingOpens DEF EventStatus
    <2>4. KeepsEvents
      BY <1>1, <2>1, <2>2, UnlockKeeps DEF EventStatus
    <2>5. Outstanding(d)'
      BY <2>2, <2>3, <2>4 DEF KeepsEvents, Open, Outstanding
    <2>6. Withdraw(d) /\ UNCHANGED qdrant
      BY <1>2, <1>7 DEF EnqueueReopen
    <2> QED
      BY <1>4, <2>3, <2>5, <2>6
  <1>8. ASSUME EnqueueInsert(p)
        PROVE  CoverInv'
    <2> DEFINE event == [doc |-> d, action |-> publisher[p].action, status |-> "pending",
                         attempts |-> 0, lock |-> "none"]
               i == Len(outbox) + 1
    <2>1. outbox' = Append(outbox, event) /\ Withdraw(d) /\ UNCHANGED qdrant
      BY <1>2, <1>8 DEF EnqueueInsert
    <2>2. /\ \A j \in DOMAIN outbox : j \in DOMAIN outbox' /\ outbox'[j] = outbox[j]
          /\ i \in DOMAIN outbox' /\ outbox'[i] = event
      BY <1>1, <2>1 DEF TypeOK
    <2>3. OpenKept
      BY <2>2 DEF OpenKept
    <2>4. event.doc = d /\ event.status # "done"
      OBVIOUS
    <2>5. Outstanding(d)'
      BY <2>2, <2>4 DEF Outstanding
    <2> QED
      BY <1>4, <2>1, <2>3, <2>5
  <1> QED
    BY <1>5, <1>6, <1>7, <1>8 DEF Enqueue

LEMMA CoverClaim ==
  ASSUME Typed, CoverInv, NEW p \in Publishers, NEW i \in DOMAIN outbox,
         ClaimOutbox(p, i)
  PROVE  CoverInv'
  <1>0. TypeOK /\ outbox[i] \in Event /\ publisher \in [Publishers -> Publication]
    BY DEF Typed, TypeOK
  <1>1. PICK d \in Docs : d = outbox[i].doc
    BY <1>0 DEF Event
  <1>2. /\ i \in DOMAIN outbox' /\ outbox'[i] = Claimed(Reap(i))
        /\ \A j \in DOMAIN outbox \ {i} : j \in DOMAIN outbox' /\ outbox'[j] = Reap(j)
    BY <1>0, ReapedKeeps DEF ClaimOutbox
  <1>3. /\ outbox'[i].action = outbox[i].action /\ outbox'[i].doc = d
        /\ outbox'[i].status = "processing"
    BY <1>0, <1>1, <1>2, ReapedKeeps DEF Claimed, Event
  <1>4. \A j \in DOMAIN outbox : outbox[j].status # "done" => Reap(j).status # "done"
    BY <1>0 DEF Reap, TypeOK, Event
  <1>5. OpenKept
    BY <1>0, <1>1, <1>2, <1>3, <1>4, ReapedKeeps DEF OpenKept
  <1>6. Outstanding(d)' /\ Open(i)'
    BY <1>2, <1>3 DEF Outstanding, Open
  <1>7. Withdraw(d) /\ UNCHANGED qdrant
    BY <1>1 DEF ClaimOutbox
  <1>8. (\A e \in Docs : Covered(e)') /\ ~sql'[d].servable
    BY <1>0, <1>5, <1>6, <1>7, CoverWithdrawn DEF CoverInv
  <1>9. /\ publisher'[p].step = "claimed" /\ publisher'[p].event = i
        /\ publisher'[p].doc = d
    BY <1>0, <1>1 DEF ClaimOutbox, Publication
  <1>10. Undisturbed(p)'
    BY <1>6, <1>8, <1>9 DEF Undisturbed, Locking, Open
  <1>11. ASSUME NEW q \in Publishers \ {p}
         PROVE  Undisturbed(q)'
    <2>1. publisher'[q] = publisher[q]
      BY <1>0 DEF ClaimOutbox
    <2> QED
      BY <1>0, <1>5, <1>7, <2>1, WithdrawKeepsRows, RowsKeptDisturbNobody
  <1> QED
    BY <1>8, <1>10, <1>11 DEF CoverInv

LEMMA CoverClaims ==
  ASSUME Typed, CoverInv, NEW p \in Publishers,
         ClaimQueued(p) \/ ClaimLost(p) \/ PollClaim(p) \/ PollNothing(p)
  PROVE  CoverInv'
  <1>1. TypeOK
    BY DEF Typed
  <1>2. CASE ClaimQueued(p)
    BY <1>2, Busy, CoverClaim DEF ClaimQueued
  <1>3. CASE PollClaim(p)
    BY <1>3, CoverClaim DEF PollClaim
  <1>4. CASE ClaimLost(p) \/ PollNothing(p)
    <2>1. OpenKept /\ UNCHANGED <<sql, qdrant>>
      BY <1>1, <1>4, ReapingOpens DEF ClaimLost, PollNothing
    <2>2. \A q \in Publishers : publisher'[q] = publisher[q] \/ publisher'[q].step = "idle"
      BY <1>1, <1>4 DEF ClaimLost, PollNothing, Leave, NoPublication, TypeOK
    <2> QED
      BY <2>1, <2>2, CoverIdle DEF Held, Locking
  <1> QED
    BY <1>2, <1>3, <1>4

\* A step of a publication that holds its event: it may change the document it
\* keeps out of service, and the points of those it supersedes.  Without the lock
\* of its slot it does no more to a point than hide it.
HeldStep(p) ==
  /\ publisher[p].step \in Held
  /\ OpenKept
  /\ ~sql'[publisher[p].doc].servable
  /\ sql'[publisher[p].doc].current = sql[publisher[p].doc].current
  /\ publisher[p].step \notin Locking =>
       \/ qdrant'[publisher[p].doc] = qdrant[publisher[p].doc]
       \/ ~Served(qdrant'[publisher[p].doc])
  /\ \A e \in Docs \ {publisher[p].doc} :
       /\ sql'[e] = sql[e]
       /\ \/ qdrant'[e] = qdrant[e]
          \/ publisher[p].step \in Locking /\ e \in publisher[p].old

LEMMA CoverHeld ==
  ASSUME Typed, LockInv, CoverInv, NEW p \in Publishers, HeldStep(p)
  PROVE  \A e \in Docs : Covered(e)'
  <1>1. publisher[p].step \notin {"idle", "validated", "queued"}
    BY DEF HeldStep, Held, Locking
  <1>2. PICK d \in Docs, i \in DOMAIN outbox :
          d = publisher[p].doc /\ i = publisher[p].event
    BY <1>1, Busy
  <1>3. outbox[i].doc = d /\ outbox[i].action = publisher[p].action
    BY <1>1, <1>2, Busy DEF LockInv, ActionKnown
  <1>4. outbox[i].status # "done"
    BY <1>2 DEF HeldStep, CoverInv, Undisturbed, Open
  <1>5. /\ i \in DOMAIN outbox' /\ outbox'[i].status # "done"
        /\ outbox'[i].doc = d /\ outbox'[i].action = publisher[p].action
    BY <1>3, <1>4 DEF HeldStep, OpenKept
  <1>6. Covered(d)'
    <2>1. Outstanding(d)'
      BY <1>5 DEF Outstanding
    <2> QED
      BY <1>2, <2>1, CoveredOwn DEF HeldStep
  <1>7. ASSUME NEW e \in Docs, e # d
        PROVE  Covered(e)'
    <2>1. OpenKept /\ Covered(e) /\ sql'[e] = sql[e]
      BY <1>2, <1>7 DEF HeldStep, CoverInv
    <2>2. CASE qdrant'[e] = qdrant[e]
      BY <2>1, <2>2, CoveredElsewhere
    <2>3. CASE publisher[p].step \in Locking /\ e \in publisher[p].old
      <3>1. publisher[p].action = "new_version" /\ SameSlot(e, d) /\ sql[e].current
        BY <1>2, <2>3 DEF CoverInv, Undisturbed
      <3>2. Superseding(e)'
        BY <1>5, <3>1 DEF Superseding, SameSlot
      <3> QED
        BY <2>1, <3>1, <3>2, CoveredOld
    <2> QED
      BY <1>2, <1>7, <2>2, <2>3 DEF HeldStep
  <1> QED
    BY <1>6, <1>7

\* ... and others, which are of other documents and lock other slots, do not mind.
LEMMA HeldOthers ==
  ASSUME Typed, Apart, CoverInv, NEW p \in Publishers, HeldStep(p),
         NEW q \in Publishers \ {p}, publisher'[q] = publisher[q]
  PROVE  Undisturbed(q)'
  <1>1. Undisturbed(q) /\ publisher[p].step \in Held /\ OpenKept
    BY DEF CoverInv, HeldStep
  <1>2. ASSUME publisher[p].step \in Locking, publisher[q].step \in Locking,
               NEW e \in publisher[q].old
        PROVE  e # publisher[p].doc /\ e \notin publisher[p].old
    <2>1. ~SameSlot(publisher[p].doc, publisher[q].doc)
      BY <1>2 DEF Apart, SlotsApart
    <2>2. SameSlot(e, publisher[q].doc)
      BY <1>1, <1>2 DEF Undisturbed
    <2>3. e \in publisher[p].old => SameSlot(e, publisher[p].doc)
      BY <1>2 DEF CoverInv, Undisturbed
    <2> QED
      BY <2>1, <2>2, <2>3 DEF SameSlot
  <1>3. ASSUME publisher[p].step \in Locking, publisher[q].step \in Locking
        PROVE  publisher[q].doc \notin publisher[p].old
    <2>1. ~SameSlot(publisher[p].doc, publisher[q].doc)
      BY <1>3 DEF Apart, SlotsApart
    <2>2. \A e \in publisher[p].old : SameSlot(e, publisher[p].doc)
      BY <1>3 DEF CoverInv, Undisturbed
    <2> QED
      BY <2>1, <2>2 DEF SameSlot
  <1>4. ASSUME publisher[q].step \in Held
        PROVE  /\ publisher[q].doc \in Docs /\ publisher[q].doc # publisher[p].doc
               /\ ~sql'[publisher[q].doc].servable /\ Open(publisher[q].event)'
    <2>1. publisher[q].doc \in Docs
      BY <1>4, Busy DEF Held, Locking
    <2>2. publisher[q].doc # publisher[p].doc
      BY <1>1, <1>4 DEF Apart, DocsApart
    <2>3. ~sql[publisher[q].doc].servable /\ Open(publisher[q].event)
      BY <1>1, <1>4 DEF Undisturbed
    <2>4. sql'[publisher[q].doc] = sql[publisher[q].doc]
      BY <2>1, <2>2 DEF HeldStep
    <2>5. Open(publisher[q].event)'
      BY <1>1, <2>3 DEF Open, OpenKept
    <2> QED
      BY <2>1, <2>2, <2>3, <2>4, <2>5
  <1>5. publisher[q].old \subseteq Docs
    BY DEF Typed, TypeOK, Publication
  <1>6. ASSUME publisher[q].step \in Locking, NEW e \in publisher[q].old
        PROVE  sql'[e].current
    <2>1. e \in Docs /\ sql[e].current
      BY <1>1, <1>5, <1>6 DEF Undisturbed
    <2> QED
      BY <2>1 DEF HeldStep
  <1>7. ASSUME publisher[q].step = "finalize"
        PROVE  /\ Served(qdrant'[publisher[q].doc])
               /\ \A e \in publisher[q].old : ~Served(qdrant'[e])
    <2>1. publisher[q].step \in Held /\ publisher[q].step \in Locking
      BY <1>7 DEF Held, Locking
    <2>2. qdrant'[publisher[q].doc] = qdrant[publisher[q].doc]
      BY <1>3, <1>4, <2>1 DEF HeldStep
    <2>3. Served(qdrant[publisher[q].doc])
      BY <1>1, <1>7 DEF Undisturbed
    <2>4. ASSUME NEW e \in publisher[q].old
          PROVE  ~Served(qdrant'[e])
      <3>1. e \in Docs /\ ~Served(qdrant[e])
        BY <1>1, <1>5, <1>7, <2>4 DEF Undisturbed
      <3>2. CASE publisher[p].step \in Locking
        <4>1. qdrant'[e] = qdrant[e]
          BY <1>2, <2>1, <2>4, <3>1, <3>2 DEF HeldStep
        <4> QED
          BY <3>1, <4>1 DEF Served
      <3>3. CASE publisher[p].step \notin Locking
        <4>1. qdrant'[e] = qdrant[e] \/ ~Served(qdrant'[e])
          BY <3>1, <3>3 DEF HeldStep
        <4> QED
          BY <3>1, <4>1 DEF Served
      <3> QED
        BY <3>2, <3>3
    <2> QED
      BY <2>2, <2>3, <2>4 DEF Served
  <1> QED
    BY <1>1, <1>4, <1>6, <1>7, StaysUndisturbed

\* The publication goes on under the same terms.
LEMMA CoverGoto ==
  ASSUME Typed, Apart, LockInv, CoverInv, NEW p \in Publishers, HeldStep(p),
         NEW s \in Held, Goto(p, s), s \in Locking => publisher[p].step \in Locking,
         s = "finalize" => /\ Served(qdrant'[publisher[p].doc])
                           /\ \A e \in publisher[p].old : ~Served(qdrant'[e])
  PROVE  CoverInv'
  <1>1. publisher \in [Publishers -> Publication]
    BY DEF Typed, TypeOK
  <1>2. /\ publisher'[p].step = s
        /\ publisher'[p].doc = publisher[p].doc /\ publisher'[p].event = publisher[p].event
        /\ publisher'[p].action = publisher[p].action /\ publisher'[p].old = publisher[p].old
    BY <1>1 DEF Goto, Publication
  <1>3. publisher'[p].old \subseteq Docs
    BY <1>1, <1>2 DEF Publication
  <1>4. ASSUME s \in Locking, NEW e \in publisher[p].old
        PROVE  /\ publisher[p].action = "new_version"
               /\ e # publisher[p].doc /\ SameSlot(e, publisher[p].doc) /\ sql'[e].current
    <2>1. /\ publisher[p].action = "new_version"
          /\ e # publisher[p].doc /\ SameSlot(e, publisher[p].doc) /\ sql[e].current
      BY <1>4 DEF CoverInv, Undisturbed
    <2>2. e \in Docs
      BY <1>2, <1>3, <1>4
    <2> QED
      BY <2>1, <2>2 DEF HeldStep
  <1>5. ~sql'[publisher[p].doc].servable
    BY DEF HeldStep
  <1>6. Open(publisher[p].event)'
    <2>1. PICK i \in DOMAIN outbox : i = publisher[p].event /\ outbox[i].status # "done"
      BY DEF CoverInv, Undisturbed, Open, HeldStep
    <2>2. i \in DOMAIN outbox' /\ outbox'[i].status # "done"
      BY <2>1 DEF HeldStep, OpenKept
    <2> QED
      BY <1>2, <2>1, <2>2 DEF Open
  <1>7. Undisturbed(p)'
    BY <1>2, <1>4, <1>5, <1>6 DEF Undisturbed, SameSlot, Served
  <1>8. \A q \in Publishers \ {p} : publisher'[q] = publisher[q]
    BY <1>1 DEF Goto
  <1> QED
    BY <1>7, <1>8, CoverHeld, HeldOthers DEF CoverInv

LEMMA CoverBegin ==
  ASSUME Typed, Apart, LockInv, CoverInv, NEW p \in Publishers, BeginPublish(p)
  PROVE  CoverInv'
  <1>1. publisher \in [Publishers -> Publication] /\ UNCHANGED <<sql, qdrant, outbox>>
    BY DEF Typed, TypeOK, BeginPublish
  <1>2. \A e \in Docs : Covered(e)'
    BY <1>1, SameOpen, CoveredElsewhere DEF CoverInv
  <1>3. /\ publisher'[p].step = "stage"
        /\ publisher'[p].doc = publisher[p].doc /\ publisher'[p].event = publisher[p].event
        /\ publisher'[p].action = publisher[p].action
        /\ publisher'[p].old = OldDocs(publisher[p].doc, publisher[p].action)
    BY <1>1 DEF BeginPublish, Publication
  <1>4. ~sql[publisher[p].doc].servable /\ Open(publisher[p].event)
    BY DEF CoverInv, Undisturbed, BeginPublish, Held
  <1>5. \A e \in OldDocs(publisher[p].doc, publisher[p].action) :
          /\ publisher[p].action = "new_version"
          /\ e # publisher[p].doc /\ SameSlot(e, publisher[p].doc) /\ sql[e].current
    BY DEF OldDocs, SameSlot
  <1>6. Undisturbed(p)'
    BY <1>1, <1>3, <1>4, <1>5 DEF Undisturbed, Open, SameSlot
  <1>7. ASSUME NEW q \in Publishers \ {p}
        PROVE  Undisturbed(q)'
    <2>1. publisher'[q] = publisher[q]
      BY <1>1 DEF BeginPublish
    <2> QED
      BY <1>1, <2>1, SameOpen, RowsKeptDisturbNobody DEF RowsKept
  <1> QED
    BY <1>2, <1>6, <1>7 DEF CoverInv


\* The document is out of service while it is being published, and stays so.
LEMMA HeldRow ==
  ASSUME CoverInv, NEW p \in Publishers, publisher[p].step \in Held, UNCHANGED <<sql, outbox>>,
         publisher[p].step \notin Locking =>
           \/ qdrant'[publisher[p].doc] = qdrant[publisher[p].doc]
           \/ ~Served(qdrant'[publisher[p].doc]),
         \A e \in Docs \ {publisher[p].doc} :
           \/ qdrant'[e] = qdrant[e]
           \/ publisher[p].step \in Locking /\ e \in publisher[p].old
  PROVE  HeldStep(p)
  BY SameOpen DEF HeldStep, CoverInv, Undisturbed

LEMMA PointElsewhere ==
  ASSUME TypeOK, NEW d \in Docs, NEW m, QdrantOk(d, m) \/ QdrantFails(d, m),
         NEW e \in Docs, e # d
  PROVE  qdrant'[e] = qdrant[e]
  BY DEF QdrantOk, QdrantFails, TypeOK

LEMMA CoverStage ==
  ASSUME Typed, Apart, LockInv, CoverInv, NEW p \in Publishers, StageQdrant(p)
  PROVE  CoverInv'
  <1>1. publisher[p].doc \in Docs /\ TypeOK
    BY Busy DEF StageQdrant
  <1>2. UNCHANGED <<sql, outbox>> /\ publisher[p].step = "stage"
    BY DEF StageQdrant
  <1>3. \A e \in Docs \ {publisher[p].doc} : qdrant'[e] = qdrant[e]
    BY <1>1, PointElsewhere DEF StageQdrant
  <1>4. HeldStep(p)
    BY <1>2, <1>3, HeldRow DEF Held, Locking
  <1>5. Goto(p, "sync") \/ Goto(p, "disable")
    BY DEF StageQdrant
  <1> QED
    BY <1>2, <1>4, <1>5, CoverGoto DEF Held, Locking

LEMMA CoverSync ==
  ASSUME Typed, Apart, LockInv, CoverInv, NEW p \in Publishers, SyncSql(p)
  PROVE  CoverInv'
  <1>1. PICK d \in Docs : d = publisher[p].doc /\ TypeOK
    BY Busy DEF SyncSql
  <1>2. publisher[p].step = "sync" /\ UNCHANGED <<qdrant, outbox>>
    BY DEF SyncSql
  <1>3. ~sql[d].servable
    BY <1>1, <1>2 DEF CoverInv, Undisturbed, Held, Locking
  <1>4. /\ ~sql'[d].servable /\ sql'[d].current = sql[d].current
        /\ \A e \in Docs \ {d} : sql'[e] = sql[e]
    <2> DEFINE row == [sql[d] EXCEPT !.servable = FALSE, !.state = "qdrant_synced"]
    <2>1. row.servable = FALSE /\ row.current = sql[d].current
      BY <1>1 DEF TypeOK, Row
    <2>2. UpdateRow(d, row) \/ UNCHANGED sql
      BY <1>1 DEF SyncSql
    <2> HIDE DEF row
    <2> QED
      BY <1>1, <1>3, <2>1, <2>2 DEF UpdateRow, TypeOK
  <1>5. HeldStep(p)
    BY <1>1, <1>2, <1>4, SameOpen DEF HeldStep, Held, Locking
  <1>6. Goto(p, "batch") \/ Goto(p, "disable")
    BY DEF SyncSql
  <1> QED
    BY <1>2, <1>5, <1>6, CoverGoto DEF Held, Locking

\* A batch, complete or not, concerns the document and those it supersedes.
LEMMA BatchElsewhere ==
  ASSUME NEW p \in Publishers, NEW new, BatchOk(new) \/ BatchFails(new, p),
         qdrant \in [Docs -> Point], NEW e \in Docs,
         new[e] = qdrant[e], e # publisher[p].doc, e \notin publisher[p].old
  PROVE  qdrant'[e] = qdrant[e]
  BY DEF BatchOk, BatchFails

LEMMA CoverBatch ==
  ASSUME Typed, Apart, LockInv, CoverInv, NEW p \in Publishers, BatchQdrant(p)
  PROVE  CoverInv'
  <1>1. PICK d \in Docs : d = publisher[p].doc /\ TypeOK
    BY Busy DEF BatchQdrant
  <1>2. UNCHANGED <<sql, outbox>> /\ publisher[p].step = "batch"
    BY DEF BatchQdrant
  <1>3. /\ qdrant \in [Docs -> Point] /\ publisher[p].old \subseteq Docs
        /\ \A e \in publisher[p].old : e # d
    BY <1>1, <1>2 DEF TypeOK, Publication, CoverInv, Undisturbed, Locking
  <1>4. ASSUME NEW e \in Docs \ {d}, e \notin publisher[p].old
        PROVE  qdrant'[e] = qdrant[e]
    <2>1. ActivatedPoints(p)[e] = qdrant[e]
      BY <1>1, <1>4 DEF ActivatedPoints
    <2> QED
      BY <1>1, <1>3, <1>4, <2>1, BatchElsewhere DEF BatchQdrant
  <1>5. HeldStep(p)
    BY <1>1, <1>2, <1>4, HeldRow DEF Held, Locking
  <1>6. ASSUME BatchOk(ActivatedPoints(p))
        PROVE  Served(qdrant'[d]) /\ \A e \in publisher[p].old : ~Served(qdrant'[e])
    <2>1. qdrant'[d] = [servable |-> TRUE, life |-> "published", effective |-> "effective",
                        approved |-> TRUE, current |-> TRUE, epoch |-> publisher[p].event]
      BY <1>1, <1>6 DEF BatchOk, ActivatedPoints
    <2>2. Served(qdrant'[d])
      BY <2>1 DEF Served
    <2>3. ASSUME NEW e \in publisher[p].old
          PROVE  ~Served(qdrant'[e])
      <3>1. e \in Docs /\ e # d /\ qdrant[e] \in Point
        BY <1>3, <2>3
      <3>2. qdrant'[e] = [qdrant[e] EXCEPT !.servable = FALSE, !.current = FALSE,
                            !.life = "superseded", !.effective = "superseded"]
        BY <1>1, <1>6, <2>3, <3>1 DEF BatchOk, ActivatedPoints
      <3>3. qdrant'[e].servable = FALSE
        BY <3>1, <3>2 DEF Point
      <3> QED
        BY <3>3 DEF Served
    <2> QED
      BY <2>2, <2>3
  <1>7. \/ Goto(p, "disable")
        \/ BatchOk(ActivatedPoints(p)) /\ Goto(p, "finalize")
    BY DEF BatchQdrant
  <1>8. CASE Goto(p, "disable")
    BY <1>5, <1>8, CoverGoto DEF Held, Locking
  <1>9. CASE BatchOk(ActivatedPoints(p)) /\ Goto(p, "finalize")
    BY <1>1, <1>2, <1>5, <1>6, <1>9, CoverGoto DEF Held, Locking
  <1> QED
    BY <1>7, <1>8, <1>9

LEMMA CoverRollback ==
  ASSUME Typed, Apart, LockInv, CoverInv, NEW p \in Publishers, RollbackQdrant(p)
  PROVE  CoverInv'
  <1>1. PICK d \in Docs : d = publisher[p].doc /\ TypeOK
    BY Busy DEF RollbackQdrant
  <1>2. UNCHANGED <<sql, outbox>> /\ publisher[p].step = "rollback"
    BY DEF RollbackQdrant
  <1>3. ASSUME NEW e \in Docs \ {d}, e \notin publisher[p].old
        PROVE  qdrant'[e] = qdrant[e]
    <2>1. RestoredPoints(p)[e] = qdrant[e]
      BY <1>1, <1>3 DEF RestoredPoints
    <2> QED
      BY <1>1, <1>3, <2>1, BatchElsewhere DEF RollbackQdrant, TypeOK
  <1>4. HeldStep(p)
    BY <1>1, <1>2, <1>3, HeldRow DEF Held, Locking
  <1> QED
    BY <1>4, CoverGoto DEF RollbackQdrant, Held, Locking

LEMMA CoverFailing ==
  ASSUME Typed, Apart, LockInv, CoverInv, NEW p \in Publishers,
         BeginFails(p) \/ FinalizeFails(p) \/ DisableQdrant(p)
  PROVE  CoverInv'
  <1>1. PICK d \in Docs : d = publisher[p].doc /\ TypeOK
    BY Busy DEF BeginFails, FinalizeFails, DisableQdrant
  <1>2. UNCHANGED <<sql, outbox>>
    BY DEF BeginFails, FinalizeFails, DisableQdrant
  <1>3. \A e \in Docs \ {d} : qdrant'[e] = qdrant[e]
    BY <1>1, PointElsewhere DEF BeginFails, FinalizeFails, DisableQdrant
  <1>4. PICK s \in Held : /\ Goto(p, s) /\ s # "finalize" /\ publisher[p].step \in Held
                          /\ s \in Locking => publisher[p].step \in Locking
    BY DEF BeginFails, FinalizeFails, DisableQdrant, Held, Locking
  <1>5. publisher[p].step \notin Locking => qdrant'[d] = qdrant[d] \/ ~Served(qdrant'[d])
    <2>1. ASSUME DisableQdrant(p)
          PROVE  qdrant'[d] = qdrant[d] \/ ~Served(qdrant'[d])
      <3> DEFINE hidden == [qdrant[d] EXCEPT !.servable = FALSE]
      <3>1. ~Served(hidden)
        BY <1>1, Busy DEF Served, TypeOK, Point
      <3>2. qdrant'[d] = hidden \/ qdrant'[d] = qdrant[d]
        BY <1>1, <2>1 DEF DisableQdrant, QdrantOk, QdrantFails, TypeOK
      <3> HIDE DEF hidden
      <3> QED
        BY <3>1, <3>2 DEF Served
    <2>2. CASE BeginFails(p)
      BY <2>2 DEF BeginFails
    <2>3. CASE FinalizeFails(p)
      BY <2>3 DEF FinalizeFails, Locking
    <2> QED
      BY <2>1, <2>2, <2>3
  <1>6. HeldStep(p)
    BY <1>1, <1>2, <1>3, <1>4, <1>5, HeldRow
  <1> QED
    BY <1>4, <1>6, CoverGoto

\* Who leaves has nothing to be disturbed any more.
LEMMA Left ==
  ASSUME TypeOK, NEW p \in Publishers, Leave(p)
  PROVE  /\ publisher'[p].step \notin Held /\ Undisturbed(p)'
         /\ \A q \in Publishers \ {p} : publisher'[q] = publisher[q]
  <1>1. publisher'[p].step = "idle"
    BY DEF Leave, NoPublication, TypeOK
  <1>2. \A q \in Publishers \ {p} : publisher'[q] = publisher[q]
    BY DEF Leave, TypeOK
  <1> QED
    BY <1>1, <1>2, IdleUndisturbed DEF Held, Locking

LEMMA CoverMarkFailed ==
  ASSUME Typed, Apart, LockInv, CoverInv, NEW p \in Publishers, MarkFailed(p)
  PROVE  CoverInv'
  <1>1. PICK d \in Docs, i \in DOMAIN outbox :
          d = publisher[p].doc /\ i = publisher[p].event /\ TypeOK
    BY Busy DEF MarkFailed
  <1>2. OpenKept
    BY <1>1, UnlockingOpens DEF MarkFailed, EventStatus
  <1>3. /\ ~sql'[d].servable /\ sql'[d].current = sql[d].current
        /\ \A e \in Docs \ {d} : sql'[e] = sql[e]
    <2> DEFINE row == [sql[d] EXCEPT !.state = "failed", !.servable = FALSE]
    <2>1. row.servable = FALSE /\ row.current = sql[d].current
      BY <1>1 DEF TypeOK, Row
    <2>2. UpdateRow(d, row)
      BY <1>1 DEF MarkFailed
    <2> HIDE DEF row
    <2> QED
      BY <1>1, <2>1, <2>2 DEF UpdateRow, TypeOK
  <1>4. HeldStep(p)
    BY <1>1, <1>2, <1>3 DEF HeldStep, MarkFailed, Held
  <1>5. Leave(p)
    BY DEF MarkFailed
  <1> QED
    BY <1>1, <1>4, <1>5, CoverHeld, HeldOthers, Left DEF CoverInv

\* The new document is shown in SQL as in Qdrant, the old ones are hidden in both,
\* and the unique index answers for the other documents of the slot: the event that
\* is now done had covered none of them.
LEMMA CoverFinalize ==
  ASSUME Typed, Apart, LockInv, CoverInv, NEW p \in Publishers, FinalizeSql(p)
  PROVE  CoverInv'
  <1>1. PICK d \in Docs, i \in DOMAIN outbox :
          d = publisher[p].doc /\ i = publisher[p].event /\ TypeOK
    BY Busy DEF FinalizeSql
  <1>2. /\ outbox[i].doc = d
        /\ Unlock(i, "done") /\ UNCHANGED qdrant /\ Leave(p) /\ ~IndexViolated(p)
    BY <1>1, Busy DEF FinalizeSql
  <1>3. /\ Served(qdrant[d])
        /\ \A e \in publisher[p].old : ~Served(qdrant[e]) /\ e # d
    BY <1>1 DEF FinalizeSql, CoverInv, Undisturbed, Locking
  <1>4. sql'[d] = [servable |-> TRUE, state |-> "published", life |-> "published",
                   effective |-> "effective", approved |-> TRUE, current |-> TRUE,
                   epoch |-> i]
    BY <1>1 DEF FinalizeSql
  <1>5. Covered(d)'
    <2>1. Served(sql'[d]) /\ sql'[d].servable
      BY <1>4 DEF Served
    <2> QED
      BY <1>2, <1>3, <2>1 DEF Covered, Served
  <1>6. ASSUME NEW e \in Docs, e \in publisher[p].old
        PROVE  Covered(e)' /\ ~sql'[e].servable
    <2>1. sql'[e] = [sql[e] EXCEPT !.servable = FALSE, !.current = FALSE,
                       !.life = "superseded", !.effective = "superseded",
                       !.state = "published"]
      BY <1>1, <1>3, <1>6 DEF FinalizeSql
    <2>2. sql[e] \in Row
      BY <1>1, <1>6 DEF TypeOK
    <2>3. ~sql'[e].servable /\ ~sql'[e].current
      BY <2>1, <2>2 DEF Row
    <2>4. ~Served(qdrant'[e])
      BY <1>2, <1>3, <1>6
    <2> QED
      BY <2>3, <2>4 DEF Covered, Served
  <1>7. /\ DOMAIN outbox \subseteq DOMAIN outbox'
        /\ \A j \in DOMAIN outbox \ {i} : outbox'[j] = outbox[j]
    BY <1>1, <1>2, UnlockKeeps DEF KeepsEvents, EventStatus
  <1>8. ASSUME NEW e \in Docs, e # d, e \notin publisher[p].old
        PROVE  Covered(e)'
    <2>1. sql'[e] = sql[e] /\ qdrant'[e] = qdrant[e]
      BY <1>1, <1>2, <1>8 DEF FinalizeSql
    <2>2. Outstanding(e) => Outstanding(e)'
      BY <1>2, <1>7, <1>8 DEF Outstanding
    <2>3. ASSUME Served(sql[e]), Superseding(e)
          PROVE  Superseding(e)'
      <3>1. ~SameSlot(e, d)
        BY <1>1, <1>2, <1>8, <2>3 DEF IndexViolated, Served, SameSlot
      <3> QED
        BY <1>2, <1>7, <2>3, <3>1 DEF Superseding, SameSlot
    <2>4. Covered(e)
      BY DEF CoverInv
    <2> QED
      BY <2>1, <2>2, <2>3, <2>4 DEF Covered, Served
  <1>9. ASSUME NEW q \in Publishers \ {p}
        PROVE  Undisturbed(q)'
    <2>1. publisher'[q] = publisher[q] /\ Undisturbed(q)
      BY <1>1, <1>2, <1>9, Left DEF CoverInv
    <2>2. \A e \in Docs : e \notin publisher[p].old /\ e # d => sql'[e] = sql[e]
      BY <1>1 DEF FinalizeSql
    <2>3. ASSUME publisher[q].step \in Held
          PROVE  ~sql'[publisher[q].doc].servable /\ Open(publisher[q].event)'
      <3>1. /\ publisher[q].doc \in Docs /\ publisher[q].event \in DOMAIN outbox
            /\ outbox[publisher[q].event].doc = publisher[q].doc
        BY <2>3, Busy DEF Held, Locking
      <3>2. publisher[q].doc # d /\ publisher[q].event # i
        BY <1>1, <1>2, <1>9, <2>3, <3>1 DEF Apart, DocsApart, FinalizeSql, Held, Locking
      <3>3. ~sql[publisher[q].doc].servable /\ Open(publisher[q].event)
        BY <2>1, <2>3 DEF Undisturbed
      <3>4. Open(publisher[q].event)'
        BY <1>7, <2>1, <3>1, <3>2, <3>3 DEF Open
      <3>5. ~sql'[publisher[q].doc].servable
        BY <1>6, <2>2, <3>1, <3>2, <3>3
      <3> QED
        BY <3>4, <3>5
    <2>4. ASSUME publisher[q].step \in Locking, NEW e \in publisher[q].old
          PROVE  sql'[e].current
      <3>1. e \in Docs /\ sql[e].current /\ SameSlot(e, publisher[q].doc)
        BY <2>1, <2>4 DEF Undisturbed, Typed, TypeOK, Publication
      <3>2. ~SameSlot(d, publisher[q].doc)
        BY <1>1, <1>9, <2>4 DEF Apart, SlotsApart, FinalizeSql, Locking
      <3>3. e # d /\ ~SameSlot(e, d)
        BY <3>1, <3>2 DEF SameSlot
      <3>4. e \notin publisher[p].old
        BY <1>1, <3>3 DEF CoverInv, Undisturbed, FinalizeSql, Locking
      <3> QED
        BY <2>2, <3>1, <3>3, <3>4
    <2>5. publisher[q].step = "finalize" =>
            /\ Served(qdrant'[publisher[q].doc])
            /\ \A e \in publisher[q].old : ~Served(qdrant'[e])
      BY <1>2, <2>1 DEF Undisturbed
    <2> QED
      BY <2>1, <2>3, <2>4, <2>5, StaysUndisturbed
  <1> QED
    BY <1>1, <1>2, <1>5, <1>6, <1>8, <1>9, Left DEF CoverInv

LEMMA CoverNext ==
  ASSUME NobodyReviews, Typed, Apart, LockInv, CoverInv, [Next]_vars
  PROVE  CoverInv'
  <1>1. ASSUME NEW p \in Publishers, Publish(p) PROVE CoverInv'
    BY <1>1, CoverEnqueue, CoverClaims, CoverBegin, CoverFailing, CoverStage, CoverSync,
       CoverBatch, CoverFinalize, CoverRollback, CoverMarkFailed DEF Publish
  <1>2. ASSUME NEW p \in Publishers, NEW d \in Docs, NEW a \in Actions,
               ValidateRequest(p, d, a)
        PROVE  CoverInv'
    <2>1. /\ publisher'[p].step = "validated"
          /\ \A q \in Publishers \ {p} : publisher'[q] = publisher[q]
      BY <1>2 DEF ValidateRequest, Typed, TypeOK, Publication
    <2> QED
      BY <1>2, <2>1, SameOpen, CoverIdle DEF ValidateRequest, Held, Locking
  <1>3. ASSUME NEW p \in Publishers, Crash(p) PROVE CoverInv'
    <2>1. /\ publisher'[p].step \notin Held
          /\ \A q \in Publishers \ {p} : publisher'[q] = publisher[q]
      BY <1>3, Left DEF Crash, Typed
    <2> QED
      BY <1>3, <2>1, SameOpen, CoverIdle DEF Crash
  <1>4. ASSUME NEW i \in DOMAIN outbox, LockExpires(i) PROVE CoverInv'
    <2>1. OpenKept
      BY <1>4 DEF LockExpires, OpenKept, Typed, TypeOK, Event
    <2> QED
      BY <1>4, <2>1, CoverIdle DEF LockExpires
  <1>5. CASE UNCHANGED vars
    BY <1>5, SameOpen, CoverIdle DEF vars
  <1> QED
    BY <1>1, <1>2, <1>3, <1>4, <1>5 DEF Next, NobodyReviews

LEMMA CoverAlways ==
  ASSUME NobodyReviews
  PROVE  ApartSpec => []CoverInv
  <1> DEFINE N == Next /\ (DocsApart /\ SlotsApart)'
  <1>1. Init => Apart
    BY DEF Init, NoPublication, Apart, DocsApart, SlotsApart, Held, Locking
  <1>2. Apart /\ [N]_vars => Apart'
    BY DEF Apart, DocsApart, SlotsApart, vars
  <1>3. /\ Typed /\ Apart /\ LockInv /\ CoverInv /\ [N]_vars
        => (Typed /\ Apart /\ LockInv /\ CoverInv)'
    BY <1>2, TypedNext, LockNext, CoverNext
  <1> QED
    BY <1>1, <1>3, TypeInit, LockInvInit, CoverInit, PTL DEF ApartSpec

\* With publications of different documents and slots under way at a time and
\* nobody reviewing, whatever calls fail and whenever processes die, a point that
\* is served without its row has an event that is not done, and a row that is
\* served while its point is hidden has a new version to come.
THEOREM DisagreementsAreCoveredAlways ==
  ASSUME NobodyReviews
  PROVE  ApartSpec => []DisagreementsAreCovered
  <1>1. CoverInv => UnbackedIsCovered
    BY DEF CoverInv, Covered, Outstanding, UnbackedIsCovered
  <1>2. CoverInv => HiddenIsCovered
    BY DEF CoverInv, Covered, Superseding, HiddenIsCovered
  <1>3. CoverInv => DisagreementsAreCovered
    BY <1>1, <1>2 DEF DisagreementsAreCovered
  <1> QED
    BY <1>3, CoverAlways, PTL

\* Where the code keeps them apart itself: one process publishes and polls, or every
\* publication is of a new_variant, whose lock leaves only the documents to assume.
THEOREM LonePublisherCovers ==
  ASSUME NobodyReviews, \A p, q \in Publishers : p = q
  PROVE  Spec => []DisagreementsAreCovered
  <1>1. (DocsApart /\ SlotsApart)'
    BY DEF DocsApart, SlotsApart
  <1>2. [Next]_vars => [Next /\ (DocsApart /\ SlotsApart)']_vars
    BY <1>1
  <1>3. Spec => ApartSpec
    BY <1>2, PTL DEF Spec, ApartSpec
  <1> QED
    BY <1>3, DisagreementsAreCoveredAlways, PTL

THEOREM VariantsCover ==
  ASSUME NobodyReviews, Actions \subseteq {"new_variant"}
  PROVE  Spec /\ []DocsApart => []DisagreementsAreCovered
  <1>1. Typed /\ LockInv => SlotsApart
    <2> SUFFICES ASSUME Typed, LockInv PROVE SlotsApart
      OBVIOUS
    <2>1. \A p \in Publishers : publisher[p].step \in Locking => HoldsLock(p)
      BY DEF Typed, Engaged, EngagedPublisher, HoldsLock, Locking
    <2> QED
      BY <2>1 DEF LockInv, LocksApart, SlotsApart, SameSlot
  <1>2. Typed /\ LockInv /\ [Next]_vars => (Typed /\ LockInv)'
    BY TypedNext, LockNext
  <1>3. [Next]_vars /\ DocsApart' /\ SlotsApart'
        => [Next /\ (DocsApart /\ SlotsApart)']_vars
    OBVIOUS
  <1>4. Spec /\ []DocsApart => ApartSpec
    BY <1>1, <1>2, <1>3, TypeInit, LockInvInit, PTL DEF Spec, ApartSpec
  <1> QED
    BY <1>4, DisagreementsAreCoveredAlways, PTL
=============================================================================
