-------------------------- MODULE IngestionProofs --------------------------
(* Theorems about Ingestion, for every value of its constants.             *)
EXTENDS Ingestion, TLAPS

-----------------------------------------------------------------------------
(* Types *)

\* A worker that is not idle has a job.
LEMMA WorkerHasJob ==
  ASSUME TypeOK, NEW w \in Workers, worker[w].step # "idle"
  PROVE  worker[w].job \in Jobs
  BY DEF TypeOK, Attempt

\* What the workers' variable satisfies.
WorkersTyped ==
  /\ worker \in [Workers -> Attempt]
  /\ \A w \in Workers : worker[w].step = "idle" <=> worker[w].job = NoJob

LEMMA UpdateJobType ==
  ASSUME TypeOK, NEW j \in Jobs, NEW row \in Job, UpdateJob(j, row)
  PROVE  job' \in [Jobs -> Job]
  BY DEF TypeOK, UpdateJob

LEMMA UpdateDocType ==
  ASSUME TypeOK, NEW j \in Jobs, NEW row \in Document, UpdateDoc(j, row)
  PROVE  doc' \in [Jobs -> Document]
  BY DEF TypeOK, UpdateDoc

LEMMA GotoType ==
  ASSUME TypeOK, NEW w \in Workers, worker[w].step # "idle",
         NEW s \in WorkerStep \ {"idle"}, Goto(w, s)
  PROVE  WorkersTyped'
  BY DEF TypeOK, Goto, WorkersTyped, Attempt

LEMMA GotoWithType ==
  ASSUME TypeOK, NEW w \in Workers, worker[w].step # "idle",
         NEW s \in WorkerStep \ {"idle"}, NEW q \in Quality, GotoWith(w, s, q)
  PROVE  WorkersTyped'
  BY DEF TypeOK, GotoWith, WorkersTyped, Attempt

LEMMA LeaveType ==
  ASSUME TypeOK, NEW w \in Workers, Leave(w)
  PROVE  WorkersTyped'
  BY DEF TypeOK, Leave, WorkersTyped, Attempt, NoAttempt, WorkerStep, Quality

LEMMA FaultType ==
  ASSUME TypeOK, Fault
  PROVE  faults' \in 0..MaxFaults
  BY IngestionAssumptions DEF IngestionAssumptions, TypeOK, Fault

LEMMA ControlType ==
  ASSUME TypeOK, Control
  PROVE  controls' \in 0..MaxControls
  BY IngestionAssumptions DEF IngestionAssumptions, TypeOK, Control

\* A row of IngestionJobs stays one when its columns are written.
LEMMA JobRow ==
  ASSUME NEW r \in Job, NEW s \in Status, NEW q \in Quality, NEW n \in Nat
  PROVE  /\ [r EXCEPT !.status = s] \in Job
         /\ [r EXCEPT !.quality = q] \in Job
         /\ [r EXCEPT !.status = s, !.quality = q] \in Job
         /\ [r EXCEPT !.status = s, !.retries = n] \in Job
         /\ [r EXCEPT !.status = s, !.retries = n, !.lock = "none"] \in Job
         /\ [r EXCEPT !.status = s, !.quota = TRUE, !.lock = "none"] \in Job
         /\ [r EXCEPT !.status = s, !.lock = "held"] \in Job
         /\ [r EXCEPT !.lock = "stale"] \in Job
         /\ r.retries + 1 \in Nat
  <1> USE DEF Job
  <1>1. [r EXCEPT !.status = s] \in Job /\ [r EXCEPT !.quality = q] \in Job
    OBVIOUS
  <1>2. [r EXCEPT !.status = s, !.quality = q] \in Job
    OBVIOUS
  <1>3. [r EXCEPT !.status = s, !.retries = n] \in Job
    OBVIOUS
  <1>4. [r EXCEPT !.status = s, !.retries = n, !.lock = "none"] \in Job
    OBVIOUS
  <1>5. [r EXCEPT !.status = s, !.quota = TRUE, !.lock = "none"] \in Job
    OBVIOUS
  <1>6. [r EXCEPT !.status = s, !.lock = "held"] \in Job
    OBVIOUS
  <1>7. [r EXCEPT !.lock = "stale"] \in Job /\ r.retries + 1 \in Nat
    OBVIOUS
  <1> QED
    BY <1>1, <1>2, <1>3, <1>4, <1>5, <1>6, <1>7

LEMMA DocumentRow ==
  ASSUME NEW r \in Document
  PROVE  /\ [r EXCEPT !.exists = TRUE, !.review = "pending_review",
                      !.pub = "draft", !.servable = FALSE] \in Document
         /\ [r EXCEPT !.shared = TRUE] \in Document
         /\ [r EXCEPT !.review = "rejected", !.life = "rejected"] \in Document
         /\ [r EXCEPT !.life = "rejected", !.review = "rejected",
                      !.servable = FALSE, !.pub = "failed"] \in Document
         /\ [r EXCEPT !.review = "approved", !.life = "published",
                      !.pub = "published", !.servable = TRUE] \in Document
         /\ \A s \in PublicationState :
              [r EXCEPT !.pub = s, !.servable = FALSE] \in Document
  BY DEF Document, PublicationState

LEMMA Words ==
  /\ {"pending", "pending_retry", "waiting_quota", "working", "pending_review",
      "failed", "rejected", "published", "deleted"} \subseteq Status
  /\ {"none", "ready", "blocked"} \subseteq Quality
  BY DEF Status, Unfinished, Waiting, Finished, Quality

LEMMA TypeInit == Init => TypeOK
  BY IngestionAssumptions, Words
  DEF IngestionAssumptions, Init, TypeOK, Job, Document, NoDocument,
      PublicationState, Attempt, NoAttempt, WorkerStep, PublicationStep, Quality

\* What a worker does to the row of its job keeps the rows typed.
LEMMA WorkType ==
  ASSUME TypeOK, NEW w \in Workers, Work(w)
  PROVE  TypeOK'
  <1> DEFINE j == worker[w].job
  <1> USE DEF At
  <1>1. worker[w].step # "idle"
    BY DEF Work, Classify, Reset, ResetRefused, Clear, Extract, Index, IndexNothing,
           Persist, Report, Complete, Rollback, MarkDocumentFailed, FailReport,
           MarkJobFailed
  <1>2. /\ j \in Jobs /\ job[j] \in Job /\ doc[j] \in Document
        /\ worker[w].quality \in Quality
    BY <1>1, WorkerHasJob DEF TypeOK, Attempt
  <1> HIDE DEF j
  <1>3. /\ \A s \in WorkerStep \ {"idle"} : Goto(w, s) => WorkersTyped'
        /\ \A s \in WorkerStep \ {"idle"}, q \in Quality :
             GotoWith(w, s, q) => WorkersTyped'
        /\ Leave(w) => WorkersTyped'
    BY <1>1, GotoType, GotoWithType, LeaveType
  <1>4. /\ \A row \in Job : UpdateJob(j, row) => job' \in [Jobs -> Job]
        /\ \A row \in Document : UpdateDoc(j, row) => doc' \in [Jobs -> Document]
    BY <1>2, UpdateJobType, UpdateDocType
  <1>5. \A s \in Status, q \in Quality, n \in Nat :
          /\ [job[j] EXCEPT !.status = s] \in Job
          /\ [job[j] EXCEPT !.quality = q] \in Job
          /\ [job[j] EXCEPT !.status = s, !.quality = q] \in Job
          /\ [job[j] EXCEPT !.status = s, !.retries = n, !.lock = "none"] \in Job
          /\ job[j].retries + 1 \in Nat
    BY <1>2, JobRow, ZenonT(60)
  <1>6. CASE Classify(w) \/ Extract(w)
    BY <1>3, <1>4, <1>5, <1>6, Words
    DEF Classify, Extract, Progress, TypeOK, WorkersTyped, WorkerStep, j
  <1>7. CASE Reset(w)
    BY <1>2, <1>3, <1>4, <1>7, DocumentRow, Zenon
    DEF Reset, TypeOK, WorkersTyped, WorkerStep, j
  <1>8. CASE ResetRefused(w)
    BY <1>3, <1>8, Words DEF ResetRefused, TypeOK, WorkersTyped, WorkerStep
  <1>9. CASE Clear(w) \/ Index(w) \/ IndexNothing(w) \/ Rollback(w)
    BY <1>2, <1>3, <1>9, Words, ZenonT(60)
    DEF Clear, Index, IndexNothing, Rollback, TypeOK, WorkersTyped, WorkerStep, j
  <1>10. CASE Persist(w)
    BY <1>2, <1>3, <1>4, <1>10, DocumentRow, Zenon
    DEF Persist, TypeOK, WorkersTyped, WorkerStep, j
  <1>11. CASE Report(w)
    BY <1>2, <1>3, <1>4, <1>5, <1>11, Words, ZenonT(60)
    DEF Report, TypeOK, WorkersTyped, WorkerStep, j
  <1>12. CASE Complete(w)
    BY <1>3, <1>4, <1>5, <1>12, Words DEF Complete, TypeOK, WorkersTyped, j
  <1>13. CASE MarkDocumentFailed(w)
    BY <1>2, <1>3, <1>4, <1>13, DocumentRow, Zenon
    DEF MarkDocumentFailed, TypeOK, WorkersTyped, WorkerStep, j
  <1>14. CASE FailReport(w)
    <2>1. [job[j] EXCEPT !.quality = worker[w].quality] \in Job
      BY <1>2, JobRow, Words, Zenon
    <2> QED
      BY <1>3, <1>4, <1>14, <2>1 DEF FailReport, TypeOK, WorkersTyped, WorkerStep, j
  <1>15. CASE MarkJobFailed(w)
    BY <1>3, <1>4, <1>5, <1>15, Words DEF MarkJobFailed, TypeOK, WorkersTyped, j
  <1> QED
    BY <1>6, <1>7, <1>8, <1>9, <1>10, <1>11, <1>12, <1>13, <1>14, <1>15 DEF Work

LEMMA TroubleType ==
  ASSUME TypeOK, NEW w \in Workers, Trouble(w)
  PROVE  TypeOK'
  <1> DEFINE j == worker[w].job
  <1> USE DEF At
  <1>1. worker[w].step # "idle"
    BY DEF Trouble, ResetFails, ClearFails, PersistFails, WriteFails, RollbackFails,
           MarkDocumentFailedFails, WaitForQuota, Crash
  <1>2. j \in Jobs /\ job[j] \in Job /\ doc[j] \in Document
    BY <1>1, WorkerHasJob DEF TypeOK
  <1> HIDE DEF j
  <1>3. /\ \A s \in WorkerStep \ {"idle"} : Goto(w, s) => WorkersTyped'
        /\ \A s \in WorkerStep \ {"idle"}, q \in Quality :
             GotoWith(w, s, q) => WorkersTyped'
        /\ Leave(w) => WorkersTyped'
    BY <1>1, GotoType, GotoWithType, LeaveType
  <1>4. faults' \in 0..MaxFaults
    BY FaultType
    DEF Trouble, ResetFails, ClearFails, PersistFails, WriteFails, RollbackFails,
        MarkDocumentFailedFails, WaitForQuota, Crash
  <1>5. CASE ResetFails(w) \/ ClearFails(w) \/ WriteFails(w) \/ RollbackFails(w)
             \/ MarkDocumentFailedFails(w) \/ Crash(w)
    BY <1>2, <1>3, <1>4, <1>5, Words, Zenon
    DEF ResetFails, ClearFails, WriteFails, RollbackFails, MarkDocumentFailedFails,
        Crash, TypeOK, WorkersTyped, WorkerStep, j
  <1>6. CASE PersistFails(w)
    <2>1. doc' \in [Jobs -> Document]
      BY <1>2, <1>6, DocumentRow, Zenon DEF PersistFails, TypeOK, j
    <2> QED
      BY <1>3, <1>4, <1>6, <2>1 DEF PersistFails, TypeOK, WorkersTyped, WorkerStep
  <1>7. CASE WaitForQuota(w)
    <2>1. [job[j] EXCEPT !.status = "waiting_quota", !.quota = TRUE, !.lock = "none"] \in Job
      BY <1>2, JobRow, Words, Zenon
    <2>2. job' \in [Jobs -> Job]
      BY <1>2, <1>7, <2>1, UpdateJobType DEF WaitForQuota, j
    <2> QED
      BY <1>3, <1>4, <1>7, <2>2 DEF WaitForQuota, TypeOK, WorkersTyped
  <1> QED
    BY <1>5, <1>6, <1>7 DEF Trouble

LEMMA AdministerType ==
  ASSUME TypeOK, NEW j \in Jobs, Administer(j)
  PROVE  TypeOK'
  <1>1. /\ job[j] \in Job /\ doc[j] \in Document
        /\ \A row \in Job : UpdateJob(j, row) => job' \in [Jobs -> Job]
        /\ \A row \in Document : UpdateDoc(j, row) => doc' \in [Jobs -> Document]
    BY UpdateJobType, UpdateDocType DEF TypeOK
  <1>2. \A s \in Status : /\ [job[j] EXCEPT !.status = s] \in Job
                          /\ [job[j] EXCEPT !.status = s, !.retries = 0] \in Job
    BY <1>1, JobRow, Words, Zenon
  <1>3. CASE Requeue(j) \/ Cancel(j) \/ MarkPendingReview(j) \/ RejectJob(j) \/ DeleteJob(j)
    <2>1. job' \in [Jobs -> Job]
      BY <1>1, <1>2, <1>3, Words
      DEF Requeue, Cancel, MarkPendingReview, RejectJob, DeleteJob
    <2> QED
      BY <1>3, <2>1, ControlType
      DEF Requeue, Cancel, MarkPendingReview, RejectJob, DeleteJob, TypeOK
  <1>4. CASE BeginReject(j)
    BY <1>4, ControlType DEF BeginReject, TypeOK
  <1>5. CASE FinishReject(j)
    BY <1>1, <1>2, <1>5, Words, DocumentRow, Zenon DEF FinishReject, TypeOK
  <1>6. CASE RejectFails(j)
    BY <1>6, FaultType DEF RejectFails, TypeOK
  <1> QED
    BY <1>3, <1>4, <1>5, <1>6 DEF Administer

LEMMA PublishType ==
  ASSUME TypeOK, NEW j \in Jobs, Publish(j)
  PROVE  TypeOK'
  <1>1. /\ job[j] \in Job /\ doc[j] \in Document
        /\ \A row \in Job : UpdateJob(j, row) => job' \in [Jobs -> Job]
        /\ \A row \in Document : UpdateDoc(j, row) => doc' \in [Jobs -> Document]
    BY UpdateJobType, UpdateDocType DEF TypeOK
  <1>2. \A s \in PublicationState : SetPub(j, s) => doc' \in [Jobs -> Document]
    BY <1>1, DocumentRow, Zenon DEF SetPub
  <1>3. \A s \in PublicationStep :
          Publishing(j, s) => publication' \in [Jobs -> PublicationStep]
    BY DEF Publishing, TypeOK
  <1>4. CASE RequestPublication(j)
    BY <1>2, <1>3, <1>4, IngestionAssumptions
    DEF RequestPublication, IngestionAssumptions, TypeOK, PublicationState, PublicationStep
  <1>5. CASE Stage(j) \/ Show(j)
    BY <1>2, <1>3, <1>5 DEF Stage, Show, TypeOK, PublicationState, PublicationStep
  <1>6. CASE Finalize(j)
    BY <1>1, <1>3, <1>6, DocumentRow, Zenon DEF Finalize, TypeOK, PublicationStep
  <1>7. CASE MarkJobPublished(j)
    <2>1. job' \in [Jobs -> Job]
      BY <1>1, <1>7, JobRow, Words, Zenon DEF MarkJobPublished, TypeOK
    <2> QED
      BY <1>3, <1>7, <2>1 DEF MarkJobPublished, TypeOK, PublicationStep
  <1>8. CASE FailPublication(j)
    BY <1>2, <1>3, <1>8, FaultType
    DEF FailPublication, TypeOK, PublicationState, PublicationStep
  <1> QED
    BY <1>4, <1>5, <1>6, <1>7, <1>8 DEF Publish

LEMMA TypeNext ==
  ASSUME TypeOK, [Next]_vars
  PROVE  TypeOK'
  <1>1. ASSUME NEW w \in Workers, NEW j \in Jobs, Claim(w, j)
        PROVE  TypeOK'
    <2>1. job[j] \in Job
      BY DEF TypeOK
    <2>2. [job[j] EXCEPT !.status = "working", !.lock = "held"] \in Job
      BY <2>1, JobRow, Words, Zenon
    <2>3. [step |-> "classify", job |-> j, quality |-> "none"] \in Attempt
      BY DEF Attempt, WorkerStep, Quality
    <2>4. WorkersTyped'
      BY <1>1, <2>3, IngestionAssumptions
      DEF Claim, TypeOK, WorkersTyped, IngestionAssumptions
    <2> QED
      BY <1>1, <2>2, <2>4 DEF Claim, TypeOK, WorkersTyped
  <1>2. ASSUME NEW j \in Jobs, LockExpires(j)
        PROVE  TypeOK'
    <2>1. job[j] \in Job
      BY DEF TypeOK
    <2>2. [job[j] EXCEPT !.lock = "stale"] \in Job
      BY <2>1, JobRow, Words, Zenon
    <2> QED
      BY <1>2, <2>2 DEF LockExpires, TypeOK
  <1>3. CASE UNCHANGED vars
    BY <1>3 DEF vars, TypeOK
  <1> QED
    BY <1>1, <1>2, <1>3, WorkType, TroubleType, AdministerType, PublishType DEF Next

\* Every row of IngestionJobs and of TaiLieu holds one of the words its columns
\* allow and every busy worker has a job, whatever the number of jobs, workers,
\* retries, faults and operations.
THEOREM IngestionTypes == Spec => []TypeOK
  BY TypeInit, TypeNext, PTL DEF Spec

-----------------------------------------------------------------------------
(* The lease *)

\* The job somebody runs carries a lease and has retries left, unless it was
\* deleted; a job that waits or has failed carries none.
Leased ==
  /\ \A w \in Workers : \A j \in Jobs :
       Running(w, j) /\ job[j].status # "deleted" =>
         job[j].lock = "held" /\ job[j].retries < MaxRetry
  /\ \A j \in Jobs : job[j].status \in Waiting \cup {"failed"} => job[j].lock = "none"

LeaseInv == OneWorker /\ Recoverable /\ Leased

\* Nobody has taken up a job in this step.
NoneTakenUp ==
  \A w \in Workers : worker'[w].job = worker[w].job \/ worker'[w].job = NoJob

LEMMA LeaseInit == Init => LeaseInv
  BY IngestionAssumptions
  DEF IngestionAssumptions, Init, LeaseInv, OneWorker, Recoverable, Leased, Running,
      NoAttempt, Waiting, Unfinished

LEMMA Idle == NoJob \notin Jobs
  BY IngestionAssumptions DEF IngestionAssumptions

LEMMA LeaseQuiet ==
  ASSUME LeaseInv, NoneTakenUp, UNCHANGED job
  PROVE  LeaseInv'
  BY Idle DEF LeaseInv, OneWorker, Recoverable, Leased, Running, NoneTakenUp

\* A write of the status that leaves lease and retries alone, and that calls a
\* job worked on only if it carries a lease and has retries left.
LEMMA LeaseKept ==
  ASSUME TypeOK, LeaseInv, NoneTakenUp, NEW j \in Jobs, NEW row \in Job,
         UpdateJob(j, row), row.lock = job[j].lock, row.retries = job[j].retries,
         \/ row.status = job[j].status
         \/ row.status \in {"pending_review", "published", "rejected", "deleted"}
         \/ row.status = "working" /\ \E w \in Workers : Running(w, j)
  PROVE  LeaseInv'
  <1>1. CASE job[j].status = "deleted"
    BY <1>1, LeaseQuiet DEF UpdateJob, TypeOK
  <1>2. CASE job[j].status # "deleted"
    <2>1. job' = [job EXCEPT ![j] = row]
      BY <1>2 DEF UpdateJob
    <2>2. /\ \A k \in Jobs \ {j} : job'[k] = job[k]
          /\ job'[j] = row
      BY <2>1 DEF TypeOK
    <2>3. OneWorker'
      BY <1>2, <2>2, Idle DEF LeaseInv, OneWorker, Running, NoneTakenUp
    <2>4. Recoverable'
      BY <1>2, <2>2 DEF LeaseInv, Recoverable, Leased, Unfinished, Waiting
    <2>5. Leased'
      BY <1>2, <2>2, Idle DEF LeaseInv, Leased, Running, NoneTakenUp, Waiting
    <2> QED
      BY <2>3, <2>4, <2>5 DEF LeaseInv
  <1> QED
    BY <1>1, <1>2

\* A failed attempt gives the lease back, to a job that waits only if it has
\* retries left, and its worker leaves.
LEMMA LeaseReleased ==
  ASSUME TypeOK, LeaseInv, NEW w \in Workers, worker[w].step # "idle", Leave(w),
         NEW row \in Job, UpdateJob(worker[w].job, row), row.lock = "none",
         row.status \in {"pending_retry", "waiting_quota", "failed"},
         \/ row.status = "failed"
         \/ row.retries < MaxRetry
         \/ row.retries = job[worker[w].job].retries
  PROVE  LeaseInv'
  <1> DEFINE j == worker[w].job
  <1>1. j \in Jobs
    BY WorkerHasJob
  <1>2. /\ worker'[w].job = NoJob
        /\ \A v \in Workers \ {w} : worker'[v] = worker[v]
    BY DEF Leave, NoAttempt, TypeOK
  <1>3. NoneTakenUp
    BY <1>2 DEF NoneTakenUp
  <1>4. CASE job[j].status = "deleted"
    BY <1>1, <1>3, <1>4, LeaseQuiet DEF UpdateJob, TypeOK
  <1>5. CASE job[j].status # "deleted"
    <2>1. job' = [job EXCEPT ![j] = row]
      BY <1>5 DEF UpdateJob
    <2>2. /\ \A k \in Jobs \ {j} : job'[k] = job[k]
          /\ job'[j] = row
      BY <1>1, <2>1 DEF TypeOK
    <2>3. \A v \in Workers : worker'[v].job # j
      BY <1>1, <1>2, <1>5, Idle DEF LeaseInv, OneWorker, Running
    <2>4. row.status \in Unfinished => row.retries < MaxRetry
      BY <1>1, <1>5 DEF LeaseInv, Leased, Running, Unfinished, Waiting
    <2> HIDE DEF j
    <2>5. OneWorker'
      BY <1>3, <2>2, <2>3, Idle DEF LeaseInv, OneWorker, Running, NoneTakenUp
    <2>6. Recoverable'
      BY <2>2, <2>4 DEF LeaseInv, Recoverable, Unfinished, Waiting
    <2>7. Leased'
      BY <1>3, <2>2, <2>3, Idle DEF LeaseInv, Leased, Running, NoneTakenUp
    <2> QED
      BY <2>5, <2>6, <2>7 DEF LeaseInv
  <1> QED
    BY <1>4, <1>5

\* A step of an attempt takes up no other job.
LEMMA WorkLeaves ==
  ASSUME TypeOK, NEW w \in Workers, Work(w) \/ Trouble(w)
  PROVE  NoneTakenUp
  <1>1. worker[w].quality \in Quality
    BY DEF TypeOK, Attempt
  <1>2. \/ \E s \in WorkerStep : Goto(w, s) \/ \E q \in Quality : GotoWith(w, s, q)
        \/ Leave(w)
    BY <1>1
    DEF Work, Classify, Reset, ResetRefused, Clear, Extract, Index, IndexNothing,
        Persist, Report, Complete, Rollback, MarkDocumentFailed, FailReport,
        MarkJobFailed, Trouble, ResetFails, ClearFails, PersistFails, WriteFails,
        RollbackFails, MarkDocumentFailedFails, WaitForQuota, Crash, WorkerStep, Quality
  <1>3. worker \in [Workers -> Attempt]
    BY DEF TypeOK
  <1>4. ASSUME NEW s \in WorkerStep, Goto(w, s)
        PROVE  NoneTakenUp
    BY <1>3, <1>4 DEF Goto, NoneTakenUp, Attempt
  <1>5. ASSUME NEW s \in WorkerStep, NEW q \in Quality, GotoWith(w, s, q)
        PROVE  NoneTakenUp
    BY <1>3, <1>5 DEF GotoWith, NoneTakenUp, Attempt
  <1>6. CASE Leave(w)
    BY <1>3, <1>6 DEF Leave, NoAttempt, NoneTakenUp
  <1> QED
    BY <1>2, <1>4, <1>5, <1>6

LEMMA LeaseWork ==
  ASSUME TypeOK, LeaseInv, NEW w \in Workers, Work(w) \/ Trouble(w)
  PROVE  LeaseInv'
  <1> DEFINE j == worker[w].job
  <1> USE DEF At
  <1>1. worker[w].step # "idle"
    BY DEF Work, Classify, Reset, ResetRefused, Clear, Extract, Index, IndexNothing,
           Persist, Report, Complete, Rollback, MarkDocumentFailed, FailReport,
           MarkJobFailed, Trouble, ResetFails, ClearFails, PersistFails, WriteFails,
           RollbackFails, MarkDocumentFailedFails, WaitForQuota, Crash
  <1>2. j \in Jobs /\ job[j] \in Job /\ worker[w].quality \in Quality
    BY <1>1, WorkerHasJob DEF TypeOK, Attempt
  <1>3. NoneTakenUp
    BY WorkLeaves
  <1>4. \A s \in Status, q \in Quality, n \in Nat :
          /\ [job[j] EXCEPT !.status = s] \in Job
          /\ [job[j] EXCEPT !.quality = q] \in Job
          /\ [job[j] EXCEPT !.status = s, !.quality = q] \in Job
          /\ [job[j] EXCEPT !.status = s, !.retries = n, !.lock = "none"] \in Job
          /\ [job[j] EXCEPT !.status = s, !.quota = TRUE, !.lock = "none"] \in Job
          /\ job[j].retries + 1 \in Nat
    BY <1>2, JobRow, Zenon
  <1>5. \E v \in Workers : Running(v, j)
    BY DEF Running
  <1>6. CASE UNCHANGED job
    BY <1>3, <1>6, LeaseQuiet
  <1>7. CASE Classify(w) \/ Extract(w)
    <2> DEFINE row == [job[j] EXCEPT !.status = "working"]
    <2>1. UpdateJob(j, row)
      BY <1>7 DEF Classify, Extract, Progress
    <2>2. /\ row \in Job /\ row.status = "working"
          /\ row.lock = job[j].lock /\ row.retries = job[j].retries
      BY <1>2, <1>4, Words, Zenon DEF Job
    <2> QED
      BY <1>2, <1>3, <1>5, <2>1, <2>2, LeaseKept
  <1>8. CASE Report(w)
    <2> DEFINE row == [job[j] EXCEPT !.status = "working", !.quality = worker[w].quality]
    <2>1. UpdateJob(j, row)
      BY <1>8 DEF Report
    <2>2. /\ row \in Job /\ row.status = "working"
          /\ row.lock = job[j].lock /\ row.retries = job[j].retries
      BY <1>2, <1>4, Words, Zenon DEF Job
    <2> QED
      BY <1>2, <1>3, <1>5, <2>1, <2>2, LeaseKept
  <1>9. CASE Complete(w)
    <2> DEFINE row == [job[j] EXCEPT !.status = "pending_review"]
    <2>1. UpdateJob(j, row)
      BY <1>9 DEF Complete
    <2>2. /\ row \in Job /\ row.status = "pending_review"
          /\ row.lock = job[j].lock /\ row.retries = job[j].retries
      BY <1>2, <1>4, Words, Zenon DEF Job
    <2> QED
      BY <1>2, <1>3, <2>1, <2>2, LeaseKept
  <1>10. CASE FailReport(w)
    <2> DEFINE row == [job[j] EXCEPT !.quality = worker[w].quality]
    <2>1. UpdateJob(j, row)
      BY <1>10 DEF FailReport
    <2>2. /\ row \in Job /\ row.status = job[j].status
          /\ row.lock = job[j].lock /\ row.retries = job[j].retries
      BY <1>2, <1>4, Words, Zenon DEF Job
    <2> QED
      BY <1>2, <1>3, <2>1, <2>2, LeaseKept
  <1>11. CASE MarkJobFailed(w)
    <2>1. PICK s \in {"failed", "pending_retry"} :
            /\ s = "pending_retry" => job[j].retries + 1 < MaxRetry
            /\ UpdateJob(j, [job[j] EXCEPT !.status = s, !.retries = job[j].retries + 1,
                                           !.lock = "none"])
      BY <1>11 DEF MarkJobFailed
    <2> DEFINE row == [job[j] EXCEPT !.status = s, !.retries = job[j].retries + 1,
                                     !.lock = "none"]
    <2>2. row \in Job
      BY <1>4, Words, Zenon
    <2>3. row.status = s /\ row.lock = "none" /\ row.retries = job[j].retries + 1
      BY <1>2 DEF Job
    <2>4. Leave(w)
      BY <1>11 DEF MarkJobFailed
    <2> QED
      BY <1>1, <2>1, <2>2, <2>3, <2>4, LeaseReleased
  <1>12. CASE WaitForQuota(w)
    <2> DEFINE row == [job[j] EXCEPT !.status = "waiting_quota", !.quota = TRUE,
                                     !.lock = "none"]
    <2>1. UpdateJob(j, row) /\ Leave(w)
      BY <1>12 DEF WaitForQuota
    <2>2. /\ row \in Job /\ row.status = "waiting_quota" /\ row.lock = "none"
          /\ row.retries = job[j].retries
      BY <1>2, <1>4, Words, ZenonT(60) DEF Job
    <2> QED
      BY <1>1, <2>1, <2>2, LeaseReleased, Zenon
  <1> QED
    BY <1>6, <1>7, <1>8, <1>9, <1>10, <1>11, <1>12
    DEF Work, Trouble, Reset, ResetRefused, Clear, Index, IndexNothing, Persist,
        Rollback, MarkDocumentFailed, ResetFails, ClearFails, PersistFails, WriteFails,
        RollbackFails, MarkDocumentFailedFails, Crash

LEMMA LeaseAdminister ==
  ASSUME TypeOK, LeaseInv, NEW j \in Jobs, Administer(j) \/ Publish(j)
  PROVE  LeaseInv'
  <1>1. job[j] \in Job /\ NoneTakenUp
    BY DEF TypeOK, NoneTakenUp, Administer, Publish, Requeue, Cancel, MarkPendingReview,
           RejectJob, DeleteJob, BeginReject, FinishReject, RejectFails,
           RequestPublication, Stage, Show, Finalize, MarkJobPublished, FailPublication
  <1>2. CASE UNCHANGED job
    BY <1>1, <1>2, LeaseQuiet
  <1>3. ASSUME NEW s \in {"pending_review", "published", "rejected", "deleted"},
               UpdateJob(j, [job[j] EXCEPT !.status = s])
        PROVE  LeaseInv'
    <2> DEFINE row == [job[j] EXCEPT !.status = s]
    <2>1. row \in Job
      BY <1>1, JobRow, Words, Zenon
    <2>2. row.status = s /\ row.lock = job[j].lock /\ row.retries = job[j].retries
      BY <1>1 DEF Job
    <2> HIDE DEF row
    <2>3. UpdateJob(j, row)
      BY <1>3 DEF row
    <2> QED
      BY <1>1, <2>1, <2>2, <2>3, LeaseKept
  <1>4. CASE Requeue(j)
    <2>1. job[j].status \in {"failed", "rejected"} /\ job[j].lock = "none"
      BY <1>4 DEF Requeue, Unlocked
    <2>2. job' = [job EXCEPT ![j] = [@ EXCEPT !.status = "pending", !.retries = 0]]
      BY <1>4, <2>1 DEF Requeue, UpdateJob
    <2>3. /\ \A k \in Jobs \ {j} : job'[k] = job[k]
          /\ job'[j].status = "pending" /\ job'[j].retries = 0 /\ job'[j].lock = "none"
      BY <1>1, <2>1, <2>2 DEF TypeOK, Job
    <2>4. \A w \in Workers : worker'[w].job # j
      BY <1>1, <2>1, Idle DEF LeaseInv, Leased, Running, NoneTakenUp
    <2>5. OneWorker'
      BY <1>1, <2>3, <2>4, Idle DEF LeaseInv, OneWorker, Running, NoneTakenUp
    <2>6. Recoverable'
      BY <2>3, IngestionAssumptions
      DEF LeaseInv, Recoverable, Unfinished, Waiting, IngestionAssumptions
    <2>7. Leased'
      BY <1>1, <2>3, <2>4, Idle DEF LeaseInv, Leased, Running, NoneTakenUp
    <2> QED
      BY <2>5, <2>6, <2>7 DEF LeaseInv
  <1> QED
    BY <1>2, <1>3, <1>4
    DEF Administer, Publish, Cancel, MarkPendingReview, RejectJob, DeleteJob,
        BeginReject, FinishReject, RejectFails, RequestPublication, Stage, Show,
        Finalize, MarkJobPublished, FailPublication

LEMMA LeaseClaim ==
  ASSUME TypeOK, LeaseInv, NEW w \in Workers, NEW j \in Jobs, Claim(w, j)
  PROVE  LeaseInv'
  <1>1. \A v \in Workers : worker[v].job # j
    BY DEF Claim, Claimable, LockFree, LeaseInv, Leased, Running, Waiting
  <1>2. job[j].retries < MaxRetry
    BY DEF Claim, Claimable, LeaseInv, Recoverable, Unfinished, Waiting
  <1>3. /\ job' = [job EXCEPT ![j] = [@ EXCEPT !.status = "working", !.lock = "held"]]
        /\ worker' = [worker EXCEPT ![w] = [step |-> "classify", job |-> j,
                                            quality |-> "none"]]
    BY DEF Claim
  <1>4. /\ \A k \in Jobs \ {j} : job'[k] = job[k]
        /\ job'[j].status = "working" /\ job'[j].lock = "held"
        /\ job'[j].retries = job[j].retries
    BY <1>3 DEF TypeOK, Job
  <1>5. worker'[w].job = j /\ \A v \in Workers \ {w} : worker'[v] = worker[v]
    BY <1>3 DEF TypeOK
  <1>6. OneWorker'
    BY <1>1, <1>4, <1>5 DEF LeaseInv, OneWorker, Running
  <1>7. Recoverable'
    BY <1>2, <1>4 DEF LeaseInv, Recoverable
  <1>8. Leased'
    BY <1>1, <1>2, <1>4, <1>5 DEF LeaseInv, Leased, Running, Waiting
  <1> QED
    BY <1>6, <1>7, <1>8 DEF LeaseInv

LEMMA LeaseExpires ==
  ASSUME ~SlowWorkers, TypeOK, LeaseInv, NEW j \in Jobs, LockExpires(j)
  PROVE  LeaseInv'
  <1>1. \A w \in Workers : worker'[w].job = worker[w].job /\ worker[w].job # j
    BY DEF LockExpires
  <1>2. job[j].lock = "held" /\ job' = [job EXCEPT ![j].lock = "stale"]
    BY DEF LockExpires
  <1>3. /\ \A k \in Jobs \ {j} : job'[k] = job[k]
        /\ job'[j].status = job[j].status /\ job'[j].lock = "stale"
        /\ job'[j].retries = job[j].retries
    BY <1>2 DEF TypeOK, Job
  <1>4. OneWorker'
    BY <1>1, <1>3 DEF LeaseInv, OneWorker, Running
  <1>5. Recoverable'
    BY <1>3 DEF LeaseInv, Recoverable
  <1>6. Leased'
    BY <1>1, <1>2, <1>3 DEF LeaseInv, Leased, Running
  <1> QED
    BY <1>4, <1>5, <1>6 DEF LeaseInv

LEMMA LeaseNext ==
  ASSUME ~SlowWorkers, TypeOK, LeaseInv, [Next]_vars
  PROVE  LeaseInv'
  <1>1. CASE UNCHANGED vars
    BY <1>1, LeaseQuiet DEF vars, NoneTakenUp
  <1> QED
    BY <1>1, LeaseWork, LeaseAdminister, LeaseClaim, LeaseExpires DEF Next

LEMMA LeaseAlways ==
  ASSUME ~SlowWorkers
  PROVE  Spec => []LeaseInv
  <1>1. TypeOK /\ LeaseInv /\ [Next]_vars => LeaseInv'
    BY LeaseNext
  <1> QED
    BY <1>1, LeaseInit, IngestionTypes, PTL DEF Spec

\* While attempts end within their lease, no job is processed twice at a time:
\* not after a crash, a requeue, a rejection or a publication in between, with
\* any number of workers.
THEOREM OneWorkerPerJob ==
  ASSUME ~SlowWorkers
  PROVE  Spec => []OneWorker
  <1>1. LeaseInv => OneWorker
    BY DEF LeaseInv
  <1> QED
    BY <1>1, LeaseAlways, PTL

\* While attempts end within their lease, every unfinished job can be taken up
\* again: it never waits with its retries used up, and never counts as being
\* worked on without a lease that runs out.
THEOREM JobsRecoverable ==
  ASSUME ~SlowWorkers
  PROVE  Spec => []Recoverable
  <1>1. LeaseInv => Recoverable
    BY DEF LeaseInv
  <1> QED
    BY <1>1, LeaseAlways, PTL

-----------------------------------------------------------------------------
(* Published documents have points *)

\* One worker runs a job, deleted or not: nobody takes up a deleted job.
Alone ==
  \A v, w \in Workers : \A j \in Jobs : Running(v, j) /\ Running(w, j) => v = w

\* Once a document can be published, its points are complete and stay: an attempt
\* still under way only reports, and a job that nobody runs is finished and locked.
Prepared(j) ==
  /\ publication[j] # "idle" \/ doc[j].servable => doc[j].shared
  /\ \A w \in Workers : Running(w, j) /\ worker[w].step = "persist" => indexed[j]
  /\ doc[j].shared =>
       /\ indexed[j]
       /\ \A w \in Workers : Running(w, j) => worker[w].step \in {"report", "complete"}
       /\ job[j].status # "deleted" =>
            /\ job[j].lock # "none"
            /\ job[j].status \in Unfinished => \E w \in Workers : Running(w, j)

PreparedInv == Alone /\ (faults = 0 => \A j \in Jobs : Prepared(j))

\* What a step on another document leaves as it is.
Untouched(k) ==
  /\ job'[k] = job[k] /\ doc'[k] = doc[k] /\ indexed'[k] = indexed[k]
  /\ publication'[k] = publication[k]
  /\ \A v \in Workers : Running(v, k) \/ Running(v, k)' => worker'[v] = worker[v]

LEMMA PreparedInit == Init => PreparedInv
  BY Idle DEF Init, PreparedInv, Alone, Prepared, Running, NoAttempt, NoDocument

LEMMA PreparedElsewhere ==
  ASSUME NEW k \in Jobs, Prepared(k), Untouched(k)
  PROVE  Prepared(k)'
  <1>1. \A v \in Workers : /\ Running(v, k) <=> Running(v, k)'
                           /\ Running(v, k) => worker'[v] = worker[v]
    BY DEF Untouched, Running
  <1> QED
    BY <1>1 DEF Prepared, Untouched

LEMMA AloneKept ==
  ASSUME Alone, NoneTakenUp
  PROVE  Alone'
  BY Idle DEF Alone, NoneTakenUp, Running

\* A failed call is one: nothing is claimed from then on.
LEMMA FaultCounts ==
  ASSUME TypeOK, Fault
  PROVE  faults' # 0
  BY IngestionAssumptions DEF TypeOK, Fault, IngestionAssumptions

\* Which writes of a document's row keep its departments and serve it or not.
LEMMA DocumentFields ==
  ASSUME NEW r \in Document
  PROVE  /\ LET n == [r EXCEPT !.exists = TRUE, !.review = "pending_review",
                               !.pub = "draft", !.servable = FALSE]
            IN n.shared = r.shared /\ ~n.servable
         /\ LET n == [r EXCEPT !.review = "rejected", !.life = "rejected"]
            IN n.shared = r.shared /\ n.servable = r.servable
         /\ LET n == [r EXCEPT !.life = "rejected", !.review = "rejected",
                               !.servable = FALSE, !.pub = "failed"]
            IN n.shared = r.shared /\ ~n.servable
         /\ LET n == [r EXCEPT !.review = "approved", !.life = "published",
                               !.pub = "published", !.servable = TRUE]
            IN n.shared = r.shared
         /\ \A s : LET n == [r EXCEPT !.pub = s, !.servable = FALSE]
                   IN n.shared = r.shared /\ ~n.servable
  BY DEF Document

\* An attempt that has not come to its report runs on a document that cannot be published.
LEMMA PreparedEarly ==
  ASSUME NEW w \in Workers, NEW j \in Jobs, Running(w, j), Alone, Prepared(j),
         worker[w].step \notin {"report", "complete"},
         \A v \in Workers \ {w} : worker'[v] = worker[v],
         worker'[w].step = "persist" => indexed'[j],
         publication'[j] = publication[j],
         doc'[j].shared = doc[j].shared, doc'[j].servable => doc[j].servable
  PROVE  Prepared(j)'
  <1>1. ~doc[j].shared
    BY DEF Prepared
  <1>2. \A v \in Workers \ {w} : ~Running(v, j)'
    BY DEF Alone, Running
  <1> QED
    BY <1>1, <1>2 DEF Prepared

LEMMA PreparedWork ==
  ASSUME TypeOK, LeaseInv, PreparedInv, NEW w \in Workers, Work(w), faults = 0
  PROVE  \A k \in Jobs : Prepared(k)'
  <1> USE DEF At
  <1>1. worker[w].step # "idle"
    BY DEF Work, Classify, Reset, ResetRefused, Clear, Extract, Index, IndexNothing,
           Persist, Report, Complete, Rollback, MarkDocumentFailed, FailReport,
           MarkJobFailed
  <1>0. PICK j \in Jobs : worker[w].job = j
    BY <1>1, WorkerHasJob
  <1>2. job[j] \in Job /\ doc[j] \in Document /\ worker[w].quality \in Quality
    BY DEF TypeOK, Attempt
  <1>3. Alone /\ Running(w, j) /\ \A k \in Jobs : Prepared(k)
    BY <1>0 DEF PreparedInv, Running
  <1>4. /\ worker \in [Workers -> Attempt] /\ job \in [Jobs -> Job]
        /\ doc \in [Jobs -> Document] /\ indexed \in [Jobs -> BOOLEAN]
    BY DEF TypeOK
  <1>5. /\ \A s : Goto(w, s) => worker'[w].step = s /\ worker'[w].job = j
        /\ \A s, q : GotoWith(w, s, q) => worker'[w].step = s /\ worker'[w].job = j
        /\ Leave(w) => worker'[w] = NoAttempt
    BY <1>0, <1>4 DEF Goto, GotoWith, Leave, Attempt
  <1>6. \A s, q : Goto(w, s) \/ GotoWith(w, s, q) \/ Leave(w) =>
          \A v \in Workers \ {w} : worker'[v] = worker[v]
    BY <1>4 DEF Goto, GotoWith, Leave
  <1>7. \A v \in Workers \ {w} : worker'[v] = worker[v]
    BY <1>6
    DEF Work, Classify, Reset, ResetRefused, Clear, Extract, Index, IndexNothing,
        Persist, Report, Complete, Rollback, MarkDocumentFailed, FailReport, MarkJobFailed
  <1>8. worker'[w].job \in {j, NoJob}
    BY <1>5
    DEF Work, Classify, Reset, ResetRefused, Clear, Extract, Index, IndexNothing,
        Persist, Report, Complete, Rollback, MarkDocumentFailed, FailReport,
        MarkJobFailed, NoAttempt
  <1>9. /\ \A row : UpdateJob(j, row) => \A k \in Jobs \ {j} : job'[k] = job[k]
        /\ \A row : UpdateDoc(j, row) => doc'[j] = row /\ \A k \in Jobs \ {j} : doc'[k] = doc[k]
    BY <1>2, <1>4 DEF UpdateJob, UpdateDoc
  <1>10. ASSUME NEW k \in Jobs, k # j
         PROVE  Untouched(k)
    <2>1. \A v \in Workers : Running(v, k) \/ Running(v, k)' => worker'[v] = worker[v]
      BY <1>3, <1>7, <1>8, <1>10, Idle DEF Running
    <2>2. job'[k] = job[k]
      BY <1>0, <1>9, <1>10
      DEF Work, Classify, Progress, Reset, ResetRefused, Clear, Extract, Index,
          IndexNothing, Persist, Report, Complete, Rollback, MarkDocumentFailed,
          FailReport, MarkJobFailed
    <2>3. doc'[k] = doc[k]
      BY <1>0, <1>9, <1>10
      DEF Work, Classify, Reset, ResetRefused, Clear, Extract, Index,
          IndexNothing, Persist, Report, Complete, Rollback, MarkDocumentFailed,
          FailReport, MarkJobFailed
    <2>4. indexed'[k] = indexed[k] /\ publication'[k] = publication[k]
      BY <1>0, <1>4, <1>10
      DEF Work, Classify, Reset, ResetRefused, Clear, Extract, Index,
          IndexNothing, Persist, Report, Complete, Rollback, MarkDocumentFailed,
          FailReport, MarkJobFailed
    <2> QED
      BY <2>1, <2>2, <2>3, <2>4 DEF Untouched
  <1>11. Prepared(j)'
    <2>1. CASE Persist(w)
      <3>1. /\ worker[w].step = "persist" /\ worker'[w].step = "report"
            /\ UNCHANGED <<job, indexed, publication>>
        BY <1>5, <2>1 DEF Persist
      <3>2. indexed[j] /\ Running(w, j)'
        BY <1>0, <1>2, <1>3, <1>5, <2>1, <3>1 DEF Prepared, Persist, Running
      <3>3. job[j].status # "deleted" => job[j].lock # "none"
        BY <1>2, <1>3 DEF LeaseInv, Leased
      <3>4. \A v \in Workers : Running(v, j)' => v = w
        BY <1>2, <1>3, <1>7 DEF Alone, Running
      <3>5. doc'[j].shared
        BY <1>0, <1>2, <1>9, <2>1 DEF Persist, Document
      <3> QED
        BY <3>1, <3>2, <3>3, <3>4, <3>5 DEF Prepared
    <2>2. CASE Report(w)
      <3>1. worker'[w].step = "complete" /\ UNCHANGED <<doc, indexed, publication>>
        BY <1>5, <2>2 DEF Report
      <3>2. Running(w, j)'
        BY <1>0, <1>5, <2>2 DEF Report, Running
      <3>3. \A v \in Workers : Running(v, j)' => v = w
        BY <1>2, <1>3, <1>7 DEF Alone, Running
      <3>4. job'[j].status = "deleted" <=> job[j].status = "deleted"
        BY <1>0, <1>2, <1>4, <2>2 DEF Report, UpdateJob, Job
      <3>5. job'[j].lock = job[j].lock
        BY <1>0, <1>2, <1>4, <2>2 DEF Report, UpdateJob, Job
      <3> QED
        BY <1>2, <1>3, <3>1, <3>2, <3>3, <3>4, <3>5 DEF Prepared
    <2>3. CASE Complete(w)
      <3>1. UNCHANGED <<doc, indexed, publication>>
        BY <2>3 DEF Complete
      <3>2. \A v \in Workers : ~Running(v, j)'
        BY <1>2, <1>3, <1>5, <1>7, <2>3, Idle DEF Complete, Alone, Running, NoAttempt
      <3>3. job'[j].status \in {"deleted", "pending_review"}
            /\ (job[j].status = "deleted" => job'[j].status = "deleted")
        BY <1>0, <1>2, <1>4, <2>3 DEF Complete, UpdateJob, Job
      <3>4. job'[j].lock = job[j].lock
        BY <1>0, <1>2, <1>4, <2>3 DEF Complete, UpdateJob, Job
      <3> QED
        BY <1>2, <1>3, <3>1, <3>2, <3>3, <3>4 DEF Prepared, Unfinished, Waiting
    <2>4. CASE ~(Persist(w) \/ Report(w) \/ Complete(w))
      <3>1. worker[w].step \notin {"report", "complete"}
        BY <2>4
        DEF Work, Classify, Reset, ResetRefused, Clear, Extract, Index, IndexNothing,
            Rollback, MarkDocumentFailed, FailReport, MarkJobFailed
      <3>2. worker'[w].step = "persist" => indexed'[j]
        BY <1>0, <1>2, <1>4, <1>5, <2>4
        DEF Work, Classify, Reset, ResetRefused, Clear, Extract, Index, IndexNothing,
            Rollback, MarkDocumentFailed, FailReport, MarkJobFailed, NoAttempt
      <3>3. doc'[j].shared = doc[j].shared /\ (doc'[j].servable => doc[j].servable)
        <4>1. CASE Reset(w)
          <5>1. doc'[j] = [doc[j] EXCEPT !.exists = TRUE, !.review = "pending_review",
                                         !.pub = "draft", !.servable = FALSE]
            BY <1>0, <1>4, <4>1 DEF Reset, UpdateDoc
          <5> QED
            BY <1>2, <5>1, DocumentFields
        <4>2. CASE MarkDocumentFailed(w)
          <5>1. doc'[j] = doc[j] \/ doc'[j] = [doc[j] EXCEPT !.review = "rejected",
                                                            !.life = "rejected"]
            BY <1>0, <1>4, <4>2 DEF MarkDocumentFailed, UpdateDoc
          <5> QED
            BY <1>2, <5>1, DocumentFields
        <4>3. CASE UNCHANGED doc
          BY <4>3
        <4> QED
          BY <2>4, <4>1, <4>2, <4>3
          DEF Work, Classify, ResetRefused, Clear, Extract, Index, IndexNothing,
              Rollback, FailReport, MarkJobFailed
      <3>4. publication' = publication
        BY <2>4
        DEF Work, Classify, Reset, ResetRefused, Clear, Extract, Index, IndexNothing,
            Rollback, MarkDocumentFailed, FailReport, MarkJobFailed
      <3> QED
        BY <1>2, <1>3, <1>7, <3>1, <3>2, <3>3, <3>4, PreparedEarly
    <2> QED
      BY <2>1, <2>2, <2>3, <2>4
  <1> QED
    BY <1>3, <1>10, <1>11, PreparedElsewhere

\* A decision on the job or a step of the publication, on a document that can be
\* published: the job is finished by it or stays as it is.
LEMMA PreparedDecided ==
  ASSUME NEW j \in Jobs, Prepared(j), UNCHANGED <<worker, indexed>>,
         doc'[j].shared = doc[j].shared,
         publication'[j] # "idle" \/ doc'[j].servable => doc[j].shared,
         \/ ~doc[j].shared
         \/ job'[j] = job[j]
         \/ /\ job'[j].lock = job[j].lock
            /\ job'[j].status \in {"rejected", "published", "deleted"}
            /\ job[j].status # "deleted"
  PROVE  Prepared(j)'
  <1>1. \A w \in Workers : Running(w, j)' <=> Running(w, j)
    BY DEF Running
  <1> QED
    BY <1>1 DEF Prepared, Unfinished, Waiting

LEMMA PreparedAdminister ==
  ASSUME TypeOK, PreparedInv, NEW j \in Jobs, Administer(j) \/ Publish(j),
         faults = 0, faults' = 0
  PROVE  \A k \in Jobs : Prepared(k)'
  <1>1. /\ \A k \in Jobs : Prepared(k)
        /\ job[j] \in Job /\ doc[j] \in Document
        /\ job \in [Jobs -> Job] /\ doc \in [Jobs -> Document]
        /\ publication \in [Jobs -> PublicationStep]
    BY DEF PreparedInv, TypeOK
  <1>2. /\ \A row : UpdateJob(j, row) => \A k \in Jobs \ {j} : job'[k] = job[k]
        /\ \A row : UpdateDoc(j, row) => doc'[j] = row /\ \A k \in Jobs \ {j} : doc'[k] = doc[k]
        /\ \A s : Publishing(j, s) =>
             publication'[j] = s /\ \A k \in Jobs \ {j} : publication'[k] = publication[k]
    BY <1>1 DEF UpdateJob, UpdateDoc, Publishing
  <1>3. \A s : SetPub(j, s) =>
          /\ doc'[j].shared = doc[j].shared /\ ~doc'[j].servable
          /\ \A k \in Jobs \ {j} : doc'[k] = doc[k]
    <2> SUFFICES ASSUME NEW s, SetPub(j, s)
                 PROVE  /\ doc'[j].shared = doc[j].shared /\ ~doc'[j].servable
                        /\ \A k \in Jobs \ {j} : doc'[k] = doc[k]
      OBVIOUS
    <2>1. /\ doc'[j] = [doc[j] EXCEPT !.pub = s, !.servable = FALSE]
          /\ \A k \in Jobs \ {j} : doc'[k] = doc[k]
      BY <1>1 DEF SetPub, UpdateDoc
    <2>2. LET n == [doc[j] EXCEPT !.pub = s, !.servable = FALSE]
          IN n.shared = doc[j].shared /\ ~n.servable
      BY <1>1, DocumentFields
    <2> QED
      BY <2>1, <2>2
  <1>4. \A s : UpdateJob(j, [job[j] EXCEPT !.status = s]) =>
          /\ job'[j].lock = job[j].lock
          /\ IF job[j].status = "deleted" THEN job'[j] = job[j] ELSE job'[j].status = s
    BY <1>1 DEF UpdateJob, Job
  <1>5. UNCHANGED <<worker, indexed>>
    BY DEF Administer, Publish, Requeue, Cancel, MarkPendingReview, RejectJob, DeleteJob,
           BeginReject, FinishReject, RejectFails, RequestPublication, Stage, Show,
           Finalize, MarkJobPublished, FailPublication
  <1>6. ASSUME NEW k \in Jobs, k # j
        PROVE  Untouched(k)
    <2>1. job'[k] = job[k]
      BY <1>2, <1>6
      DEF Administer, Publish, Requeue, Cancel, MarkPendingReview, RejectJob, DeleteJob,
          BeginReject, FinishReject, RejectFails, RequestPublication, Stage, Show,
          Finalize, MarkJobPublished, FailPublication
    <2>2. doc'[k] = doc[k] /\ publication'[k] = publication[k]
      BY <1>2, <1>3, <1>6
      DEF Administer, Publish, Requeue, Cancel, MarkPendingReview, RejectJob, DeleteJob,
          BeginReject, FinishReject, RejectFails, RequestPublication, Stage, Show,
          Finalize, MarkJobPublished, FailPublication
    <2> QED
      BY <1>5, <2>1, <2>2 DEF Untouched
  <1>7. ASSUME Requeue(j) \/ Cancel(j) \/ MarkPendingReview(j)
       PROVE  Prepared(j)'
    <2>1. job[j].lock = "none" /\ job[j].status # "deleted" /\ UNCHANGED <<doc, publication>>
      BY <1>7 DEF Requeue, Cancel, MarkPendingReview, Unlocked, Waiting
    <2>2. ~doc[j].shared
      BY <1>1, <2>1 DEF Prepared
    <2> QED
      BY <1>1, <1>5, <2>1, <2>2, PreparedDecided DEF Prepared
  <1>8. ASSUME RejectJob(j) \/ DeleteJob(j) \/ BeginReject(j)
       PROVE  Prepared(j)'
    <2>1. UNCHANGED <<doc, publication>>
      BY <1>8 DEF RejectJob, DeleteJob, BeginReject
    <2>2. \/ job'[j] = job[j]
          \/ /\ job'[j].lock = job[j].lock
             /\ job'[j].status \in {"rejected", "deleted"}
             /\ job[j].status # "deleted"
      BY <1>4, <1>8 DEF RejectJob, DeleteJob, BeginReject
    <2> QED
      BY <1>1, <1>5, <2>1, <2>2, PreparedDecided DEF Prepared
  <1>9. ASSUME FinishReject(j)
       PROVE  Prepared(j)'
    <2>1. /\ publication' = publication
          /\ doc'[j].shared = doc[j].shared /\ ~doc'[j].servable
      <3>1. doc'[j] = [doc[j] EXCEPT !.life = "rejected", !.review = "rejected",
                                     !.servable = FALSE, !.pub = "failed"]
        BY <1>1, <1>9 DEF FinishReject, UpdateDoc
      <3> QED
        BY <1>1, <1>9, <3>1, DocumentFields DEF FinishReject
    <2>2. \/ job'[j] = job[j]
          \/ /\ job'[j].lock = job[j].lock
             /\ job'[j].status = "rejected"
             /\ job[j].status # "deleted"
      BY <1>4, <1>9 DEF FinishReject
    <2> QED
      BY <1>1, <1>5, <2>1, <2>2, PreparedDecided DEF Prepared
  <1>10. ASSUME RequestPublication(j) \/ Stage(j) \/ Show(j) \/ FailPublication(j)
        PROVE  Prepared(j)'
    <2>1. job' = job /\ doc[j].shared /\ doc'[j].shared = doc[j].shared
      BY <1>1, <1>3, <1>10
      DEF RequestPublication, Stage, Show, FailPublication, ContractOK, Prepared
    <2> QED
      BY <1>1, <1>5, <2>1, PreparedDecided
  <1>11. ASSUME Finalize(j) \/ MarkJobPublished(j)
        PROVE  Prepared(j)'
    <2>1. doc[j].shared
      BY <1>1, <1>11 DEF Finalize, MarkJobPublished, Prepared
    <2>2. doc'[j].shared = doc[j].shared
      <3>1. doc'[j] = doc[j] \/ doc'[j] = [doc[j] EXCEPT
                !.review = "approved", !.life = "published",
                !.pub = "published", !.servable = TRUE]
        BY <1>1, <1>11 DEF Finalize, MarkJobPublished, UpdateDoc
      <3> QED
        BY <1>1, <3>1, DocumentFields
    <2>3. \/ job'[j] = job[j]
          \/ /\ job'[j].lock = job[j].lock
             /\ job'[j].status = "published"
             /\ job[j].status # "deleted"
      BY <1>4, <1>11 DEF Finalize, MarkJobPublished
    <2> QED
      BY <1>1, <1>5, <2>1, <2>2, <2>3, PreparedDecided
  <1>12. ~RejectFails(j)
    BY FaultCounts DEF RejectFails
  <1>13. Prepared(j)'
    BY <1>7, <1>8, <1>9, <1>10, <1>11, <1>12 DEF Administer, Publish
  <1> QED
    BY <1>1, <1>6, <1>13, PreparedElsewhere

\* A job that can be taken up has no document that can be published.
LEMMA PreparedClaim ==
  ASSUME TypeOK, LeaseInv, PreparedInv, NEW w \in Workers, NEW j \in Jobs, Claim(w, j)
  PROVE  PreparedInv'
  <1>1. \A v \in Workers : worker[v].job # j
    BY DEF Claim, Claimable, LockFree, LeaseInv, Leased, Running, Waiting
  <1>2. worker'[w].job = j /\ worker'[w].step = "classify"
        /\ \A v \in Workers \ {w} : worker'[v] = worker[v]
    BY DEF Claim, TypeOK
  <1>3. worker[w].job = NoJob /\ UNCHANGED <<doc, indexed, publication, faults>>
    BY DEF Claim, At, TypeOK
  <1>4. Alone'
    BY <1>1, <1>2 DEF PreparedInv, Alone, Running
  <1>5. ASSUME faults = 0, NEW k \in Jobs
        PROVE  Prepared(k)'
    <2>1. Prepared(k)
      BY <1>5 DEF PreparedInv
    <2>2. CASE k = j
      <3>1. job[j].status \in Unfinished
        BY DEF Claim, Claimable, Unfinished, Waiting
      <3>2. ~doc[j].shared
        BY <1>1, <2>1, <2>2, <3>1 DEF Prepared, Running, Unfinished, Waiting
      <3>3. \A v \in Workers : Running(v, j)' => worker'[v].step # "persist"
        BY <1>1, <1>2 DEF Running
      <3> QED
        BY <1>3, <2>1, <2>2, <3>2, <3>3 DEF Prepared
    <2>3. CASE k # j
      <3>1. job'[k] = job[k]
        BY <2>3 DEF Claim, TypeOK
      <3>2. \A v \in Workers : Running(v, k) \/ Running(v, k)' => worker'[v] = worker[v]
        BY <1>2, <1>3, <2>3, Idle DEF Running
      <3>3. Untouched(k)
        BY <1>3, <3>1, <3>2 DEF Untouched
      <3> QED
        BY <2>1, <3>3, PreparedElsewhere
    <2> QED
      BY <2>2, <2>3
  <1> QED
    BY <1>3, <1>4, <1>5 DEF PreparedInv

LEMMA PreparedExpires ==
  ASSUME ~SlowWorkers, TypeOK, PreparedInv, NEW j \in Jobs, LockExpires(j)
  PROVE  PreparedInv'
  <1>1. UNCHANGED <<doc, indexed, publication, worker, faults>>
    BY DEF LockExpires
  <1>2. /\ \A k \in Jobs \ {j} : job'[k] = job[k]
        /\ job'[j].lock = "stale" /\ job'[j].status = job[j].status
        /\ job[j].lock = "held"
    BY DEF LockExpires, TypeOK, Job
  <1>3. \A k \in Jobs, w \in Workers : Running(w, k)' <=> Running(w, k)
    BY <1>1 DEF Running
  <1>4. ASSUME faults = 0, NEW k \in Jobs
        PROVE  Prepared(k)'
    <2>1. Prepared(k)
      BY <1>4 DEF PreparedInv
    <2> QED
      BY <1>1, <1>2, <1>3, <2>1 DEF Prepared
  <1> QED
    BY <1>1, <1>3, <1>4 DEF PreparedInv, Alone

LEMMA PreparedNext ==
  ASSUME ~SlowWorkers, TypeOK, LeaseInv, PreparedInv, [Next]_vars
  PROVE  PreparedInv'
  <1>1. ASSUME NEW w \in Workers, Work(w) \/ Trouble(w)
        PROVE  PreparedInv'
    <2>1. Alone'
      BY <1>1, WorkLeaves, AloneKept DEF PreparedInv
    <2>2. CASE Work(w)
      <3>1. UNCHANGED faults
        BY <2>2
        DEF Work, Classify, Reset, ResetRefused, Clear, Extract, Index, IndexNothing,
            Persist, Report, Complete, Rollback, MarkDocumentFailed, FailReport,
            MarkJobFailed
      <3> QED
        BY <2>1, <2>2, <3>1, PreparedWork DEF PreparedInv
    <2>3. CASE Trouble(w)
      <3>1. Fault
        BY <2>3
        DEF Trouble, ResetFails, ClearFails, PersistFails, WriteFails, RollbackFails,
            MarkDocumentFailedFails, WaitForQuota, Crash
      <3> QED
        BY <2>1, <3>1, FaultCounts DEF PreparedInv
    <2> QED
      BY <1>1, <2>2, <2>3
  <1>2. ASSUME NEW j \in Jobs, Administer(j) \/ Publish(j)
        PROVE  PreparedInv'
    <2>1. NoneTakenUp
      BY <1>2
      DEF NoneTakenUp, Administer, Publish, Requeue, Cancel, MarkPendingReview,
          RejectJob, DeleteJob, BeginReject, FinishReject, RejectFails,
          RequestPublication, Stage, Show, Finalize, MarkJobPublished, FailPublication
    <2>2. UNCHANGED faults \/ Fault
      BY <1>2
      DEF Administer, Publish, Requeue, Cancel, MarkPendingReview,
          RejectJob, DeleteJob, BeginReject, FinishReject, RejectFails,
          RequestPublication, Stage, Show, Finalize, MarkJobPublished, FailPublication
    <2>3. faults' = 0 => faults = 0
      BY <2>2, FaultCounts
    <2> QED
      BY <1>2, <2>1, <2>3, AloneKept, PreparedAdminister DEF PreparedInv
  <1>3. CASE UNCHANGED vars
    <2>1. \A k \in Jobs, w \in Workers : Running(w, k)' <=> Running(w, k)
      BY <1>3 DEF vars, Running
    <2>2. \A k \in Jobs : Prepared(k) => Prepared(k)'
      BY <1>3, <2>1 DEF vars, Prepared
    <2> QED
      BY <1>3, <2>1, <2>2 DEF vars, PreparedInv, Alone
  <1> QED
    BY <1>1, <1>2, <1>3, PreparedClaim, PreparedExpires DEF Next

\* While attempts end within their lease and nothing has failed, a document that
\* SQL serves has its points, for any number of jobs, workers, reviews and
\* publications: what was ingested once is not taken up again.
THEOREM PublishedIsIndexedAlways ==
  ASSUME ~SlowWorkers
  PROVE  Spec => []PublishedIsIndexed
  <1>1. TypeOK /\ LeaseInv /\ PreparedInv /\ [Next]_vars => PreparedInv'
    BY PreparedNext
  <1>2. PreparedInv => PublishedIsIndexed
    BY DEF PreparedInv, Prepared, PublishedIsIndexed
  <1> QED
    BY <1>1, <1>2, PreparedInit, LeaseAlways, IngestionTypes, PTL DEF Spec

-----------------------------------------------------------------------------
(* Ingestion implements JobQueue *)

QueueStep == [Queue!QueueNext]_<<Stages, Tries, Hands>>

\* What a write of a job's row is to the queue.
RowAs(j, s, n) ==
  Stages' = [Stages EXCEPT ![j] = s] /\ Tries' = [Tries EXCEPT ![j] = n]

LEMMA WriteAs ==
  ASSUME TypeOK, NEW j \in Jobs, NEW row \in Job, UpdateJob(j, row)
  PROVE  /\ job[j].status = "deleted" => UNCHANGED <<Stages, Tries>>
         /\ job[j].status # "deleted" => RowAs(j, JobStage(row), row.retries)
  <1>1. CASE job[j].status = "deleted"
    <2>1. job' = job
      BY <1>1 DEF UpdateJob, TypeOK
    <2> QED
      BY <1>1, <2>1 DEF Stages, Tries
  <1>2. CASE job[j].status # "deleted"
    <2>1. job'[j] = row /\ \A k \in Jobs \ {j} : job'[k] = job[k]
      BY <1>2 DEF UpdateJob, TypeOK
    <2>2. \A k \in Jobs : JobStage(job[k])' = JobStage(job'[k])
      BY DEF JobStage
    <2>3. Stages' = [k \in Jobs |-> JobStage(job'[k])]
      BY <2>2 DEF Stages
    <2>4. Stages' = [Stages EXCEPT ![j] = JobStage(row)]
      BY <2>1, <2>3 DEF Stages
    <2>5. Tries' = [Tries EXCEPT ![j] = row.retries]
      BY <2>1 DEF Tries
    <2> QED
      BY <1>2, <2>4, <2>5 DEF RowAs
  <1> QED
    BY <1>1, <1>2

LEMMA SameRow ==
  ASSUME NEW j \in Jobs, RowAs(j, JobStage(job[j]), job[j].retries)
  PROVE  UNCHANGED <<Stages, Tries>>
  BY DEF RowAs, Stages, Tries

LEMMA SameJobs ==
  ASSUME UNCHANGED job
  PROVE  UNCHANGED <<Stages, Tries>>
  BY DEF Stages, Tries, JobStage

LEMMA Keeping ==
  ASSUME TypeOK, NEW w \in Workers, NEW s, NEW q, Goto(w, s) \/ GotoWith(w, s, q)
  PROVE  UNCHANGED Hands
  <1>1. worker \in [Workers -> Attempt]
    BY DEF TypeOK
  <1>2. \A v \in Workers : worker'[v].job = worker[v].job
    <2>1. CASE Goto(w, s)
      BY <1>1, <2>1 DEF Goto, Attempt
    <2>2. CASE GotoWith(w, s, q)
      BY <1>1, <2>2 DEF GotoWith, Attempt
    <2> QED
      BY <2>1, <2>2
  <1> QED
    BY <1>2 DEF Hands

LEMMA Leaving ==
  ASSUME TypeOK, NEW w \in Workers, Leave(w)
  PROVE  Hands' = [Hands EXCEPT ![w] = NoJob]
  <1>1. \A v \in Workers : worker'[v].job = IF v = w THEN NoJob ELSE worker[v].job
    BY DEF TypeOK, Leave, NoAttempt
  <1> QED
    BY <1>1 DEF Hands

\* A worker that leaves a deleted job, or dies, drops what it has.
LEMMA Dropping ==
  ASSUME TypeOK, NEW w \in Workers, worker[w].step # "idle", Leave(w),
         UNCHANGED <<Stages, Tries>>
  PROVE  QueueStep
  <1>1. Hands[w] # NoJob
    BY DEF Hands, TypeOK
  <1>2. Hands' = [Hands EXCEPT ![w] = NoJob]
    BY Leaving
  <1>3. Queue!Drop(w)
    BY <1>1, <1>2 DEF Queue!Drop, Queue!PutDown
  <1> QED
    BY <1>3 DEF QueueStep, Queue!QueueNext

LEMMA MapWork ==
  ASSUME TypeOK, LeaseInv, NEW w \in Workers, Work(w) \/ Trouble(w)
  PROVE  QueueStep
  <1> DEFINE j == worker[w].job
  <1> USE DEF At
  <1>1. worker[w].step # "idle"
    BY DEF Work, Classify, Reset, ResetRefused, Clear, Extract, Index, IndexNothing,
           Persist, Report, Complete, Rollback, MarkDocumentFailed, FailReport,
           MarkJobFailed, Trouble, ResetFails, ClearFails, PersistFails, WriteFails,
           RollbackFails, MarkDocumentFailedFails, WaitForQuota, Crash
  <1>2. j \in Jobs /\ job[j] \in Job /\ worker[w].quality \in Quality
    BY <1>1, WorkerHasJob DEF TypeOK, Attempt
  <1>3. /\ Hands[w] = j
        /\ job[j].status # "deleted" =>
             Stages[j] # "deleted" /\ job[j].lock = "held" /\ job[j].retries < MaxRetry
    BY <1>2 DEF Hands, Stages, JobStage, LeaseInv, Leased, Running
  <1>4. \A s \in Status, q \in Quality, n \in Nat :
          /\ [job[j] EXCEPT !.status = s] \in Job
          /\ [job[j] EXCEPT !.quality = q] \in Job
          /\ [job[j] EXCEPT !.status = s, !.quality = q] \in Job
          /\ [job[j] EXCEPT !.status = s, !.retries = n, !.lock = "none"] \in Job
          /\ [job[j] EXCEPT !.status = s, !.quota = TRUE, !.lock = "none"] \in Job
          /\ job[j].retries + 1 \in Nat /\ job[j].retries \in Nat
    <2>1. job[j].retries \in Nat
      BY <1>2 DEF Job
    <2> HIDE DEF j
    <2> QED
      BY <1>2, <2>1, JobRow, Zenon
  <1>5. ASSUME UNCHANGED Hands, NEW row \in Job, UpdateJob(j, row), row.status = "working",
               row.retries = job[j].retries
        PROVE  QueueStep
    <2>1. JobStage(row) = "working"
      BY <1>5 DEF JobStage, Waiting
    <2>2. CASE job[j].status = "deleted"
      BY <1>2, <1>5, <2>2, WriteAs DEF QueueStep
    <2>3. CASE job[j].status # "deleted"
      <3>1. RowAs(j, "working", job[j].retries)
        BY <1>2, <1>5, <2>1, <2>3, WriteAs
      <3>2. Tries' = Tries
        BY <1>2, <3>1 DEF RowAs, Tries
      <3>3. Queue!GoOn(w, j)
        BY <1>3, <1>5, <2>3, <3>1, <3>2 DEF Queue!GoOn, Queue!Has, Queue!SetStage, RowAs
      <3> QED
        BY <1>2, <3>3 DEF QueueStep, Queue!QueueNext
    <2> QED
      BY <2>2, <2>3
  <1>6. CASE UNCHANGED job /\ ~Leave(w)
    <2>1. \E s, q : Goto(w, s) \/ GotoWith(w, s, q)
      BY <1>6
      DEF Work, Classify, Reset, ResetRefused, Clear, Extract, Index, IndexNothing,
          Persist, Report, Complete, Rollback, MarkDocumentFailed, FailReport,
          MarkJobFailed, Trouble, ResetFails, ClearFails, PersistFails, WriteFails,
          RollbackFails, MarkDocumentFailedFails, WaitForQuota, Crash
    <2> QED
      BY <1>6, <2>1, SameJobs, Keeping DEF QueueStep
  <1>7. CASE UNCHANGED job /\ Leave(w)
    BY <1>1, <1>7, SameJobs, Dropping
  <1>8. CASE Classify(w) \/ Extract(w)
    <2> DEFINE row == [job[j] EXCEPT !.status = "working"]
    <2>1. UpdateJob(j, row)
      BY <1>8 DEF Classify, Extract, Progress
    <2>2. row \in Job /\ row.status = "working" /\ row.retries = job[j].retries
      BY <1>2, <1>4, Words, Zenon DEF Job
    <2>3. UNCHANGED Hands
      BY <1>8, Keeping DEF Classify, Extract
    <2> QED
      BY <1>5, <2>1, <2>2, <2>3, Zenon
  <1>9. CASE Report(w)
    <2> DEFINE row == [job[j] EXCEPT !.status = "working", !.quality = worker[w].quality]
    <2>1. UpdateJob(j, row)
      BY <1>9 DEF Report
    <2>2. row \in Job /\ row.status = "working" /\ row.retries = job[j].retries
      BY <1>2, <1>4, Words, Zenon DEF Job
    <2>3. UNCHANGED Hands
      BY <1>9, Keeping DEF Report
    <2> QED
      BY <1>5, <2>1, <2>2, <2>3
  <1>10. CASE Complete(w)
    <2> DEFINE row == [job[j] EXCEPT !.status = "pending_review"]
    <2>1. UpdateJob(j, row) /\ Leave(w)
      BY <1>10 DEF Complete
    <2>2. /\ row \in Job /\ row.status = "pending_review"
          /\ row.retries = job[j].retries /\ row.lock = job[j].lock
      BY <1>2, <1>4, Words, Zenon DEF Job
    <2> HIDE DEF row
    <2>3. CASE job[j].status = "deleted"
      BY <1>1, <1>2, <2>1, <2>2, <2>3, WriteAs, Dropping
    <2>4. CASE job[j].status # "deleted"
      <3>1. JobStage(row) = "shelved"
        BY <1>3, <2>2, <2>4 DEF JobStage, Waiting
      <3>2. RowAs(j, "shelved", job[j].retries)
        BY <1>2, <2>1, <2>2, <2>4, <3>1, WriteAs
      <3>3. Tries' = Tries
        BY <1>2, <3>2 DEF RowAs, Tries
      <3>4. Queue!Finish(w, j)
        BY <1>3, <2>1, <2>4, <3>2, <3>3, Leaving
        DEF Queue!Finish, Queue!Has, Queue!SetStage, Queue!PutDown, RowAs
      <3> QED
        BY <1>2, <3>4 DEF QueueStep, Queue!QueueNext
    <2> QED
      BY <2>3, <2>4
  <1>11. CASE FailReport(w)
    <2> DEFINE row == [job[j] EXCEPT !.quality = worker[w].quality]
    <2>1. UpdateJob(j, row)
      BY <1>11 DEF FailReport
    <2>2. /\ row \in Job /\ row.status = job[j].status
          /\ row.retries = job[j].retries /\ row.lock = job[j].lock
      BY <1>2, <1>4, Zenon DEF Job
    <2>3. JobStage(row) = JobStage(job[j])
      BY <2>2 DEF JobStage
    <2> HIDE DEF row
    <2>4. UNCHANGED <<Stages, Tries>>
      BY <1>2, <2>1, <2>2, <2>3, WriteAs, SameRow
    <2>5. UNCHANGED Hands
      BY <1>11, Keeping DEF FailReport
    <2> QED
      BY <2>4, <2>5 DEF QueueStep
  <1>12. CASE MarkJobFailed(w)
    <2> DEFINE n == job[j].retries + 1
    <2>1. PICK s \in {"failed", "pending_retry"} :
            /\ s = "pending_retry" => n < MaxRetry
            /\ UpdateJob(j, [job[j] EXCEPT !.status = s, !.retries = n, !.lock = "none"])
      BY <1>12 DEF MarkJobFailed
    <2> DEFINE row == [job[j] EXCEPT !.status = s, !.retries = n, !.lock = "none"]
    <2>2. row \in Job
      BY <1>4, Words, Zenon
    <2>3. row.status = s /\ row.lock = "none" /\ row.retries = n
      BY <1>2 DEF Job
    <2>4. Leave(w) /\ UpdateJob(j, row)
      BY <1>12, <2>1 DEF MarkJobFailed
    <2> HIDE DEF row
    <2>5. CASE job[j].status = "deleted"
      BY <1>1, <1>2, <2>2, <2>4, <2>5, WriteAs, Dropping
    <2>6. CASE job[j].status # "deleted"
      <3>1. JobStage(row) = IF s = "failed" THEN "decided" ELSE "waiting"
        BY <2>3 DEF JobStage, Waiting
      <3>2. RowAs(j, IF s = "failed" THEN "decided" ELSE "waiting", n)
        BY <1>2, <2>2, <2>3, <2>4, <2>6, <3>1, WriteAs
      <3>3. Tries[j] = job[j].retries
        BY <1>2 DEF Tries
      <3>4. Queue!FailTry(w, j)
        BY <1>3, <2>1, <2>4, <2>6, <3>2, <3>3, Leaving, Zenon
        DEF Queue!FailTry, Queue!Has, Queue!SetStage, Queue!PutDown, RowAs
      <3> QED
        BY <1>2, <3>4 DEF QueueStep, Queue!QueueNext
    <2> QED
      BY <2>5, <2>6
  <1>13. CASE WaitForQuota(w)
    <2> DEFINE row == [job[j] EXCEPT !.status = "waiting_quota", !.quota = TRUE,
                                     !.lock = "none"]
    <2>1. UpdateJob(j, row) /\ Leave(w)
      BY <1>13 DEF WaitForQuota
    <2>2. row \in Job /\ row.status = "waiting_quota" /\ row.retries = job[j].retries
      BY <1>2, <1>4, Words, Zenon DEF Job
    <2> HIDE DEF row
    <2>3. CASE job[j].status = "deleted"
      BY <1>1, <1>2, <2>1, <2>2, <2>3, WriteAs, Dropping
    <2>4. CASE job[j].status # "deleted"
      <3>1. JobStage(row) = "waiting"
        BY <2>2 DEF JobStage, Waiting
      <3>2. RowAs(j, "waiting", job[j].retries)
        BY <1>2, <2>1, <2>2, <2>4, <3>1, WriteAs
      <3>3. Tries' = Tries
        BY <1>2, <3>2 DEF RowAs, Tries
      <3>4. Queue!Postpone(w, j)
        BY <1>3, <2>1, <2>4, <3>2, <3>3, Leaving
        DEF Queue!Postpone, Queue!Has, Queue!SetStage, Queue!PutDown, RowAs
      <3> QED
        BY <1>2, <3>4 DEF QueueStep, Queue!QueueNext
    <2> QED
      BY <2>3, <2>4
  <1> QED
    BY <1>6, <1>7, <1>8, <1>9, <1>10, <1>11, <1>12, <1>13
    DEF Work, Trouble, Reset, ResetRefused, Clear, Index, IndexNothing, Persist,
        Rollback, MarkDocumentFailed, ResetFails, ClearFails, PersistFails, WriteFails,
        RollbackFails, MarkDocumentFailedFails, Crash

\* The WHERE clause of get_pending_job finds only jobs that nobody has and that
\* have tries left.
LEMMA MapClaim ==
  ASSUME TypeOK, LeaseInv, NEW w \in Workers, NEW j \in Jobs, Claim(w, j)
  PROVE  QueueStep
  <1> DEFINE row == [job[j] EXCEPT !.status = "working", !.lock = "held"]
  <1>1. /\ \A v \in Workers : worker[v].job # j
        /\ job[j].retries < MaxRetry
        /\ job[j].status \in Unfinished
    BY DEF Claim, Claimable, LockFree, LeaseInv, Leased, Recoverable, Running, Waiting,
           Unfinished
  <1>2. job[j] \in Job
    BY DEF TypeOK
  <1>3. row \in Job /\ row.status = "working" /\ row.retries = job[j].retries
    <2>1. row \in Job
      BY <1>2, JobRow, Words, Zenon
    <2> QED
      BY <1>2, <2>1 DEF Job
  <1>4. UpdateJob(j, row)
    BY <1>1 DEF Claim, UpdateJob, Unfinished, Waiting
  <1> HIDE DEF row
  <1>5. RowAs(j, "working", job[j].retries)
    BY <1>1, <1>3, <1>4, WriteAs DEF JobStage, Unfinished, Waiting
  <1>6. Tries' = Tries
    BY <1>5 DEF RowAs, Tries
  <1>7. Hands' = [Hands EXCEPT ![w] = j]
    <2>1. \A v \in Workers : worker'[v].job = IF v = w THEN j ELSE worker[v].job
      BY DEF Claim, TypeOK
    <2> QED
      BY <2>1 DEF Hands
  <1>8. /\ Hands[w] = NoJob /\ \A v \in Workers : Hands[v] # j
        /\ Stages[j] \in {"waiting", "working"} /\ Tries[j] < MaxRetry
    BY <1>1 DEF Claim, At, Hands, Stages, Tries, JobStage, Unfinished, Waiting, TypeOK
  <1>9. Queue!TakeUp(w, j)
    BY <1>5, <1>6, <1>7, <1>8 DEF Queue!TakeUp, Queue!Free, Queue!SetStage, RowAs
  <1> QED
    BY <1>9 DEF QueueStep, Queue!QueueNext

LEMMA MapExpires ==
  ASSUME TypeOK, NEW j \in Jobs, LockExpires(j)
  PROVE  QueueStep
  <1>1. /\ \A k \in Jobs \ {j} : job'[k] = job[k]
        /\ job'[j].status = job[j].status /\ job'[j].lock = "stale"
        /\ job'[j].retries = job[j].retries /\ job[j].lock = "held"
    BY DEF LockExpires, TypeOK, Job
  <1>2. \A k \in Jobs : JobStage(job[k])' = JobStage(job[k]) /\ job'[k].retries = job[k].retries
    BY <1>1 DEF JobStage
  <1>3. UNCHANGED <<Stages, Tries>>
    BY <1>2 DEF Stages, Tries
  <1>4. UNCHANGED Hands
    BY DEF LockExpires, Hands
  <1> QED
    BY <1>3, <1>4 DEF QueueStep

\* A decision from outside keeps the lease, and with it whoever has the job.
LEMMA MapDecide ==
  ASSUME TypeOK, LeaseInv, NEW j \in Jobs, NEW s \in {"pending_review", "published", "rejected"},
         UpdateJob(j, [job[j] EXCEPT !.status = s]), UNCHANGED worker
  PROVE  QueueStep
  <1> DEFINE row == [job[j] EXCEPT !.status = s]
  <1>1. job[j] \in Job
    BY DEF TypeOK
  <1>2. /\ row \in Job /\ row.status = s
        /\ row.retries = job[j].retries /\ row.lock = job[j].lock
    <2>1. row \in Job
      BY <1>1, JobRow, Words, Zenon
    <2> QED
      BY <1>1, <2>1 DEF Job
  <1>3. UpdateJob(j, row) /\ UNCHANGED Hands
    BY DEF Hands
  <1> HIDE DEF row
  <1>4. JobStage(row) = IF job[j].lock = "none" THEN "decided" ELSE "shelved"
    BY <1>2 DEF JobStage, Waiting
  <1>5. CASE job[j].status = "deleted"
    BY <1>2, <1>3, <1>5, WriteAs DEF QueueStep
  <1>6. ASSUME job[j].status # "deleted"
        PROVE  RowAs(j, JobStage(row), job[j].retries) /\ Tries' = Tries
    BY <1>2, <1>3, <1>6, WriteAs DEF RowAs, Tries
  <1>7. CASE job[j].status \in Waiting
    <2>1. Stages[j] = "waiting" /\ job[j].lock = "none" /\ job[j].status # "deleted"
      BY <1>7 DEF Stages, JobStage, Waiting, LeaseInv, Leased
    <2>2. Queue!Decide(j)
      BY <1>3, <1>4, <1>6, <2>1 DEF Queue!Decide, Queue!SetStage, RowAs
    <2> QED
      BY <2>2 DEF QueueStep, Queue!QueueNext
  <1>8. CASE job[j].status = "working"
    <2>1. Stages[j] = "working" /\ job[j].lock # "none"
      BY <1>8 DEF Stages, JobStage, Waiting, LeaseInv, Recoverable, Unfinished
    <2>2. Queue!Decide(j)
      BY <1>3, <1>4, <1>6, <1>8, <2>1 DEF Queue!Decide, Queue!SetStage, RowAs
    <2> QED
      BY <2>2 DEF QueueStep, Queue!QueueNext
  <1>9. CASE job[j].status \notin Unfinished \cup {"deleted"}
    <2>1. JobStage(job[j]) = JobStage(row)
      BY <1>4, <1>9 DEF JobStage, Waiting, Unfinished
    <2>2. UNCHANGED <<Stages, Tries>>
      BY <1>6, <1>9, <2>1, SameRow
    <2> QED
      BY <1>3, <2>2 DEF QueueStep
  <1> QED
    BY <1>5, <1>7, <1>8, <1>9 DEF Unfinished

LEMMA MapDelete ==
  ASSUME TypeOK, NEW j \in Jobs, DeleteJob(j)
  PROVE  QueueStep
  <1> DEFINE row == [job[j] EXCEPT !.status = "deleted"]
  <1>1. job[j] \in Job
    BY DEF TypeOK
  <1>2. row \in Job /\ row.status = "deleted" /\ row.retries = job[j].retries
    <2>1. row \in Job
      BY <1>1, JobRow, Words, Zenon
    <2> QED
      BY <1>1, <2>1 DEF Job
  <1>3. UpdateJob(j, row) /\ UNCHANGED Hands
    BY DEF DeleteJob, Hands
  <1> HIDE DEF row
  <1>4. JobStage(row) = "deleted"
    BY <1>2 DEF JobStage, Waiting
  <1>5. CASE job[j].status = "deleted"
    BY <1>2, <1>3, <1>5, WriteAs DEF QueueStep
  <1>6. CASE job[j].status # "deleted"
    <2>1. RowAs(j, "deleted", job[j].retries)
      BY <1>2, <1>3, <1>4, <1>6, WriteAs
    <2>2. Tries' = Tries
      BY <2>1, Zenon DEF RowAs, Tries
    <2>3. Queue!Delete(j)
      BY <1>3, <2>1, <2>2 DEF Queue!Delete, Queue!SetStage, RowAs
    <2> QED
      BY <2>3 DEF QueueStep, Queue!QueueNext
  <1> QED
    BY <1>5, <1>6

\* Only a job that carries no lease is requeued, which nobody has.
LEMMA MapRequeue ==
  ASSUME TypeOK, LeaseInv, NEW j \in Jobs, Requeue(j)
  PROVE  QueueStep
  <1> DEFINE row == [job[j] EXCEPT !.status = "pending", !.retries = 0]
  <1>1. job[j] \in Job
    BY DEF TypeOK
  <1>2. row \in Job /\ row.status = "pending" /\ row.retries = 0
    <2>1. row \in Job
      BY <1>1, JobRow, Words, Zenon
    <2> QED
      BY <1>1, <2>1 DEF Job
  <1>3. UpdateJob(j, row) /\ UNCHANGED Hands
    BY DEF Requeue, Hands
  <1> HIDE DEF row
  <1>4. job[j].status \in {"failed", "rejected"} /\ job[j].lock = "none"
    BY DEF Requeue, Unlocked
  <1>5. RowAs(j, "waiting", 0)
    BY <1>2, <1>3, <1>4, WriteAs DEF JobStage, Waiting
  <1>6. Stages[j] = "decided" /\ \A w \in Workers : Hands[w] # j
    BY <1>4 DEF Stages, JobStage, Waiting, Hands, LeaseInv, Leased, Running
  <1>7. Queue!AskAgain(j)
    BY <1>3, <1>5, <1>6 DEF Queue!AskAgain, Queue!Free, Queue!SetStage, RowAs
  <1> QED
    BY <1>7 DEF QueueStep, Queue!QueueNext

LEMMA MapNext ==
  ASSUME ~SlowWorkers, TypeOK, LeaseInv, [Next]_vars
  PROVE  QueueStep
  <1>1. ASSUME NEW j \in Jobs, Administer(j) \/ Publish(j)
        PROVE  QueueStep
    <2>1. UNCHANGED worker
      BY <1>1 DEF Administer, Publish, Requeue, Cancel, MarkPendingReview, RejectJob,
                  DeleteJob, BeginReject, FinishReject, RejectFails, RequestPublication,
                  Stage, Show, Finalize, MarkJobPublished, FailPublication
    <2>2. CASE UNCHANGED job
      BY <2>1, <2>2, SameJobs DEF QueueStep, Hands
    <2>3. \/ UNCHANGED job \/ Requeue(j) \/ DeleteJob(j)
          \/ \E s \in {"pending_review", "published", "rejected"} :
               UpdateJob(j, [job[j] EXCEPT !.status = s])
      BY <1>1 DEF Administer, Publish, Cancel, MarkPendingReview, RejectJob, BeginReject,
                  FinishReject, RejectFails, RequestPublication, Stage, Show, Finalize,
                  MarkJobPublished, FailPublication
    <2> QED
      BY <2>1, <2>2, <2>3, MapDecide, MapDelete, MapRequeue
  <1>2. CASE UNCHANGED vars
    BY <1>2, SameJobs DEF vars, QueueStep, Hands
  <1> QED
    BY <1>1, <1>2, MapWork, MapClaim, MapExpires DEF Next

\* The table with its leases is the queue that JobQueue describes, while attempts end
\* within their lease: with any number of jobs and workers, nobody is given a job that
\* another has or that has used up its tries, and a job that was finished is not given
\* to anybody again.
THEOREM IngestionImplementsQueue ==
  ASSUME ~SlowWorkers
  PROVE  Spec => ImplementsQueue
  <1>1. Init => Queue!QueueInit
    BY DEF Init, Queue!QueueInit, Stages, Tries, Hands, JobStage, Waiting, NoAttempt
  <1>2. TypeOK /\ LeaseInv /\ [Next]_vars => [Queue!QueueNext]_<<Stages, Tries, Hands>>
    BY MapNext DEF QueueStep
  <1> QED
    BY <1>1, <1>2, IngestionTypes, LeaseAlways, PTL
    DEF Spec, ImplementsQueue, Queue!QueueSpec, Queue!queueVars

\* A job that a worker has finished or dropped after its rejection, or that was
\* deleted, and that nobody has in hand.
Settled(j) == Stages[j] \in {"shelved", "deleted"} /\ Queue!Free(j)

LEMMA SettledStep ==
  ASSUME NEW j \in Jobs, Settled(j), QueueStep
  PROVE  Settled(j)'
  <1>1. Stages = [k \in Jobs |-> Stages[k]] /\ Hands = [w \in Workers |-> Hands[w]]
    BY DEF Stages, Hands
  <1>2. CASE UNCHANGED <<Stages, Tries, Hands>>
    BY <1>2 DEF Settled, Queue!Free
  <1>3. ASSUME NEW w \in Workers, Queue!Drop(w)  PROVE Settled(j)'
    <2>1. \A v \in Workers : Hands'[v] \in {Hands[v], NoJob}
      BY <1>1, <1>3 DEF Queue!Drop, Queue!PutDown
    <2> QED
      BY <1>3, <2>1, Idle DEF Queue!Drop, Settled, Queue!Free
  <1>4. ASSUME NEW w \in Workers, NEW k \in Jobs, Queue!TakeUp(w, k)  PROVE Settled(j)'
    <2>1. k # j
      BY <1>4 DEF Queue!TakeUp, Settled
    <2>2. Stages'[j] = Stages[j]
      BY <1>1, <1>4, <2>1 DEF Queue!TakeUp, Queue!SetStage
    <2>3. \A v \in Workers : Hands'[v] \in {Hands[v], k}
      BY <1>1, <1>4 DEF Queue!TakeUp
    <2> QED
      BY <2>1, <2>2, <2>3 DEF Settled, Queue!Free
  <1>5. ASSUME NEW w \in Workers, NEW k \in Jobs,
               \/ Queue!GoOn(w, k) \/ Queue!Finish(w, k)
               \/ Queue!FailTry(w, k) \/ Queue!Postpone(w, k)
        PROVE  Settled(j)'
    <2>1. k # j
      BY <1>5 DEF Queue!GoOn, Queue!Finish, Queue!FailTry, Queue!Postpone, Queue!Has,
                  Settled, Queue!Free
    <2>2. Stages'[j] = Stages[j]
      BY <1>1, <1>5, <2>1
      DEF Queue!GoOn, Queue!Finish, Queue!FailTry, Queue!Postpone, Queue!SetStage
    <2>3. \A v \in Workers : Hands'[v] \in {Hands[v], NoJob}
      BY <1>1, <1>5
      DEF Queue!GoOn, Queue!Finish, Queue!FailTry, Queue!Postpone, Queue!PutDown
    <2> QED
      BY <2>2, <2>3, Idle DEF Settled, Queue!Free
  <1>6. ASSUME NEW k \in Jobs, Queue!Decide(k) \/ Queue!AskAgain(k) \/ Queue!Delete(k)
        PROVE  Settled(j)'
    <2>1. Hands' = Hands
      BY <1>6 DEF Queue!Decide, Queue!AskAgain, Queue!Delete
    <2>2. k = j => Queue!Delete(k)
      BY <1>6 DEF Queue!Decide, Queue!AskAgain, Settled
    <2>3. Stages'[j] \in {Stages[j], "deleted"}
      BY <1>1, <1>6, <2>2
      DEF Queue!Decide, Queue!AskAgain, Queue!Delete, Queue!SetStage
    <2> QED
      BY <2>1, <2>3 DEF Settled, Queue!Free
  <1> QED
    BY <1>2, <1>3, <1>4, <1>5, <1>6 DEF QueueStep, Queue!QueueNext

\* What the queue promises has this consequence for the table: no sequence of
\* requeues, reviews, crashes and expired leases brings a finished or deleted job back
\* into a worker's hands, nor makes it wait again.
THEOREM SettledForGood ==
  ASSUME ~SlowWorkers
  PROVE  Spec => [][\A j \in Jobs : Settled(j) => Settled(j)']_vars
  <1>1. TypeOK /\ LeaseInv /\ [Next]_vars => [\A j \in Jobs : Settled(j) => Settled(j)']_vars
    BY MapNext, SettledStep
  <1> QED
    BY <1>1, IngestionTypes, LeaseAlways, PTL DEF Spec
=============================================================================
