----------------------------- MODULE Ingestion -----------------------------
(***************************************************************************)
(* Ingestion of uploaded files.  Every upload is a row of IngestionJobs,   *)
(* the queue.  Workers claim a row under a lease of fifteen minutes, reset *)
(* the document's row in TaiLieu, clear and rewrite its points in Qdrant   *)
(* and report; a failed attempt rolls the document back.  Administrators   *)
(* requeue, cancel, reject and delete jobs meanwhile, and a document may   *)
(* be published while its job is being retried.                            *)
(*                                                                         *)
(* A file belongs to one job: an upload has a path of its own, and         *)
(* _get_or_create_doc refuses a row that came from another path.  The      *)
(* states classifying, extracting and embedding are one, "working":        *)
(* nothing but the progress display tells them apart.  Priorities and due  *)
(* times are left out: any claimable job may be claimed.  The publication  *)
(* saga of module Publication is cut down to its accesses to this job's    *)
(* document.                                                               *)
(***************************************************************************)
EXTENDS Integers, FiniteSets

CONSTANTS
  Jobs,             \* rows of IngestionJobs, each with its document
  NoJob,            \* not a job
  Workers,          \* ingestion workers
  MaxRetry,         \* IngestionJobs.MaxRetry
  MaxFaults,        \* bound: failed calls, exhausted quotas and crashes
  MaxControls,      \* bound: operations of administrators and reviewers
  MaxPublications,  \* bound: publications started
  SlowWorkers       \* may a live worker keep its job beyond the lease?

ASSUME IngestionAssumptions ==
  /\ NoJob \notin Jobs
  /\ MaxRetry \in Nat \ {0}
  /\ MaxFaults \in Nat
  /\ MaxControls \in Nat
  /\ MaxPublications \in Nat
  /\ SlowWorkers \in BOOLEAN

VARIABLES
  job,          \* the row of each job in IngestionJobs
  doc,          \* the row of each job's document in TaiLieu
  indexed,      \* has the document points in Qdrant?
  worker,       \* the attempt each worker is running
  publication,  \* how far the publication of each document has got
  rejecting,    \* documents whose rejection has passed its first check
  faults,       \* failed calls, exhausted quotas and crashes so far
  controls,     \* operations of administrators and reviewers so far
  publications  \* publications started so far

vars == <<job, doc, indexed, worker, publication, rejecting, faults, controls,
          publications>>

-----------------------------------------------------------------------------
(* Data *)

Waiting == {"pending", "pending_retry", "waiting_quota"}
Unfinished == Waiting \cup {"working"}
Finished == {"pending_review", "failed", "rejected", "published", "deleted"}
Status == Unfinished \cup Finished

Quality == {"none", "ready", "blocked"}

\* quota: FailureType = 'vision_quota'.
Job == [status : Status, retries : Nat, lock : {"none", "held", "stale"},
        quality : Quality, quota : BOOLEAN]

PublicationState ==
  {"draft", "publishing", "qdrant_synced", "published", "failed"}

\* shared: the document has departments, without which it cannot be published.
Document == [exists : BOOLEAN, review : {"pending_review", "approved", "rejected"},
             life : {"draft", "published", "rejected"}, pub : PublicationState,
             servable : BOOLEAN, shared : BOOLEAN]
NoDocument == [exists |-> FALSE, review |-> "pending_review", life |-> "draft",
               pub |-> "draft", servable |-> FALSE, shared |-> FALSE]

WorkerStep ==
  {"idle", "classify", "reset", "clear", "extract", "index", "persist", "report",
   "complete", "rollback", "markFailed", "failReport", "fail", "unreported"}
Attempt == [step : WorkerStep, job : Jobs \cup {NoJob}, quality : Quality]
NoAttempt == [step |-> "idle", job |-> NoJob, quality |-> "none"]

PublicationStep == {"idle", "queued", "staged", "shown", "finalized"}

TypeOK ==
  /\ job \in [Jobs -> Job]
  /\ doc \in [Jobs -> Document]
  /\ indexed \in [Jobs -> BOOLEAN]
  /\ worker \in [Workers -> Attempt]
  /\ \A w \in Workers : worker[w].step = "idle" <=> worker[w].job = NoJob
  /\ publication \in [Jobs -> PublicationStep]
  /\ rejecting \subseteq Jobs
  /\ faults \in 0..MaxFaults
  /\ controls \in 0..MaxControls
  /\ publications \in 0..MaxPublications

Init ==
  /\ job = [j \in Jobs |-> [status |-> "pending", retries |-> 0, lock |-> "none",
                            quality |-> "none", quota |-> FALSE]]
  /\ doc = [j \in Jobs |-> NoDocument]
  /\ indexed = [j \in Jobs |-> FALSE]
  /\ worker = [w \in Workers |-> NoAttempt]
  /\ publication = [j \in Jobs |-> "idle"]
  /\ rejecting = {}
  /\ faults = 0
  /\ controls = 0
  /\ publications = 0

Fault == faults < MaxFaults /\ faults' = faults + 1

\* An UPDATE of a job's row that names the job only; a deleted row is not found.
UpdateJob(j, row) ==
  job' = [job EXCEPT ![j] = IF @.status = "deleted" THEN @ ELSE row]
UpdateDoc(j, row) == doc' = [doc EXCEPT ![j] = row]

Goto(w, step) == worker' = [worker EXCEPT ![w].step = step]
GotoWith(w, step, quality) ==
  worker' = [worker EXCEPT ![w] = [@ EXCEPT !.step = step, !.quality = quality]]
Leave(w) == worker' = [worker EXCEPT ![w] = NoAttempt]

At(w, step) == worker[w].step = step

-----------------------------------------------------------------------------
(* The lease *)

LockFree(j) == job[j].lock # "held"

\* Mutant of Claimable: the lease of a job being worked on is ignored.
ClaimableUnlocked(j) ==
  \/ job[j].status \in {"pending", "pending_retry", "working"}
     /\ job[j].retries < MaxRetry
  \/ job[j].status = "waiting_quota"

\* Mutant of Claimable: jobs whose worker died are not taken up again.
ClaimableWaiting(j) ==
  \/ job[j].status \in {"pending", "pending_retry"}
     /\ LockFree(j)
     /\ job[j].retries < MaxRetry
  \/ job[j].status = "waiting_quota"

\* The WHERE clause of get_pending_job.  A quota wait ends after a day.
Claimable(j) ==
  \/ /\ job[j].status \in {"pending", "pending_retry"}
     /\ LockFree(j)
     /\ job[j].retries < MaxRetry
  \/ job[j].status = "waiting_quota"
  \/ /\ job[j].status = "working"
     /\ job[j].lock = "stale"
     /\ job[j].retries < MaxRetry

Claim(w, j) ==
  /\ At(w, "idle")
  /\ Claimable(j)
  /\ job' = [job EXCEPT ![j] = [@ EXCEPT !.status = "working", !.lock = "held"]]
  /\ worker' = [worker EXCEPT ![w] = [step |-> "classify", job |-> j, quality |-> "none"]]
  /\ UNCHANGED <<doc, indexed, publication, rejecting, faults, controls, publications>>

\* Fifteen minutes pass.  A worker never renews its lease.
LockExpires(j) ==
  /\ job[j].lock = "held"
  /\ SlowWorkers \/ \A w \in Workers : worker[w].job # j
  /\ job' = [job EXCEPT ![j].lock = "stale"]
  /\ UNCHANGED <<doc, indexed, worker, publication, rejecting, faults, controls,
                 publications>>

-----------------------------------------------------------------------------
(* One attempt: IngestionRunner.run and the pipeline it calls *)

\* Status writes of a worker do not ask whether it still holds the job.
Progress(j) == UpdateJob(j, [job[j] EXCEPT !.status = "working"])

Classify(w) ==
  /\ At(w, "classify")
  /\ Progress(worker[w].job)
  /\ Goto(w, "reset")
  /\ UNCHANGED <<doc, indexed, publication, rejecting, faults, controls, publications>>

\* The check _get_or_create_doc makes before it touches an existing row.
Protected(d) == d.life = "published" \/ d.pub = "published" \/ d.servable

\* reset_document_metadata.  LifecycleStatus stays what it was.
Reset(w) ==
  LET j == worker[w].job
  IN /\ At(w, "reset")
     /\ job[j].status # "deleted"
     /\ ~Protected(doc[j])
     /\ UpdateDoc(j, [doc[j] EXCEPT !.exists = TRUE, !.review = "pending_review",
                                    !.pub = "draft", !.servable = FALSE])
     /\ Goto(w, "clear")
     /\ UNCHANGED <<job, indexed, publication, rejecting, faults, controls, publications>>

\* A protected row, or no job for the path: no document identity, no rollback.
ResetRefused(w) ==
  LET j == worker[w].job
  IN /\ At(w, "reset")
     /\ job[j].status = "deleted" \/ Protected(doc[j])
     /\ GotoWith(w, "failReport", "blocked")
     /\ UNCHANGED <<job, doc, indexed, publication, rejecting, faults, controls,
                    publications>>

ResetFails(w) ==
  /\ At(w, "reset")
  /\ Fault
  /\ \/ GotoWith(w, "failReport", "blocked")
     \/ Goto(w, "fail")     \* the source context could not be read: no report
  /\ UNCHANGED <<job, doc, indexed, publication, rejecting, controls, publications>>

Clear(w) ==
  /\ At(w, "clear")
  /\ indexed' = [indexed EXCEPT ![worker[w].job] = FALSE]
  /\ Goto(w, "extract")
  /\ UNCHANGED <<job, doc, publication, rejecting, faults, controls, publications>>

\* The deletion raised, before or after Qdrant applied it.  No vector of this
\* attempt has been written, so the rollback deletes none.
ClearFails(w) ==
  /\ At(w, "clear")
  /\ Fault
  /\ indexed' \in {indexed, [indexed EXCEPT ![worker[w].job] = FALSE]}
  /\ GotoWith(w, "markFailed", "blocked")
  /\ UNCHANGED <<job, doc, publication, rejecting, controls, publications>>

\* The pages are read; perhaps nothing can be extracted.
Extract(w) ==
  /\ At(w, "extract")
  /\ Progress(worker[w].job)
  /\ Goto(w, "index") \/ GotoWith(w, "markFailed", "blocked")
  /\ UNCHANGED <<doc, indexed, publication, rejecting, faults, controls, publications>>

\* The chunks are embedded and written; the quality gate decides.
Index(w) ==
  /\ At(w, "index")
  /\ indexed' = [indexed EXCEPT ![worker[w].job] = TRUE]
  /\ GotoWith(w, "persist", "ready") \/ GotoWith(w, "rollback", "blocked")
  /\ UNCHANGED <<job, doc, publication, rejecting, faults, controls, publications>>

\* No page could be written.
IndexNothing(w) ==
  /\ At(w, "index")
  /\ GotoWith(w, "rollback", "blocked")
  /\ UNCHANGED <<job, doc, indexed, publication, rejecting, faults, controls, publications>>

\* _finalize_successful_persistence: departments in SQL, access payload in Qdrant.
Persist(w) ==
  /\ At(w, "persist")
  /\ UpdateDoc(worker[w].job, [doc[worker[w].job] EXCEPT !.shared = TRUE])
  /\ Goto(w, "report")
  /\ UNCHANGED <<job, indexed, publication, rejecting, faults, controls, publications>>

PersistFails(w) ==
  /\ At(w, "persist")
  /\ Fault
  /\ doc' \in {doc, [doc EXCEPT ![worker[w].job].shared = TRUE]}
  /\ Goto(w, "rollback")
  /\ UNCHANGED <<job, indexed, publication, rejecting, controls, publications>>

\* Mutant of Report: the runner's phase is written where SQL has its own words.
ReportPhase(w) ==
  /\ At(w, "report")
  /\ UpdateJob(worker[w].job, [job[worker[w].job] EXCEPT !.status = "quality_check",
                                                         !.quality = worker[w].quality])
  /\ Goto(w, "complete")
  /\ UNCHANGED <<doc, indexed, publication, rejecting, faults, controls, publications>>

Report(w) ==
  /\ At(w, "report")
  /\ UpdateJob(worker[w].job, [job[worker[w].job] EXCEPT !.status = "working",
                                                         !.quality = worker[w].quality])
  /\ Goto(w, "complete")
  /\ UNCHANGED <<doc, indexed, publication, rejecting, faults, controls, publications>>

\* Mutant of Complete: the lease is given back.
CompleteUnlocks(w) ==
  /\ At(w, "complete")
  /\ UpdateJob(worker[w].job, [job[worker[w].job] EXCEPT !.status = "pending_review",
                                                         !.lock = "none"])
  /\ Leave(w)
  /\ UNCHANGED <<doc, indexed, publication, rejecting, faults, controls, publications>>

\* mark_pending_review leaves LockedBy and LockedAt as they are.
Complete(w) ==
  /\ At(w, "complete")
  /\ UpdateJob(worker[w].job, [job[worker[w].job] EXCEPT !.status = "pending_review"])
  /\ Leave(w)
  /\ UNCHANGED <<doc, indexed, publication, rejecting, faults, controls, publications>>

\* A write of the job's row raises, or the report is not saved: the attempt is
\* given up and the document is not rolled back.
WriteFails(w) ==
  /\ worker[w].step \in {"classify", "report", "complete", "failReport"}
  /\ Fault
  /\ Goto(w, "unreported")
  /\ UNCHANGED <<job, doc, indexed, publication, rejecting, controls, publications>>

-----------------------------------------------------------------------------
(* A failed attempt: _rollback_failed_ingestion, then the job *)

Rollback(w) ==
  /\ At(w, "rollback")
  /\ indexed' = [indexed EXCEPT ![worker[w].job] = FALSE]
  /\ Goto(w, "markFailed")
  /\ UNCHANGED <<job, doc, publication, rejecting, faults, controls, publications>>

\* The deletion raised, perhaps after Qdrant applied it: the rest is skipped.
RollbackFails(w) ==
  /\ At(w, "rollback")
  /\ Fault
  /\ indexed' \in {indexed, [indexed EXCEPT ![worker[w].job] = FALSE]}
  /\ Goto(w, "failReport")
  /\ UNCHANGED <<job, doc, publication, rejecting, controls, publications>>

\* mark_document_ingest_failed leaves a published or approved row alone.
MarkDocumentFailed(w) ==
  LET j == worker[w].job
  IN /\ At(w, "markFailed")
     /\ IF Protected(doc[j]) \/ doc[j].review = "approved"
          THEN UNCHANGED doc
          ELSE UpdateDoc(j, [doc[j] EXCEPT !.review = "rejected", !.life = "rejected"])
     /\ Goto(w, "failReport")
     /\ UNCHANGED <<job, indexed, publication, rejecting, faults, controls, publications>>

MarkDocumentFailedFails(w) ==
  /\ At(w, "markFailed")
  /\ Fault
  /\ Goto(w, "failReport")
  /\ UNCHANGED <<job, doc, indexed, publication, rejecting, controls, publications>>

FailReport(w) ==
  /\ At(w, "failReport")
  /\ UpdateJob(worker[w].job, [job[worker[w].job] EXCEPT !.quality = worker[w].quality])
  /\ Goto(w, "fail")
  /\ UNCHANGED <<doc, indexed, publication, rejecting, faults, controls, publications>>

\* Mutant of MarkJobFailed: one retry too many is promised.
MarkJobFailedLate(w) ==
  LET j == worker[w].job
      retries == job[j].retries + 1
  IN /\ worker[w].step \in {"fail", "unreported"}
     /\ \E status \in {"failed", "pending_retry"} :
          /\ status = "pending_retry" => retries <= MaxRetry
          /\ status = "failed" => retries > MaxRetry \/ At(w, "fail")
          /\ UpdateJob(j, [job[j] EXCEPT !.status = status, !.retries = retries,
                                         !.lock = "none"])
     /\ Leave(w)
     /\ UNCHANGED <<doc, indexed, publication, rejecting, faults, controls, publications>>

\* mark_job_failed.  An authentication error, which only the pipeline's own
\* message can name, fails the job at once.
MarkJobFailed(w) ==
  LET j == worker[w].job
      retries == job[j].retries + 1
  IN /\ worker[w].step \in {"fail", "unreported"}
     /\ \E status \in {"failed", "pending_retry"} :
          /\ status = "pending_retry" => retries < MaxRetry
          /\ status = "failed" => retries >= MaxRetry \/ At(w, "fail")
          /\ UpdateJob(j, [job[j] EXCEPT !.status = status, !.retries = retries,
                                         !.lock = "none"])
     /\ Leave(w)
     /\ UNCHANGED <<doc, indexed, publication, rejecting, faults, controls, publications>>

\* mark_job_waiting_quota: no retry is counted, whatever RetryCount.
WaitForQuota(w) ==
  /\ At(w, "fail")
  /\ Fault
  /\ UpdateJob(worker[w].job, [job[worker[w].job] EXCEPT
                                 !.status = "waiting_quota", !.quota = TRUE, !.lock = "none"])
  /\ Leave(w)
  /\ UNCHANGED <<doc, indexed, publication, rejecting, controls, publications>>

\* The process dies and is started again.  A last write of the job's row that
\* raises and is swallowed leaves the same state.
Crash(w) ==
  /\ ~At(w, "idle")
  /\ Fault
  /\ Leave(w)
  /\ UNCHANGED <<job, doc, indexed, publication, rejecting, controls, publications>>

Work(w) ==
  \/ Classify(w) \/ Reset(w) \/ ResetRefused(w) \/ Clear(w) \/ Extract(w)
  \/ Index(w) \/ IndexNothing(w) \/ Persist(w) \/ Report(w) \/ Complete(w)
  \/ Rollback(w) \/ MarkDocumentFailed(w) \/ FailReport(w) \/ MarkJobFailed(w)

Trouble(w) ==
  \/ ResetFails(w) \/ ClearFails(w) \/ PersistFails(w) \/ WriteFails(w)
  \/ RollbackFails(w) \/ MarkDocumentFailedFails(w) \/ WaitForQuota(w) \/ Crash(w)

-----------------------------------------------------------------------------
(* Administrators and reviewers *)

Control == controls < MaxControls /\ controls' = controls + 1

Unlocked(j) == job[j].lock = "none"

\* JOB_CONTROL_DOCUMENT_GUARD.  "qdrant_synced" is not among its states.
DocumentFree(j) ==
  \/ ~doc[j].exists
  \/ /\ ~doc[j].servable
     /\ doc[j].pub \notin {"published", "publishing"}
     /\ doc[j].review # "approved"
     /\ doc[j].life # "published"

\* Mutant of Requeue: a locked job is requeued.
RequeueLocked(j) ==
  /\ Control
  /\ job[j].status \in {"failed", "rejected"}
  /\ ~job[j].quota
  /\ DocumentFree(j)
  /\ UpdateJob(j, [job[j] EXCEPT !.status = "pending", !.retries = 0, !.lock = "none"])
  /\ UNCHANGED <<doc, indexed, worker, publication, rejecting, faults, publications>>

Requeue(j) ==
  /\ Control
  /\ job[j].status \in {"failed", "rejected"}
  /\ Unlocked(j)
  /\ ~job[j].quota
  /\ DocumentFree(j)
  /\ UpdateJob(j, [job[j] EXCEPT !.status = "pending", !.retries = 0])
  /\ UNCHANGED <<doc, indexed, worker, publication, rejecting, faults, publications>>

Cancel(j) ==
  /\ Control
  /\ job[j].status \in Waiting \cup {"failed"}
  /\ Unlocked(j)
  /\ DocumentFree(j)
  /\ UpdateJob(j, [job[j] EXCEPT !.status = "rejected"])
  /\ UNCHANGED <<doc, indexed, worker, publication, rejecting, faults, publications>>

\* mark_job_pending_review: an administrator overrules a failure.
MarkPendingReview(j) ==
  /\ Control
  /\ job[j].status = "failed"
  /\ Unlocked(j)
  /\ job[j].quality = "ready"
  /\ doc[j].exists
  /\ doc[j].review = "pending_review"
  /\ doc[j].pub = "draft"
  /\ DocumentFree(j)
  /\ UpdateJob(j, [job[j] EXCEPT !.status = "pending_review"])
  /\ UNCHANGED <<doc, indexed, worker, publication, rejecting, faults, publications>>

\* reject_ingestion_job looks at neither status nor lock.  Without a document
\* only jobs on the reviewers' list can be reached.
RejectJob(j) ==
  /\ Control
  /\ doc[j].exists \/ job[j].status \in {"failed", "rejected", "pending_review"}
  /\ UpdateJob(j, [job[j] EXCEPT !.status = "rejected"])
  /\ UNCHANGED <<doc, indexed, worker, publication, rejecting, faults, publications>>

DeleteJob(j) ==
  /\ Control
  /\ UpdateJob(j, [job[j] EXCEPT !.status = "deleted"])
  /\ UNCHANGED <<doc, indexed, worker, publication, rejecting, faults, publications>>

\* reject_document: the matching job, then Qdrant, then both rows in SQL.
BeginReject(j) ==
  /\ Control
  /\ j \notin rejecting
  /\ doc[j].exists
  /\ job[j].status \in {"pending_review", "published", "rejected"}
  /\ rejecting' = rejecting \cup {j}
  /\ UNCHANGED <<job, doc, indexed, worker, publication, faults, publications>>

FinishReject(j) ==
  /\ j \in rejecting
  /\ UpdateDoc(j, [doc[j] EXCEPT !.life = "rejected", !.review = "rejected",
                                 !.servable = FALSE, !.pub = "failed"])
  /\ UpdateJob(j, [job[j] EXCEPT !.status = "rejected"])
  /\ rejecting' = rejecting \ {j}
  /\ UNCHANGED <<indexed, worker, publication, faults, controls, publications>>

RejectFails(j) ==
  /\ j \in rejecting
  /\ Fault
  /\ rejecting' = rejecting \ {j}
  /\ UNCHANGED <<job, doc, indexed, worker, publication, controls, publications>>

Administer(j) ==
  \/ Requeue(j) \/ Cancel(j) \/ MarkPendingReview(j) \/ RejectJob(j) \/ DeleteJob(j)
  \/ BeginReject(j) \/ FinishReject(j) \/ RejectFails(j)

-----------------------------------------------------------------------------
(* Publication of the document: module Publication in outline.  It asks    *)
(* nothing of the job.                                                     *)

ContractOK(d) == d.exists /\ d.shared /\ d.life # "rejected"

SetPub(j, state) == UpdateDoc(j, [doc[j] EXCEPT !.pub = state, !.servable = FALSE])
Publishing(j, step) == publication' = [publication EXCEPT ![j] = step]

RequestPublication(j) ==
  /\ publication[j] = "idle"
  /\ publications < MaxPublications
  /\ publications' = publications + 1
  /\ ContractOK(doc[j])
  /\ ~(doc[j].pub = "published" /\ doc[j].servable)
  /\ SetPub(j, "publishing")
  /\ Publishing(j, "queued")
  /\ UNCHANGED <<job, indexed, worker, rejecting, faults, controls>>

\* The points are hidden (there must be some), then SQL says so.
Stage(j) ==
  /\ publication[j] = "queued"
  /\ ContractOK(doc[j])
  /\ indexed[j]
  /\ SetPub(j, "qdrant_synced")
  /\ Publishing(j, "staged")
  /\ UNCHANGED <<job, indexed, worker, rejecting, faults, controls, publications>>

\* The batch shows the points: again there must be some.
Show(j) ==
  /\ publication[j] = "staged"
  /\ indexed[j]
  /\ Publishing(j, "shown")
  /\ UNCHANGED <<job, doc, indexed, worker, rejecting, faults, controls, publications>>

Finalize(j) ==
  /\ publication[j] = "shown"
  /\ UpdateDoc(j, [doc[j] EXCEPT !.review = "approved", !.life = "published",
                                 !.pub = "published", !.servable = TRUE])
  /\ Publishing(j, "finalized")
  /\ UNCHANGED <<job, indexed, worker, rejecting, faults, controls, publications>>

\* The request that published tells the job; a polling worker does not.
MarkJobPublished(j) ==
  /\ publication[j] = "finalized"
  /\ UpdateJob(j, [job[j] EXCEPT !.status = "published"]) \/ UNCHANGED job
  /\ Publishing(j, "idle")
  /\ UNCHANGED <<doc, indexed, worker, rejecting, faults, controls, publications>>

PublicationRefused(j) ==
  \/ publication[j] = "queued" /\ ~(ContractOK(doc[j]) /\ indexed[j])
  \/ publication[j] = "staged" /\ ~indexed[j]

FailPublication(j) ==
  /\ publication[j] \in {"queued", "staged", "shown"}
  /\ (PublicationRefused(j) /\ UNCHANGED faults) \/ Fault
  /\ SetPub(j, "failed")
  /\ Publishing(j, "idle")
  /\ UNCHANGED <<job, indexed, worker, rejecting, controls, publications>>

Publish(j) ==
  \/ RequestPublication(j) \/ Stage(j) \/ Show(j) \/ Finalize(j)
  \/ MarkJobPublished(j) \/ FailPublication(j)

-----------------------------------------------------------------------------
(* Specification *)

Next ==
  \/ \E w \in Workers : \E j \in Jobs : Claim(w, j)
  \/ \E w \in Workers : Work(w) \/ Trouble(w)
  \/ \E j \in Jobs : LockExpires(j) \/ Administer(j) \/ Publish(j)

Spec == Init /\ [][Next]_vars

\* Workers poll for ever, an attempt goes on unless its process dies, and time
\* passes.
FairSpec ==
  /\ Spec
  /\ \A w \in Workers : WF_vars(Work(w)) /\ WF_vars(\E j \in Jobs : Claim(w, j))
  /\ \A j \in Jobs : WF_vars(LockExpires(j))

-----------------------------------------------------------------------------
(* Properties *)

Running(w, j) == worker[w].job = j

\* A job is never being processed twice: while attempts end within the lease,
\* whatever is requeued, rejected or deleted meanwhile and whoever dies, no
\* two workers run the same (existing) job.
OneWorker ==
  \A v, w \in Workers : \A j \in Jobs :
    Running(v, j) /\ Running(w, j) /\ job[j].status # "deleted" => v = w

\* A job that is not finished can still be taken up: it has retries left, and
\* if it counts as being worked on it carries a lease that can run out.
Recoverable ==
  \A j \in Jobs : job[j].status \in Unfinished =>
    /\ job[j].retries < MaxRetry
    /\ job[j].status = "working" => job[j].lock # "none"

\* What a row of the table is to JobQueue: a decided job that carries a lease was
\* finished, or rejected under way, and is not asked for again.
JobStage(row) ==
  CASE row.status = "deleted" -> "deleted"
    [] row.status = "working" -> "working"
    [] row.status \in Waiting -> "waiting"
    [] OTHER -> IF row.lock = "none" THEN "decided" ELSE "shelved"
Stages == [j \in Jobs |-> JobStage(job[j])]
Tries == [j \in Jobs |-> job[j].retries]
Hands == [w \in Workers |-> worker[w].job]

Queue == INSTANCE JobQueue WITH stage <- Stages, tries <- Tries, hand <- Hands
\* The leases and the statuses of the table keep the promises of JobQueue, while
\* attempts end within the lease: nobody is given a job that another worker has, that
\* has used up its tries, or that was finished before.
ImplementsQueue == Queue!QueueSpec

\* As long as nothing has failed, a document that SQL serves has its points.
\* Publishing asks nothing of the job, so this rests on a finished job never
\* coming back: mark_pending_review keeps its lease, which requeue_job refuses.
PublishedIsIndexed == faults = 0 => \A j \in Jobs : doc[j].servable => indexed[j]

\* Neither a repeated nor a failed attempt takes away the points of a document
\* that is being served (mark_document_ingest_failed: "Bo qua rollback ingest
\* cho tai lieu da published/servable").
PublishedNotReingested ==
  [][\A j \in Jobs : doc[j].servable /\ indexed[j] => indexed'[j]]_vars

\* A document whose ingestion succeeded and that waits for review has a
\* lifecycle that review can publish, also when it was rejected by an earlier,
\* failed attempt (_get_or_create_doc: "Update metadata neu re-ingest
\* draft/rejected").
ReviewCanPublish ==
  \A j \in Jobs :
    job[j].status = "pending_review" /\ doc[j].review = "pending_review" /\ indexed[j]
      => doc[j].life # "rejected"

\* Every upload is decided: it comes to review, is published, fails for good or
\* is rejected or deleted, even if workers die on it.
JobsSettle ==
  \A j \in Jobs : job[j].status \in Unfinished ~> job[j].status \in Finished
=============================================================================
