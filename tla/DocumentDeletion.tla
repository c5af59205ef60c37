-------------------------- MODULE DocumentDeletion --------------------------
(***************************************************************************)
(* delete_document_completely for one document: the row is marked          *)
(* 'deleting', the points go, then the rows go, and each of these may      *)
(* fail.  A failure to remove the points is undone by writing back what    *)
(* the call had read at its start.  Several calls, the reviewers'          *)
(* publication and archiving, a repeated ingestion and the deletion of the *)
(* job run meanwhile.                                                      *)
(*                                                                         *)
(* Publication and archiving are two steps, what they check and their SQL  *)
(* write: module Publication has the rest.  A repeated ingestion is its    *)
(* effect on the points (module Ingestion has the rest).  Left out: page   *)
(* images and the uploaded file, which go last and best effort, and the    *)
(* rows of graph records, whose presence refuses the call.                 *)
(***************************************************************************)
EXTENDS Naturals

CONSTANTS
  DeleteCalls,     \* slots for calls in flight
  MaxDeleteFaults  \* bound: failed calls and crashes

ASSUME DeletionAssumptions == MaxDeleteFaults \in Nat

VARIABLES
  doc,          \* the row of TaiLieu: LifecycleStatus and IsCurrent
  indexed,      \* are there points of the document in Qdrant?
  ingestJob,    \* the row of IngestionJobs with the document's path
  ingesting,    \* is a worker ingesting the file again?
  call,         \* the calls of delete_document_completely
  review,       \* a publication or archiving that has passed its checks
  deleteFaults, \* faults so far
  raced,        \* history: a row was restored or published although others had changed it
  unanswered,   \* history: points were removed by a request that was reported as failed
  reindexed     \* history: a worker wrote points after a call had removed them

deletionVars == <<doc, indexed, ingestJob, ingesting, call, review, deleteFaults, raced,
                  unanswered, reindexed>>

-----------------------------------------------------------------------------
(* Data *)

DocRow == [state : {"draft", "published", "archived", "deleting"}, current : BOOLEAN]
NoDoc == [state |-> "gone", current |-> FALSE]

Settled == "settled"    \* published, rejected, failed or pending_review
JobState == {Settled, "queued", "processing", "gone"}

\* prev: the row as read; alone: nobody else has written row or points since.
Call == [step : {"check", "mark", "points", "restore", "rows"}, prev : DocRow, alone : BOOLEAN]
NoCall == [step |-> "idle"]

InService == doc.state = "published" /\ doc.current

DeletionInit ==
  /\ doc \in {[state |-> "draft", current |-> FALSE], [state |-> "published", current |-> TRUE]}
  /\ indexed = TRUE
  /\ ingestJob = Settled
  /\ ingesting = FALSE
  /\ call = [c \in DeleteCalls |-> NoCall]
  /\ review = "none"
  /\ deleteFaults = 0
  /\ raced = FALSE
  /\ unanswered = FALSE
  /\ reindexed = FALSE

-----------------------------------------------------------------------------
(* delete_document_completely *)

At(c, step) == call[c].step = step

Goto(c, step) == call' = [call EXCEPT ![c].step = step]

Return(c) == call' = [call EXCEPT ![c] = NoCall]

\* The calls after somebody wrote the row or the points, the writers excepted.
Touched(calls, writers) ==
  [c \in DeleteCalls |-> IF c \in writers \/ calls[c] = NoCall THEN calls[c]
                         ELSE [calls[c] EXCEPT !.alone = FALSE]]

\* An UPDATE of a row that is gone changes nothing.
WriteRow(row) == doc' = IF doc = NoDoc THEN NoDoc ELSE row

DeleteFault == deleteFaults < MaxDeleteFaults /\ deleteFaults' = deleteFaults + 1

notes == <<raced, unanswered, reindexed>>

ReadRow(c) ==
  /\ call[c] = NoCall
  /\ doc # NoDoc
  /\ call' = [call EXCEPT ![c] = [step |-> "check", prev |-> doc, alone |-> TRUE]]
  /\ UNCHANGED <<doc, indexed, ingestJob, ingesting, review, deleteFaults, notes>>

\* Mutant of CheckJob: a document being deleted is left to the call that marked it.
CheckJobUnmarked(c) ==
  /\ At(c, "check")
  /\ IF ingestJob = Settled /\ call[c].prev.state # "deleting" THEN Goto(c, "mark") ELSE Return(c)
  /\ UNCHANGED <<doc, indexed, ingestJob, ingesting, review, deleteFaults, notes>>

\* One document and one job with this path, and the job is not under way.
CheckJob(c) ==
  /\ At(c, "check")
  /\ IF ingestJob = Settled THEN Goto(c, "mark") ELSE Return(c)
  /\ UNCHANGED <<doc, indexed, ingestJob, ingesting, review, deleteFaults, notes>>

\* Mutant of Mark: the row is left in service until it is deleted.
MarkNothing(c) ==
  /\ At(c, "mark")
  /\ Goto(c, "points")
  /\ UNCHANGED <<doc, indexed, ingestJob, ingesting, review, deleteFaults, notes>>

Mark(c) ==
  /\ At(c, "mark")
  /\ WriteRow([state |-> "deleting", current |-> FALSE])
  /\ call' = Touched([call EXCEPT ![c].step = "points"], {c})
  /\ UNCHANGED <<indexed, ingestJob, ingesting, review, deleteFaults, notes>>

DeletePoints(c) ==
  /\ At(c, "points")
  /\ indexed' = FALSE
  /\ call' = Touched([call EXCEPT ![c].step = "rows"], {c})
  /\ UNCHANGED <<doc, ingestJob, ingesting, review, deleteFaults, notes>>

\* Mutant of DeletePointsFails: the rows are deleted all the same.
DeletePointsBestEffort(c) ==
  /\ At(c, "points")
  /\ DeleteFault
  /\ Goto(c, "rows")
  /\ UNCHANGED <<doc, indexed, ingestJob, ingesting, review, notes>>

\* The request failed, or only its answer was lost.
DeletePointsFails(c) ==
  /\ At(c, "points")
  /\ DeleteFault
  /\ \/ UNCHANGED <<indexed, unanswered>> /\ Goto(c, "restore")
     \/ /\ indexed' = FALSE /\ unanswered' = TRUE
        /\ call' = Touched([call EXCEPT ![c].step = "restore"], {c})
  /\ UNCHANGED <<doc, ingestJob, ingesting, review, raced, reindexed>>

\* The rollback writes back what was read, whatever the row has become.
Restore(c) ==
  /\ At(c, "restore")
  /\ WriteRow(call[c].prev)
  /\ raced' = (raced \/ ~call[c].alone)
  /\ call' = Touched([call EXCEPT ![c] = NoCall], {c})
  /\ UNCHANGED <<indexed, ingestJob, ingesting, review, deleteFaults, unanswered, reindexed>>

\* One transaction; the ids were read at the start.
DeleteRows(c) ==
  /\ At(c, "rows")
  /\ doc' = NoDoc
  /\ ingestJob' = "gone"
  /\ call' = Touched([call EXCEPT ![c] = NoCall], {c})
  /\ UNCHANGED <<indexed, ingesting, review, deleteFaults, notes>>

\* A failed statement in any step but the removal of the points, or a crash.
Abort(c) ==
  /\ call[c] # NoCall
  /\ DeleteFault
  /\ Return(c)
  /\ UNCHANGED <<doc, indexed, ingestJob, ingesting, review, notes>>

-----------------------------------------------------------------------------
(* Others *)

\* publish and archive_document check the row, or the points, first ...
BeginReview(kind) ==
  /\ review = "none"
  /\ indexed
  /\ kind = "publish" => doc.state = "draft"
  /\ review' = kind
  /\ UNCHANGED <<doc, indexed, ingestJob, ingesting, call, deleteFaults, notes>>

\* ... and write it later without looking again.
FinishReview ==
  /\ review # "none"
  /\ WriteRow(IF review = "publish" THEN [state |-> "published", current |-> TRUE]
                                    ELSE [state |-> "archived", current |-> FALSE])
  /\ raced' = (raced \/ doc.state = "deleting" \/ (review = "publish" /\ ~indexed))
  /\ review' = "none"
  /\ call' = Touched(call, {})
  /\ UNCHANGED <<indexed, ingestJob, ingesting, deleteFaults, unanswered, reindexed>>

\* requeue_job: not for a document that is published, archived or being deleted.
Requeue ==
  /\ ingestJob = Settled
  /\ doc.state = "draft"
  /\ ingestJob' = "queued"
  /\ UNCHANGED <<doc, indexed, ingesting, call, review, deleteFaults, notes>>

\* The worker refuses a published document and clears the points of any other, ...
BeginIngest ==
  /\ ingestJob = "queued"
  /\ doc # NoDoc
  /\ IF doc.state = "published"
       THEN ingestJob' = Settled /\ UNCHANGED <<indexed, ingesting, call>>
       ELSE /\ ingestJob' = "processing" /\ ingesting' = TRUE
            /\ indexed' = FALSE
            /\ call' = Touched(call, {})
  /\ UNCHANGED <<doc, review, deleteFaults, notes>>

EndIngest ==
  /\ ingesting /\ ingesting' = FALSE
  /\ ingestJob' = IF ingestJob = "processing" THEN Settled ELSE ingestJob
  /\ call' = Touched(call, {})
  /\ UNCHANGED <<doc, review, raced, unanswered>>

\* ... and writes them anew.
FinishIngest ==
  /\ doc # NoDoc
  /\ EndIngest
  /\ indexed' = TRUE
  /\ reindexed' = (reindexed \/ \E c \in DeleteCalls : At(c, "rows"))
  /\ UNCHANGED deleteFaults

\* Any error, the missing row of a deleted document among them, removes the points
\* again, unless that fails too.
IngestFails ==
  /\ EndIngest
  /\ \/ indexed' = FALSE /\ UNCHANGED <<reindexed, deleteFaults>>
     \/ DeleteFault /\ indexed' = TRUE /\ reindexed' = TRUE

\* delete_ingestion_job; bulk deletion calls it whether or not the document went.
DeleteJobRow ==
  /\ ingestJob # "gone"
  /\ ingestJob' = "gone"
  /\ UNCHANGED <<doc, indexed, ingesting, call, review, deleteFaults, notes>>

-----------------------------------------------------------------------------
Proceed(c) == CheckJob(c) \/ Mark(c) \/ DeletePoints(c) \/ Restore(c) \/ DeleteRows(c)

DeletionNext ==
  \/ \E c \in DeleteCalls : ReadRow(c) \/ Proceed(c) \/ DeletePointsFails(c) \/ Abort(c)
  \/ \E kind \in {"publish", "archive"} : BeginReview(kind)
  \/ FinishReview
  \/ Requeue \/ BeginIngest \/ FinishIngest \/ IngestFails \/ DeleteJobRow

DeletionSpec == DeletionInit /\ [][DeletionNext]_deletionVars

\* Whoever sees the document still there asks for its deletion again; calls, and the
\* worker, go on.
Repeat == \E c \in DeleteCalls : ReadRow(c)
Work == FinishIngest \/ IngestFails

DeletionFairSpec ==
  /\ DeletionSpec
  /\ WF_deletionVars(Repeat) /\ \A c \in DeleteCalls : WF_deletionVars(Proceed(c))
  /\ WF_deletionVars(BeginIngest) /\ WF_deletionVars(Work)

-----------------------------------------------------------------------------
(* Properties *)

\* Types of the variables.
DeletionTypeOK ==
  /\ doc \in DocRow \cup {NoDoc}
  /\ indexed \in BOOLEAN
  /\ ingestJob \in JobState /\ ingesting \in BOOLEAN
  /\ call \in [DeleteCalls -> Call \cup {NoCall}]
  /\ review \in {"none", "publish", "archive"}
  /\ deleteFaults \in 0..MaxDeleteFaults
  /\ raced \in BOOLEAN /\ unanswered \in BOOLEAN /\ reindexed \in BOOLEAN

\* What SQL serves has its points: deletions that fail, are repeated or crash never
\* bring back a document without them, except where a call restored a row that others
\* had changed, or was told of a failure that was none.
ServedIsIndexed == InService => indexed \/ raced \/ unanswered

\* A deleted document leaves no points behind, except those a worker writes that was
\* ingesting the file again all the while.
NoOrphanPoints == doc = NoDoc => ~indexed \/ reindexed

\* A deletion that got stuck halfway can be repeated until it succeeds, as long as
\* nobody deletes the job beside it.
StuckDeletionEnds == doc.state = "deleting" ~> (doc.state # "deleting" \/ ingestJob = "gone")
=============================================================================
