# Verification of the document chatbot

This directory holds TLA+ models of the chatbot: how an uploaded file becomes
points in Qdrant, how a document is published, superseded, reviewed, moved,
expired and deleted, how the copies of its state in SQL Server and in Qdrant are
kept in step, who may log in and see what, and how a chat turn runs across two
servers, is stored and is shown again.  TLC checks the models on small instances;
TLAPS proves most of the safety properties for every value of the constants.

Paths below are relative to the repository.  `repositories/` stands for
`src/backend/src/mech_chatbot/db/repositories/`.

Contents: [The system](#the-system), [What is modelled](#what-is-modelled),
[Publication](#publication), [Ingestion](#ingestion), [Deletion](#deletion),
[Department move](#department-move), [Access](#access), [Accounts](#accounts),
[Sessions and logins](#sessions-and-logins), [Answers](#answers),
[Chat turns](#chat-turns), [Rollout](#rollout), [Runs](#runs),
[Bounds](#bounds), [Fairness](#fairness), [Proofs](#proofs),
[Where code and text disagree](#where-code-and-text-disagree),
[Not modelled](#not-modelled), [Plan](#plan).

## The system

The program answers questions of a company's departments from its documents.  A
FastAPI process serves the API and the chat, a RAG server runs retrieval and
generation, and a worker ingests uploads.  SQL Server is the record of documents,
jobs, users and publication events.  Qdrant holds the points (chunks with their
vectors) and a copy of the metadata that retrieval filters on.  The two have no
common transaction, and most of the hard behaviour comes from that.

| Component | State | Operations | Talks to | What is hard | What makes it correct |
|---|---|---|---|---|---|
| Publication outbox (`repositories/publication.py`, `qdrant.py`) | `PublicationOutbox`; serving columns of `TaiLieu`; payload of the points | publish request, enqueue, claim, reap, saga, failure record, poll | SQL, Qdrant, review, the worker's loop | saga without a common transaction, inline requests beside the poll, locks that time out, crashes, compensation from a stale read | served only on a completed publication; one holder per event; no event lost; SQL and Qdrant agree again |
| Serving filter (`rag/retrieval.py`, `domain/serving_state.py`) | none of its own | `current_published_filter`, history filter | reads the payload | the payload may be behind SQL | superseded, expired and unpublished documents are not retrieved |
| Serving reconciliation (`reconcile_serving_state`) | none | read rows, rewrite payloads | SQL, Qdrant | copies a snapshot over newer writes | drift goes away |
| Review and lifecycle (`version.py`, `lifecycle.py`, `ui_queries.py`) | `ReviewStatus`, `LifecycleStatus`, `EffectiveStatus` | reject, archive, expire, bulk forms, review dates | SQL, Qdrant, jobs | two stores, racing publications | a withdrawn document does not answer |
| Ingestion job queue (`jobs.py`, `application/ingestion_runner.py`, `adapters/ingestion_runtime.py`, `workers/ingestion_worker.py`) | `IngestionJobs` | create, claim, progress, complete, fail, wait for quota, requeue, cancel, reject, delete | worker, administrators, pipeline | lease that expires under a live worker, unfenced writes, retry limit | no job processed twice, none lost, each decided |
| Ingestion pipeline (`ingestion/pdf/pipeline_implementation.py`, `document.py`, `document_pages.py`) | the document's row, its children, its points | reset, clear, extract, index, finalize, roll back | SQL, Qdrant, providers | partial failure; publication during an attempt | a published document keeps its points; a retry can succeed |
| Document deletion (`document.py`) | `LifecycleStatus = 'deleting'`, points, files | mark, delete points, files, rows | SQL, Qdrant, file system | a failure between the steps | no half-deleted document answers; deletion can be repeated |
| Semantic cache (`rag/semantic_cache.py`, `semantic_cache.py`) | cached answers with the documents they cite | look up, store, invalidate by document | chat, publication, review | an answer stored after its documents were withdrawn | no cached answer outlives its sources |
| Access policy (`rag/rbac.py`, `auth/authorization.py`, `application/protected_files.py`) | none | department, site and clearance decisions; protected downloads | users, payload | several encodings of one rule | filter and per-document decision agree |
| Access requests (`access.py`) | requests and grants | ask, approve, deny, revoke | access policy | double decisions, expiry | a grant follows one approved request |
| Authentication (`auth/core.py`, `auth/rate_limit.py`, `api/app_security.py`) | sessions, revocations, counters in Redis or in memory | log in, refresh, revoke, limit | every request | fall-back to memory, revocation racing a request | a revoked session is refused; guesses are bounded; a lock ends |
| Department move (`catalog.py`) | department of users, documents, points | `reassign_department_data` | SQL, Qdrant | long saga over many documents | a document is filed under one department |
| Chat turn and streaming (`application/chat_turn.py`, `api/routers/chat.py`, `api/rag_server.py`) | conversation, messages | begin, stream, finish, cancel | RAG pipeline, client | disconnects, errors in mid-stream | a turn ends once and is stored once |
| RAG pipeline (`rag/pipeline.py`, `pipeline_steps.py`, `execution.py`) | one request | rewrite, retrieve, rerank, generate, verify | Qdrant, providers | scoring of text | quality of answers |
| Rollout plans (`rollout.py`, `governance/rollout_guardrails.py`) | plans, waves | plan, start, gate, roll back | evaluation | order of waves, gates | no wave starts on a failed gate |
| Graph and community review (`graph_v2_review.py`, `community_summaries.py`) | proposals pinned to document versions | propose, review, serve | publication | versions that move on | only reviewed records of serving versions are used |
| Feedback and audit (`feedback.py`, `audit.py`) | rows | insert, list | all | little | nothing lost |
| Model and rerank providers (`llm/`) | budgets | calls with retry | outside services | timeouts | budget kept |
| Evaluation and feature activation (`evaluation/`, `governance/feature_activation.py`) | files | run by hand | none | little | signed activation only |

The components share three pieces of state: the row of a document in `TaiLieu`
(written by ingestion, review, publication and lifecycle), the payload of its
points (written by ingestion, publication, review and reconciliation), and the
status of its job (written by workers, administrators, reviewers and publication).

## What is modelled

| Module | What it is |
|---|---|
| `Publication` | outbox, saga, polling worker, reviews, serving reconciliation |
| `PublicationContract` | what publication promises, seen from SQL: a queue of events and the servable documents |
| `MCPublication` | instances and symmetry for TLC |
| `PublicationProofs` | types, basis of serving, single holder, lock of a slot, the cover of disagreements |
| `PublicationRefinement` | `Publication` implements `PublicationContract` |
| `PublicationContractProofs` | what the contract implies |
| `Ingestion` | job queue, one attempt with its rollback, administrators; publication in outline |
| `JobQueue` | what the queue of jobs promises: one pair of hands, counted tries, decisions |
| `MCIngestion` | symmetry of the workers for TLC |
| `IngestionProofs` | types, one worker per job, recoverability, points of published documents, `Ingestion` implements `JobQueue` |
| `DocumentDeletion` | `delete_document_completely` beside publication, archiving and ingestion |
| `DepartmentMove` | the saga of `reassign_department_data`, several at once |
| `AccessPolicy` | the access rule in its seven copies; the rights of a question under way |
| `Accounts` | accounts, roles, access requests, direct grants, the members of a department that is moved |
| `Sessions` | login, refresh, logout, reset of a password |
| `LoginLimit` | the limit on failed logins and its two stores |
| `Answers` | semantic cache and chat history: what an answer rests on |
| `ChatStream` | chat turns across both servers |
| `TurnContract` | what the two servers promise of a turn: bounded work, one outcome, an answer saved whole or not shown |
| `Rollout` | plans of departments, waves, gates |
| `MCAccess` | `Sessions`, `Accounts`, `Rollout`, `AccessPolicy`, `DepartmentMove`, `Answers` for TLC |
| `MCProgress` | `LoginLimit`, `ChatStream`, `DocumentDeletion` for TLC |
| `SessionsProofs` | types, reset, logout, rotation |
| `DepartmentProofs` | `Rollout` and `DepartmentMove` |
| `RightsProofs` | `AccessPolicy`, `Accounts` and `Answers`; the composition of `MCAccess` |
| `ProgressProofs` | `ChatStream`, which implements `TurnContract`, `DocumentDeletion` and `LoginLimit`; the composition of `MCProgress` |

Definitions named "Mutant of ..." are plausible faults of the definition they
name.  Each property of a passing run is violated when its mutant replaces that
definition (listed in `PROJECT.json`); they take no part in the specifications.

## Publication

### State

- `sql[d]`: the columns of `TaiLieu` that decide serving: `Servable`,
  `PublicationState`, `LifecycleStatus`, `EffectiveStatus`, `ReviewStatus`
  (as `approved`), `IsCurrent`, `ServingEpoch`.
- `qdrant[d]`: the same metadata on the points.  `publication_state` is left out
  of it: the code writes `servable = true` only together with `published`.
- `outbox`: the rows of `PublicationOutbox` in the order of `OutboxID`; `lock` is
  `none`, `held` or `stale` (older than five minutes).
- `publisher[p]`: where an API request or the worker stands in the saga, and the
  values it has read and will use later (`old`, `seen`).  A crash forgets it.
- `reviewer[r]`, `snapshot[r]`: the same for reviews and reconciling passes.

### Actions and code

| Actions | Code |
|---|---|
| `ValidateRequest`, `EnqueueRefused`, `EnqueueJoin`, `EnqueueReopen`, `EnqueueInsert` | `publish_document`, `_create_outbox_event`: check, then join, reopen or insert under one SQL transaction |
| `ClaimQueued`, `ClaimLost`, `PollClaim`, `PollNothing` | `_claim_outbox` (reaps old locks, counts the attempt) inline and from `reconcile_publications` |
| `BeginPublish`, `BeginFails` | lock of the slot, contract, reading of the row and of the documents it supersedes |
| `StageQdrant`, `SyncSql`, `BatchQdrant`, `FinalizeSql`, `FinalizeFails`, `RollbackQdrant` | `_publish_event_unlocked`, one action per round trip |
| `DisableQdrant`, `MarkFailed` | `_mark_outbox_failure` |
| `Crash`, `LockExpires` | death of the process, passing of five minutes |
| `ArchiveQdrant`/`ArchiveSql`, `RejectQdrant`/`RejectSql`, `ExpireSql`/`ExpireQdrant` | the two steps of `archive_document`, `reject_document`, `mark_document_expired` |
| `ReconcileRead`, `ReconcileWrite` | `reconcile_serving_state`, `backfill_qdrant_servable` |

A call to Qdrant that fails may have been applied all the same, and a failed batch
may have stopped after any of its operations.

Abstractions: the outcome of a COMMIT is known to the caller; checks of governance
and of the actor's rights may fail at any time; due times (`AvailableAt`) and the
order of the poll are dropped, so a failed event may be retried at any later time;
every document has points; the reconciling pass reads every row (no `TOP`);
`EffectiveStatus = 'draft'` does not occur; reading the contract and the rows is
one action because nothing but the document's lifecycle is validated there.
`set_document_current` always answers 409 and has no action.

Publishers and reconcilers run concurrently although a host runs one worker
(`workers/single_instance.py`): requests publish inline, an administrator can
start a pass (`POST /documents/reconcile-serving`, `api/routers/documents.py:527`),
and the lock of the host does not hold back workers of other machines
(`docs/windows-service-operations.md:208-216`).

### Properties

- `ServingBasis`: a servable row carries the epoch of a *done* event of that very
  document and is published, approved and current, although finalization checks
  nothing again and holders are not fenced.
- `OneHolder`: within the lock time an event has one holder.
- `VariantLockHolds`: two `new_variant` publications never take the same slot.
- `DisagreementsAreCovered`: while publications under way are of different documents
  and slots, whenever Qdrant serves what SQL does not, or the reverse, an unfinished event accounts
  for it (of the document, `UnbackedIsCovered`, or of a new version of its slot,
  `HiddenIsCovered`), through crashes, half-applied batches and failed compensations.
- `ImplementsContract`: the SQL side implements `PublicationContract`.
- `EventsSettle`: every event is completed or uses up its attempts.
- `CopiesConverge`: when faults, requests and reviews stop, Qdrant comes to agree
  with SQL on all columns that are copied.

## Ingestion

### State

- `job[j]`: `Status`, `RetryCount`, the lease (`LockedBy`/`LockedAt`), the quality
  of the report, and whether the failure was one of quota.  `classifying`,
  `extracting` and `embedding` are one status, `working`: no statement of the code
  but the progress display tells them apart.
- `doc[j]`: the columns of the document's row that protect it or let it be
  published; `indexed[j]`: whether it has points.
- `worker[w]`: the position of a worker in its attempt.  A crash forgets it.
- `publication[j]`, `rejecting`: publications and rejections of the document under
  way, in outline.

### Actions and code

| Actions | Code |
|---|---|
| `Claim`, `LockExpires` | `get_pending_job` with its lease of fifteen minutes |
| `Classify`, `Extract`, `Report`, `Complete`, `FailReport` | `IngestionRunner.run`, `ingestion_runtime.py` (status writes that name the job only) |
| `Reset`, `ResetRefused`, `ResetFails` | `_get_or_create_doc`, `reset_document_metadata` |
| `Clear`, `Index`, `IndexNothing`, `Persist` and their failures | `process_and_ingest_pdf`, `_finalize_successful_persistence` |
| `Rollback`, `MarkDocumentFailed` and their failures | `_rollback_failed_ingestion`, `mark_document_ingest_failed` |
| `MarkJobFailed`, `WaitForQuota`, `WriteFails` | `mark_job_failed`, `mark_job_waiting_quota`, `reconcile_unexpected_failure` |
| `Requeue`, `Cancel`, `MarkPendingReview`, `RejectJob`, `DeleteJob` | the job endpoints and their guarded UPDATEs |
| `BeginReject`, `FinishReject`, `RejectFails` | `reject_document` of the job's document |
| `RequestPublication` ... `FailPublication` | `publish_job` and the saga, cut down to its accesses to this document |

Abstractions: a job has one document and a document one job (an upload has a path
of its own, and `_get_or_create_doc` refuses a row from another path); priorities,
due times and ETA are dropped; all pages are one step of extraction and one of
indexing; extraction and the quality gate may fail at any time; governance is
reduced to "the row exists, is shared with departments, is not rejected"; a last
write of the job's row that raises and is swallowed is the same as a crash there;
the children of the row and the snapshot of its pages are left out; quota is
counted among the faults because the code sets no limit to quota waits.

### Properties

- `OneWorker`: within the lease no two workers run one job, whatever is requeued,
  rejected or deleted meanwhile.
- `Recoverable`: an unfinished job can be taken up again.
- `PublishedIsIndexed`: while nothing has failed, a document SQL serves has its
  points.  Publication asks nothing of the job, so this rests on finished jobs
  keeping their lease (`mark_pending_review` does not clear it), which keeps
  `requeue_job` out.
- `JobsSettle`: every upload is decided, even if workers die on it.
- `ImplementsQueue`: the table with its leases is a `JobQueue`.  `JobStage` maps a
  row: a decided job without a lease may be asked for again (`decided`), one that
  carries a lease was finished or rejected under way and may not (`shelved`).  Leases
  and their expiry, documents and the parts of an attempt are stutters of the queue.

## Deletion

`DocumentDeletion` follows one document through `delete_document_completely`
(`repositories/document.py:442` on).  `doc` is its row (`LifecycleStatus`,
`IsCurrent`), `indexed` whether Qdrant has points of it, `ingestJob` the job with
its path, `call[c]` a call with what it read at its start (`prev`).

| Actions | Code |
|---|---|
| `ReadRow`, `CheckJob` | reading of the row, refusal while the job is under way or its path is not unique |
| `Mark` | the row becomes `deleting` and not current |
| `DeletePoints`, `DeletePointsFails`, `Restore` | removal of the points; on failure the row gets `prev` back |
| `DeleteRows` | one transaction for the document, its children and its job |
| `Abort` | another failed statement, or a crash |
| `BeginReview`, `FinishReview` | publication and archiving: what they check, what they write later |
| `Requeue`, `BeginIngest`, `FinishIngest`, `IngestFails`, `DeleteJobRow` | repeated ingestion and deletion of the job |

`ServedIsIndexed`: what SQL serves has points.  Two behaviours are excused, and the
history variables say which: a row was restored or published over somebody else's
change (`raced`), or a removal was reported as failed and had been done
(`unanswered`).  `NoOrphanPoints`: a deleted document has no points, unless a worker
wrote them after the removal.  `StuckDeletionEnds`: a half-deleted document can be
deleted, unless its job was deleted beside it.

## Department move

`DepartmentMove` models `reassign_department_data` (`repositories/catalog.py`).
`fileRow[f]` and `filePoint[f]` are the departments and the `servable` flag in SQL
and on the points; `mover[m]` is a move with its list of documents (`todo`) and the
rows it read.  `HidePoint`, `CommitMove`, `ShowPoint` are the forward way, one
request to Qdrant or one SQL transaction each; `HideFails`, `CommitFails`,
`UndoHide`, `ShowFails` the ways back; `CrashMove` may happen anywhere;
`WithdrawPoint`/`WithdrawRow` is a document withdrawn meanwhile, and
`SwitchOffice` an administrator who enables, disables or archives a department.

`ShownAsFiled`: a retrievable point carries the departments of its row.  `stale`
collects the documents that are excused: two moves had them in hand at once, they
were withdrawn while a move had them, or they were moved again after a move that
did not end.  `QuietMovesAgree`: without faults a move leaves row and point equal.

## Access

`AccessPolicy` is a set of predicates over a profile (roles, departments, clearance,
sites) and a record (departments, level, site), and of actions that change either
one table at a time.  Each predicate is one place of the code:

| Definition | Code |
|---|---|
| `FilterPasses` | `create_rbac_filter`, evaluated on the payload |
| `InAccessScope` | `document_matches_access_scope`, on what was found |
| `MayOpen` | `evaluate_document_access`: downloads, cache, pinned sources |
| `BomFilter` | the conditions of `search_bom` |
| `Listed` | `_document_access_filters` |
| `KeptInHistory` | `_history_source_redactions` |
| `ProbeBlocks` | `probe_restricted_access` |
| `EffectiveActor` | `effective_actor`, the rights of a question under way |

`PoliciesAgree`: for a user with a role the first five agree on every document, the
history with them in strict mode, and the check after the search withholds only
incomplete records.  `DenialIsExplained`: in strict mode the probe reports a
document exactly if the search withholds it.  `RightsNeverAddUp`: what a question
may open, its user might open when it was accepted and may open now.

## Accounts

`Accounts` has `account` (`Users`, `UserRoles`), `clearance`, `membership`,
`accessRequest`, and transactions `txn[t]` of two steps, what they read and their
commit.  Those of `BeginAdmin`/`CommitAdmin` (disable, delete, take the admin role)
hold `MechChatbot.ActiveAdminMutation`; those of `BeginCreate`/`CommitCreate` and
`BeginDecide`/`CommitDecide` (`repositories/access.py`) hold nothing, nor do those of
`BeginTransfer`/`CommitTransfer`, by which `reassign_department_data` moves the members
of a department (`repositories/catalog.py:429-443`; what it does to the documents is
`DepartmentMove`).  `Enable`, `MakeAdmin`, `CreateUser`, which gives departments too,
`SetClearance`, `SetDepartments` and `RevokeDepartment` are single transactions.

`AdminRemains`: an active administrator is always left.  The initial state has one,
as an installation has.

`GrantsAreExplained`: what a user holds was given directly (`given`) or by a request
that reads `approved` now; a department also, if moves took the user there, one after
the other, from a department that was (`came`, `Origins`).  The move writes memberships
from a list it read before, beside revocations, deletions and other moves, so a list
of the wrong users would let somebody in.

One race between reviewers is excused, by its exact shape (`overtaken`): a request is
approved while another reviewer, who has read it as pending, is rejecting it.  The
rejection is written over the approval, and the right stays.  Nothing else is: not two
rejections, not a second decision that begins after the first, not a deletion meanwhile.

## Sessions and logins

`Sessions` (`auth/core.py`, `api/app_security.py`, `api/routers/operations.py`):
`tokens` are the signed records handed out, `epoch` the newest generation of each
user, `revocations` the other rows of `AppSessionRevocations` with the time at which
they expire.  `request[r]` is a handler between two reads.  `StartLogin`,
`ReadEpoch`, `CheckPassword`, `CheckEpoch`, `IssueNew` are a login; `Present`,
`Verify`, `VerifyRevoked`, `IssueRefreshed`, `Rotate` a refresh; `Present`,
`Verify`, `VerifyRevoked`, `ReadClock`, `Revoke` a logout; `ResetPassword` and `Tick`
come between any two of them.

`ResetEndsSessions`: after a reset no token of another password is accepted, also
none whose login or refresh was under way.  `LogoutIsFinal`: nor a token of a
session that was logged out, if its refresh began no later.  `RotatedIsRetired`: nor
a token that was exchanged.

`LoginLimit` (`auth/rate_limit.py`): `failures[s]` is what a store (the table or
the memory of a process) counts for each cutoff: how many failures are at most so
old; `Recent` takes the cutoff of the window.  `Admit`, `Refuse`, `RecordFailure`,
`ClearFailures` are the steps of a login; `LookupFails` is one that breaks off in the
database and counts as nothing; `Outage` and `Restart` are the faults;
`AgeFailures` lets time pass.  `GuessesBounded` says by how much concurrent logins
and outages may overrun the threshold; `LockoutEnds` that a lock ends.

## Answers

`Answers` is one user's answers.  A *pin* is a source (a page of a document with the
metadata hashed with it) and the revision that was read; a *basis* is the set of
pins an answer rests on.  `cache` is `SemanticCache`, `chats` the history with
`ChatEvidenceManifest` and `AnswerEvidence`, `readable` what the rights cover now.

| Actions | Code |
|---|---|
| `Ask`, `FindEntry`, `MissCache`, `CheckCurrent`, `CaptureReplay` | lookup with its two checks (`rag/semantic_cache.py`) |
| `Retrieve`, `Generate`, `Store` | generation, storing after a completed stream |
| `SaveChat`, `SaveEvidence`, `Abandon` | `repositories/chat.py`: the row, then the evidence |
| `Edit`, `Withdraw`, `Delete`, `ChangeRights`, `Invalidate`, `ClearHistory` | what happens meanwhile |

Each check is made under the rights the code uses there: the lookup and the search
under those of the acceptance of the question that still hold (`EffectiveRights`,
`effective_actor`), the evidence under those of the acceptance (`record.actor`), the
history under those of its reader now.

`ChatShown` is what `get_chat_history` shows.  `HistoryIsReadable`: what it shows
rests only on sources that may be read now in that revision.  No property speaks of a
replay: the lookup checks an entry whole in the step that takes it, whatever a late
store may have put behind an invalidation, and a property would repeat that guard.

## Chat turns

`ChatStream` follows a turn through the application server
(`application/chat_turn.py`) and the RAG server (`api/rag_server.py`).  `permits` is
the semaphore, `worker[t]` the handler and its thread, `emitted[t]` its queue,
`forwarded[t]` what the response has taken, `response[t]` the event stream,
`cancel[t]` the flag, `turn[t]`, `doneSeen[t]` and `chatRow[t]` the runner and what
it has stored.  `Arrive` ... `Release` are the RAG server, `BeginTurn` ...
`SaveEvidenceFails` the runner, `Leave` is a browser that goes, `RestartRag` and
`RestartApp` are the deaths of the servers.

The runner is a generator that the response to the browser pulls
(`routers/chat.py:509-517`).  While it has an event to hand over, of the stream
(`handing`) or of the sources (`citing`), it stands still until the browser takes it
(`BrowserTakes`) or leaves; no timer runs then.  The 300 s of the adapter run only while
it waits for the RAG server and nothing has come (`ReadTimesOut`,
`chat_runtime.py:131-191`).  `ReadFails` is a refused, failed or broken connection.

`PermitsAreKept`: free permits and admitted threads add up to the limit.
`ImplementsTurns`: the two servers implement `TurnContract`, in which at most
`MaxConcurrent` turns are worked on, each reports one outcome, and a turn that has not
ended saves the reported answer, the row before the evidence, or nothing.  Permits,
threads, queues, flags and connections are stutters of it or choices.
`SavedIsComplete`, which is proved: a saved turn belongs to a stream with its done
event and no error.  `TurnsEnd`: every turn ends, unless from some point on it waits for
a browser that neither reads nor leaves.  `PermitsReturn`: every permit comes back, also
then.

## Rollout

`Rollout` (`repositories/rollout.py`): `plan[d]` is a wave and a stage, `ready[d]`
the conjunction of the prerequisites, which comes and goes, `enabled[d]` the switch
of the department, `edit[e]` a change of a plan.  `ReadReadiness` is done before the
application lock `department-rollout-plan` is taken, `TakeLock` checks under it,
`Write` commits; `ReadinessChanges` and `SwitchDepartment` do not take it.

`WaveCapacity`: no wave exceeds its capacity.  `StagesInOrder`: no sequence of
changes leads around the pilot wave or the dark launch.  `WavesInOrder`: a
department goes live only when all enabled departments of earlier waves are active.

## Runs

Passing runs (times on two TLC workers on an idle machine):

| Run | Instance | Distinct states | Shows |
|---|---|---|---|
| `publication_races` | 2 revisions of a slot, a request, the worker, a reviewer; 2 attempts, 2 events, 1 fault; holders may outlive their lock | 3.1 million, 91 s | `TypeOK`, `ServingBasis` |
| `publication_fenced` | the same with `new_version` and `new_variant`, holders within the lock | 1.8 million, 107 s | `OneHolder`, `VariantLockHolds`, `ImplementsContract` |
| `publication_apart` | `ApartSpec`: 2 revisions of a slot, one live, and a document of no slot; a request, the worker, `standalone` and `new_version`; 2 attempts, 2 events, 2 faults; holders may outlive their lock | 1.9 million, 80 s | `DisagreementsAreCovered` |
| `publication_convergence` | a request, the worker, a reviewer, a reconciler; 1 event, 2 attempts, 1 fault, fair | 127 thousand, 50 s | `EventsSettle`, `CopiesConverge` |
| `ingestion_queue` | 1 upload, 2 workers, 2 attempts, 2 faults, 3 operations of administrators, 1 publication, fair | 191 thousand, 26 s | `TypeOK`, `OneWorker`, `Recoverable`, `PublishedIsIndexed`, `JobsSettle`, `ImplementsQueue` |
| `access` | see [Bounds](#bounds); one component at a time | 2.3 million, 180 s | types and fourteen properties of `Sessions`, `Accounts`, `Rollout`, `AccessPolicy`, `DepartmentMove`, `Answers` |
| `progress` | see [Bounds](#bounds); one component at a time, fair | 140 thousand, 120 s | types and nine properties of `LoginLimit`, `ChatStream`, `DocumentDeletion` |

The modules of `access` and of `progress` share no variable.  A behaviour of
these runs follows one component, chosen at the start (`focus`), and the others
stay at one of their initial states, so the numbers of states add up.  Nothing is
lost: a property of one component cannot be broken by the steps of another.  What
is proved of the components holds in the composition, since each of its behaviours is
one of every component (`ComponentsRun`, `RunsLoginLimit`, `RunsChat`, `RunsDeletion`).

Runs that end in a violation, each of one property a text of the repository
states: `superseded_served`, `drift_repair`, `stranded_job`,
`reingested_published`, `retried_unpublishable` (see
[below](#where-code-and-text-disagree)).

Deadlock is checked in the publication runs, where the polling worker never
stops, and not in the others: every upload may be decided, every turn ended, the
document gone, and every bounded operation used up.

## Bounds

Bounds are constants and are named in the guards: `MaxEvents`, `MaxFaults`,
`MaxReviews`, `MaxControls`, `MaxPublications`.  `MaxAttempts` and `MaxRetry` are
parameters of the program.

- Two documents of one slot are enough for superseding, for the unique index and
  for the lock of the slot; `superseded_served` needs a third.
- Two attempts give a retry after a failure and the exhaustion of attempts.
- Two events give a reopened event beside a new one, or two actions; with a document
  that is live at the start they let `publication_apart` supersede it and publish it
  again.  Its document of no slot is published beside the others.
- One fault gives every single crash, failed call and half-applied batch; the
  second in `publication_apart` and `ingestion_queue` gives a failing
  compensation after a failure.
- Jobs touch each other only through the workers that run them, so one job shows
  what may happen to a job; two workers give the races for it.  Two jobs with one
  fault and two operations were explored once (1.4 million states) and showed
  nothing new.
- `access`: 1 user, 2 passwords, 2 requests at once, 3 in all, 2 tokens, 1 reset, a
  lifetime of 2 ticks of 4 (a token expires, a revocation expires and is purged,
  and a handler spans either); 2 accounts, 1 request, 2 transactions, 2 departments,
  2 levels, 1 direct change (every pair of transactions that race for one row; accounts
  are followed in two ways, `OfAccounts` with 1 department, requests for levels and no
  moves, and `OfMembers` with 2, requests for departments, and neither levels nor changes
  of roles, with which memberships have nothing to do);
  2 departments in 2 waves of capacity 1, 2 editors (a full wave and an earlier
  one); 1 department and 1 site, all levels and roles (the rule quantifies over
  departments and sites, and the proof covers any number); 1 document, 2 departments,
  2 movers, 3 moves, 2 faults (a failed move, its failed undoing, a later move);
  2 sources, 1 question at a time, 1 edit, 1 entry, 1 stored answer, which is enough
  to store behind an invalidation, to replay, and to delete a stored answer's row
  before its evidence.
- `progress`: 2 processes, 2 logins at once, a threshold of 2 in a window of 2,
  1 outage; 2 turns for 1 permit, 1 token; 2 calls of deletion, 1 fault.
- Larger instances were searched in part without an error: `DepartmentMove` with 2
  documents (11 million states) and with 4 moves and 3 faults, `Answers` with 2
  questions at once and 2 stored answers (10 million).
- Documents not live at the start are alike, and so are workers and requests.
  Symmetry is used over them, never in a run
  that checks liveness.

## Fairness

`Publication!Fairness`: a running publication, a started review and a reconciling
pass go on; the worker polls again; five minutes pass.  `Ingestion!FairSpec`: an
attempt goes on, a free worker claims a job when there is one, fifteen minutes
pass.  This is what the loops of `workers/ingestion_worker.py:48-71` and `128-156`
do (ingest, publications, reconciliation, sleep, again), what a service manager
restarts after a crash, and what the clock does.  Everything is weak fairness.
Nothing obliges anyone to request, review, requeue or reject, nothing obliges the
publications of `Ingestion` to advance, and faults are never obliged to happen.

`LoginLimitFairSpec`: time passes.  `ChatFairness`, for each turn: waiting for a
permit ends after 120 s with a permit or a refusal (`api/rag_server.py`), the
thread runs and meets its deadline, the event loop runs the thread's callback, the
adapter reads what has come and gives up after 300 s in which nothing comes, and the
runner saves what it has read.  No connection has to fail, no browser has to read, to
stay or to leave, and no response has to be opened; a browser that does none of these
keeps its turn, but no permit.  `DeletionFairSpec`: a call goes on, a worker takes up a queued job and
ends it, and whoever wants a document deleted asks again while it is half deleted;
the last is an assumption about users, and without it nothing in the code
continues a deletion that stopped (the row stays `deleting`, out of service).
`MCProgress` restates these conditions for the component that moves.

In `Ingestion` fairness is on a worker's attempt as a whole: a step that may fail
is one of several ways on, and the failing ones are bounded.

## Proofs

Each module names the assumptions on its constants (`PublicationAssumptions`,
`SessionsAssumptions` and so on); TLC evaluates them in the runs of the module.
They ask little: bounds and limits are numbers, placeholders are no members of the
sets they stand beside, and sets that are counted are finite.

| Theorem | For every value of the constants |
|---|---|
| `TypeCorrect` | `Spec => [](TypeOK /\ Engaged)` |
| `ServedOnCompletion` | `Spec => []ServingBasis` |
| `EventsHaveOneHolder` | `Spec => []OneHolder` (which says nothing if `SlowHolders`) |
| `PublicationImplementsContract` | `Spec => ImplementsContract`, if `~SlowHolders` |
| `VariantLockHoldsAlways` | `Spec => []VariantLockHolds` |
| `DisagreementsAreCoveredAlways` | `ApartSpec => []DisagreementsAreCovered`, if `NobodyReviews` |
| `LonePublisherCovers`, `VariantsCover` | `Spec => []DisagreementsAreCovered` for one publisher, and `Spec /\ []DocsApart => ...` where all actions are `new_variant` |
| `CompletionServes` | `ContractSpec => OnlyCompletionServes` |
| `IngestionTypes` | `Spec => []TypeOK` |
| `OneWorkerPerJob` | `Spec => []OneWorker`, if `~SlowWorkers` |
| `JobsRecoverable` | `Spec => []Recoverable`, if `~SlowWorkers` |
| `PublishedIsIndexedAlways` | `Spec => []PublishedIsIndexed`, if `~SlowWorkers` |
| `IngestionImplementsQueue` | `Spec => ImplementsQueue`, if `~SlowWorkers` |
| `SettledForGood` | a finished, dropped or deleted job is never taken up again, if `~SlowWorkers` |
| `SessionsTypes`, `ResetEndsSessionsAlways`, `LogoutIsFinalAlways`, `RotatedIsRetiredAlways` | `SessionsSpec => []...` |
| `RolloutTypes`, `WaveCapacityAlways`, `StagesInOrderAlways`, `WavesInOrderAlways` | `RolloutSpec => ...` |
| `MoveTypes`, `ShownAsFiledAlways`, `QuietMovesAgreeAlways` | `MoveSpec => []...` |
| `PolicyTypes`, `PoliciesAgreeAlways`, `DenialIsExplainedAlways`, `RightsNeverAddUpAlways` | `PolicySpec => []...` |
| `AccountsTypes`, `AdminRemainsAlways`, `GrantsAreExplainedAlways` | `AccountsSpec => []...` |
| `AnswersTypes`, `HistoryIsReadableAlways` | `AnswersSpec => []...` |
| `ChatTypes`, `PermitsAreKeptAlways`, `SavedIsCompleteAlways` | `ChatSpec => []...` |
| `ChatImplementsTurns` | `ChatSpec => ImplementsTurns` |
| `TurnsOverForGood` | a turn whose work is over, whose outcome is reported or that has ended is never taken up, told otherwise or saved again |
| `DeletionTypes`, `NoOrphanPointsAlways`, `ServedIsIndexedAlways` | `DeletionSpec => []...` |
| `LoginLimitTypes`, `GuessesBoundedAlways` | `LoginLimitSpec => []...` |
| `ComponentsRun` | `MCAccess!MCSpec` implies `SessionsSpec`, `AccountsSpec`, `RolloutSpec`, `PolicySpec`, `MoveSpec` and `AnswersSpec` |
| `AccessTypes`, `ProgressTypes` | `MCSpec => []AccessTypeOK`, `MCSpec => []ProgressTypeOK` |

The publication proofs rest on `Typed`, which is `TypeOK` and `Engaged`: a running
publication has a document, and from the claim on an event of that document.
`TypeOK` is not inductive without it, since steps index the outbox with what the
publisher remembers.  With `Typed`, `ServingBasis` and `OneHolder` are inductive.
The refinement needs `ServingBasis` (a completed event is not reopened
behind a served document), `OneHolder` (who completes or fails an event is
processing it) and `OldInFamily` (what is superseded belongs to the slot).
Every action of `Publication` maps to one step of the contract or to a stutter.

`VariantLockHolds` needs `LockInv`: an event keeps the action its publisher works
under (`ActionKnown`), no two `new_variant` publishers hold the lock of one slot
(`LocksApart`), and `SlotKept`, the property extended to the compensation.  Only
`Finalize` makes a document current, and a `new_variant` publisher in that step has
the lock of its slot, so whoever else has one has another slot.  The theorem does
not ask that holders stay within the lock of their event: the lock of the slot
belongs to the database session and does not expire.

`DisagreementsAreCovered`, that is `UnbackedIsCovered` and `HiddenIsCovered`, is about
publications that keep apart, without reviews (`NobodyReviews`), for any number of
publishers, documents, slots, events, attempts and faults, with holders within their
lock or not.  `ApartSpec` is `Spec` with the assumption stated as a conjunct of its
steps: two publishers never hold events of one document at a time (`DocsApart`), nor
are two between validation and finalization in one slot (`SlotsApart`).  The first is
not enforced by the code; the second is what the application lock does for
`new_variant`, and `VariantsCover` takes it from `LockInv`.
Neither can go.  In the instance of `superseded_served`, where a second
publisher compensates what the first has superseded, TLC refutes `UnbackedIsCovered`
as well; two `standalone` publications of one document at once refute
`HiddenIsCovered` (the later one stages the point as hidden after the earlier one has
finished, and has no new version behind it); and reviews write SQL and points in
two steps.  `CoverInv` extends the two properties by a third kind of disagreement
(`Covered`): a document current but not servable has an event that is not done.
Without it a compensation, which shows every document it had read as current again,
might leave one shown for good.  `Undisturbed` is what a publisher knows from the
claim on because nobody interferes: its document is not servable, its event is open,
what it supersedes is still current, and before finalization all points are as its
batches left them.  That others leave this alone has three reasons, a lemma each:
enqueueing and claiming only take documents out of service, also documents that
somebody is publishing or superseding (`RowsKeptDisturbNobody`); a publication under
way changes its own document and, with its slot to itself, the points of those it
supersedes (`HeldOthers`); and what a finalization completes is the event of another
document (`CoverFinalize`).

The proofs of `OneWorker` and `Recoverable` add `Leased`: the job somebody runs
carries a held lease and has retries left, unless it was deleted; a waiting or
failed job carries none.  `OneWorker` alone does not survive `Claim` (a claimable
job might have a worker) nor `Recoverable` alone a status write (a worker might
set a job in progress that has no lease).  The lemmas `LeaseQuiet`, `LeaseKept`
and `LeaseReleased` say what a write of a job's row may do, and each action is one
of these writes.  The assumption `~SlowWorkers` is needed: without it
`stranded_job` refutes the conclusion that jobs are decided.

`PublishedIsIndexed` relates three tables that no lock holds together.  Its invariant,
`PreparedInv`, speaks of the time before a fault: once a document is shared with
departments, which publication asks for, its points are complete, an attempt still
under way has only the report and the last status to write, and a job nobody runs is
finished and carries a lease (`Prepared`).  Then no attempt can begin that would clear the
points.  `Alone` says that the attempt is the only one on that job, deleted or not,
which `OneWorker` does not.

`IngestionImplementsQueue` takes `LeaseInv` and the types: a claimable job has no
holder and has tries left, a job without a lease is in nobody's hands, so what is
requeued is free.  The lemmas are about the writes of a row: each changes its
`JobStage` as one step of `JobQueue` does, or not at all.
`SettledForGood` follows from the steps of `JobQueue` alone and is carried over to the
table by the refinement.

The other proofs strengthen their properties as follows.

- `SessionsInv` adds what the handlers hold.  A slot's token has the epoch that was
  current when the password was checked, or an older one (`SlotsOK`), so a reset
  makes every token under way worthless; identities are given out once
  (`TokenNumbers`); and each answered rotation or logout has a row that outlives the
  tokens it must stop (`RotatedRevoked`, `LogoutsRevoked`).  `Insert` purges rows, so
  `Lasting` relates a row to the expiry of the token and not to the present.
- `RolloutInv`: whoever is about to write holds the lock, and what he has checked
  still holds, because only holders write plans (`WritersOK`); a plan in dark launch
  has its date (`DarkLaunchNoted`).
- `MoveInv`: a document that is not in `stale` is in the hands of at most one move, and
  its point and row stand to each other as the step of that move demands.
- `QuietInv`: while nothing has failed no move is undone, and every document outside
  `stale` that its move has not hidden yet, or has shown again, agrees with its row.
- `AccountsInv`: the transaction that is about to take an administrator away holds the
  lock, and another active one remains (`AdminHeld`); a request decided in a
  transaction is pending or overtaken (`DecidesPending`).  `GrantsAreExplained` asks what
  a department is explained by now, but a move inserts those it has read before: a
  department with an explanation (`Accounted`) keeps it for good, in `membership`
  (`HeldIsAccounted`) and in the list of a move under way (`TransfersAccounted`).
- `AnswersInv`: a complete manifest has the whole basis as evidence (`EvidenceWhole`),
  and a question that is saving its evidence has its own chat (`OwnChat`).
- `ChatInv`: the events of a queue have the order of the thread's steps
  (`EventsInOrder`), and a runner that saves has seen the done event
  (`SaverHasDone`).  `TurnInv` adds for the refinement that a turn has no row before it
  saves one and is not complete before its evidence (`RowsInOrder`), so `SaveRow` is
  the `Save` of `TurnContract` and no second one.  `PermitsAreKept` gives its bound: who
  takes a permit finds fewer than `MaxConcurrent` turns going.  `EventsInOrder` gives
  that a thread which is about to report has reported nothing.
- `PointsInv`: a call that is about to delete the rows has removed the points
  (`Removed`), and a worker that ingests has begun by clearing them.
- `ServiceInv`: a call that has been alone since it read the row holds its present
  value (`ReadIsCurrent`).  Outside the two excuses, a marked row says `deleting`, at
  most one call can restore it, and what that call would bring back still has its
  points (`RestoreSafe`).
- `GuessInv` counts a login that was let through as if its failure were recorded
  already: recent failures and `Unrecorded` logins of a store together stay within the
  bound, so recording adds nothing, admission only to a store below the threshold,
  and an outage, which moves logins from store to store, at most all of them.  That a
  younger cutoff counts no more (`Counts`) is what the sliding of the window needs.
- `AccessPolicy` needs only its types: the agreement is shown for all profiles and
  records.

Model-checked and not proved: liveness.  `EventsSettle`, `CopiesConverge`,
`JobsSettle`, `LockoutEnds`, `TurnsEnd`, `PermitsReturn` and `StuckDeletionEnds` are
beyond the prover, as is everything about ENABLED and fairness; `QueueSpec`,
`ContractSpec` and `TurnSpec` are safety specifications for that reason.  Every safety
invariant, action property and refinement that a passing run checks is stated by a
theorem; what the theorems assume beyond the named assumptions on the constants
(`~SlowWorkers`, `~SlowHolders`, `NobodyReviews`, `ApartSpec`) is in the table.

## Where code and text disagree

- `superseded_served`: two new versions of one document are published at once.
  The second one's finalization is refused by the unique index, and its
  compensation makes every document it had read as current retrievable again,
  among them the one that the first has superseded meanwhile.  No call fails.
- `drift_repair`: reconciliation "repairs drift", but does not copy
  `EffectiveStatus`: a document expired in SQL whose payload update failed
  stays retrievable.
- `stranded_job`: status writes do not ask whether the worker still holds the
  job.  A worker that outlived its lease can set a job in progress that another
  worker has failed and unlocked, and die: the job is in progress without a lease
  and nobody takes it up again.
- `reingested_published`: the rollback of a failed attempt deletes the points
  before it looks whether the document has been published meanwhile.
- `retried_unpublishable`: a failed attempt marks the document's lifecycle
  rejected; a successful retry brings the job to review and leaves that mark,
  with which publication refuses the document.

The texts are quoted with their lines in `PROJECT.json`.

Further observations, of behaviours that the models contain and the properties
excuse by name, or of a text and the code beside it:

- `LOCKOUT_SECONDS = 300` (`auth/rate_limit.py:21`) and the message of five minutes
  have no effect: a name stays locked while the window of 600 s holds the failures.
- `resolve_access_request` says that an approval raises the clearance; its MERGE sets
  the level that was asked for, also a lower one.
- A decision reads the status of its request without locking the row and writes whatever
  the status is by then (`repositories/access.py:128-162`): two reviewers who decide at
  once are both told that it is done, and a request that reads `rejected` may have granted
  (`overtaken`).
- A member whose membership is revoked, or whose account is deleted, while his department
  is being moved is put into the target department all the same: the list was read before
  (`repositories/catalog.py:429-443`).
- A refresh that reads the clock after a logout has read it, and looked for
  revocations before, gives a token that outlives the row of the logout; two
  refreshes of one token at once both succeed.  `LogoutIsFinal` and
  `RotatedIsRetired` speak of the others.
- Two overlapping deletions of a document, or a removal that is reported as failed and
  was done, can bring back a served document without points (`raced`,
  `unanswered`).  Bulk deletion removes the job also where the document's deletion
  failed (`application/document_review.py:282-285`); such a document cannot be
  deleted any more.
- After an unfinished move, whose points are hidden and carry the old department, a
  second move that fails and is undone shows them again with that department
  (`repositories/catalog.py:488-494`).  The code's message asks to check both stores
  first; `LeftBehind` marks who did not.
- Downloads ask for no role, the search and the parts lists do; in the old mode
  (`strict_site_filter` off) the history does not ask whether the user has a site,
  and the probe reports documents without a site as restricted.
- If saving the row of a turn fails, the done event comes without an id of the chat
  and without a warning; if saving its evidence fails, a warning says that the turn
  was not stored, though the row exists (the history hides it).
- A browser that stays connected and does not read holds its turn, a generator of the
  application server, for as long as it likes.
- If binding the thread's context fails, no end event is put on the queue: the turn
  ends by the read timeout of 300 s.


## Not modelled

Within the modelled components: due times, priorities, ETA, the descriptive columns,
column-by-column governance checks, pages and children of a document, bulk forms of
review, review dates, the calendar (effective and expiry dates are a status),
`rollback_to_version`, `TOP (limit)` of the reconciling pass, evaluation
collections, page images and uploaded files, letter case in access rules, history
readers, similarity scores and the time to live of cached answers, the computation
of a department's readiness, the blocking endpoint `/chat`, pilot replays, the
request rate limit, audit logging (which catches its own errors), and the limit of 10
points of the access probe: `ProbeBlocks` says of one document whether it is reported
when the probe meets it.

Whole components: the RAG pipeline (retrieval, fusion, reranking, prompting,
verification), clients of model and rerank providers, feedback and audit, graph and
community review, evaluation and feature activation.  They score text, call outside
services, append rows, or are scripts run by hand; where their outcomes matter to
the protocols they appear as choices (an extraction fails, a stream breaks off, an
answer rests on some set of sources, a gate holds or does not).

This is also why the models stand for a small share of the implementation's lines.
Of about 117 thousand, most are extraction of text and tables, retrieval and
prompting, evaluation scripts, and SQL that fills the screens: sequential code whose
state lives no longer than one call, in which a model has no behaviour to explore
and would repeat the program text.  What is concurrent, persistent or spread over two
stores is what is modelled.

## Plan

The modules were written in this order, the hazards of two stores first:
`Publication` with its contract, `Ingestion` with `JobQueue`, `DocumentDeletion`, `DepartmentMove`,
`Sessions`, `LoginLimit`, `Accounts`, `Rollout`, `AccessPolicy`, `Answers`,
`ChatStream`, then the proofs.

What would add most from here:

- an assumption weaker than `~SlowWorkers` for the ingestion theorems (a worker that
  outlives its lease but finds no second one);
- the composition of `DocumentDeletion` with the sagas of `Publication` instead of
  their outline, and of `DepartmentMove` with publications of the same documents,
  which write the same payload;
- graph and community review, when the feature is switched on: records pinned to the
  serving version, as `Answers` has them for sources.
