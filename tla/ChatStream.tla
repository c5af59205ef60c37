---------------------------- MODULE ChatStream ----------------------------
(***************************************************************************)
(* One chat turn from the browser's request to the saved answer, across    *)
(* two servers.  The application server runs ChatTurnRunner.stream, which  *)
(* reads the event stream of the RAG server and saves the turn at its end. *)
(* The RAG server admits a request under a semaphore, runs the pipeline in *)
(* a thread that puts events on a queue, and forwards the queue as the     *)
(* response.  The thread cannot be stopped: it looks at a flag that the    *)
(* response sets when it ends, and its permit comes back when it returns.  *)
(*                                                                         *)
(* The runner is a generator: whatever it tells the browser suspends it    *)
(* until the browser has taken it, and nothing limits how long that lasts. *)
(*                                                                         *)
(* Events stand for themselves: "token" also for metadata and citations.   *)
(* Left out: pilot replays, the audit log, the answer text (module Answers *)
(* has what an answer rests on), and how the pipeline finds it.            *)
(***************************************************************************)
EXTENDS Integers, Sequences, FiniteSets

CONSTANTS
  Turns,
  MaxConcurrent,   \* permits of the semaphore
  MaxTokens        \* bound: tokens of one answer

ASSUME ChatAssumptions ==
  /\ IsFiniteSet(Turns)
  /\ MaxConcurrent \in Nat \ {0}
  /\ MaxTokens \in Nat

VARIABLES
  permits,   \* free permits of runtime.semaphore
  worker,    \* the handler and its thread in the RAG server
  emitted,   \* the events the thread has put on the queue
  forwarded, \* how many of them the response has taken
  response,  \* the response of the RAG server: event_stream
  cancel,    \* cancel_event
  turn,      \* ChatTurnRunner.stream in the application server
  doneSeen,  \* has the runner got RagStreamDone?
  chatRow    \* what LichSuChat and AnswerEvidence hold of the turn

ragVars == <<permits, worker, emitted, forwarded, response, cancel>>
turnVars == <<turn, doneSeen, chatRow>>
chatVars == <<ragVars, turnVars>>

-----------------------------------------------------------------------------
(* Data *)

WorkerStep == {"none", "waiting", "queued", "running", "completed", "closing",
               "returned", "over"}
Terminal == {"done", "error", "cancelled"}
ChatEvent == {"token", "_end"} \cup Terminal

\* Suspended until the browser takes what it was told: progress and tokens ("handing"),
\* or the citations of the finished answer ("citing").
WithBrowser == {"handing", "citing"}
TurnStep == {"idle", "reading", "persist", "evidence", "ended"} \cup WithBrowser

\* With a permit in hand.
Admitted == {"queued", "running", "completed", "closing", "returned"}

ChatInit ==
  /\ permits = MaxConcurrent
  /\ worker = [t \in Turns |-> "none"]
  /\ emitted = [t \in Turns |-> <<>>]
  /\ forwarded = [t \in Turns |-> 0]
  /\ response = [t \in Turns |-> "none"]
  /\ cancel = [t \in Turns |-> FALSE]
  /\ turn = [t \in Turns |-> "idle"]
  /\ doneSeen = [t \in Turns |-> FALSE]
  /\ chatRow = [t \in Turns |-> "none"]

-----------------------------------------------------------------------------
(* RAG server: chat_stream_endpoint *)

Works(t, from, to) == worker[t] = from /\ worker' = [worker EXCEPT ![t] = to]

\* The request has arrived; it waits for a permit whatever its client does.
Arrive(t) ==
  /\ turn[t] = "reading"
  /\ Works(t, "none", "waiting")
  /\ UNCHANGED <<permits, emitted, forwarded, response, cancel, turnVars>>

\* Mutant of Acquire: nobody waits for a permit.
AcquireAtOnce(t) ==
  /\ permits' = permits - 1
  /\ Works(t, "waiting", "queued")
  /\ response' = [response EXCEPT ![t] = "made"]
  /\ UNCHANGED <<emitted, forwarded, cancel, turnVars>>

\* The thread is submitted with its callback, and the response object made.
Acquire(t) ==
  /\ permits > 0
  /\ permits' = permits - 1
  /\ Works(t, "waiting", "queued")
  /\ response' = [response EXCEPT ![t] = "made"]
  /\ UNCHANGED <<emitted, forwarded, cancel, turnVars>>

\* 120 seconds without a permit: 503.
RefuseBusy(t) ==
  /\ Works(t, "waiting", "over")
  /\ response' = [response EXCEPT ![t] = "refused"]
  /\ UNCHANGED <<permits, emitted, forwarded, cancel, turnVars>>

Emit(t, event) == emitted' = [emitted EXCEPT ![t] = Append(@, event)]

threadOnly == <<permits, forwarded, response, cancel, turnVars>>

StartWorker(t) ==
  /\ Works(t, "queued", "running")
  /\ UNCHANGED <<emitted, threadOnly>>

\* _bind_rag_repository_runtime raises outside run_worker_body: no event at all.
BindFails(t) ==
  /\ Works(t, "queued", "returned")
  /\ UNCHANGED <<emitted, threadOnly>>

\* The flag is looked at before each event of the pipeline is passed on.
EmitToken(t) ==
  /\ worker[t] = "running" /\ ~cancel[t]
  /\ Len(emitted[t]) < MaxTokens
  /\ Emit(t, "token")
  /\ UNCHANGED <<worker, threadOnly>>

Complete(t) ==
  /\ ~cancel[t]
  /\ Works(t, "running", "completed")
  /\ UNCHANGED <<emitted, threadOnly>>

EmitDone(t) ==
  /\ Works(t, "completed", "closing")
  /\ Emit(t, "done")
  /\ UNCHANGED threadOnly

EmitCancelled(t) ==
  /\ cancel[t]
  /\ Works(t, "running", "closing")
  /\ Emit(t, "cancelled")
  /\ UNCHANGED threadOnly

\* A failed pipeline, the deadline of the request, denied processing.
EmitError(t) ==
  /\ \E step \in {"running", "completed"} : Works(t, step, "closing")
  /\ Emit(t, "error")
  /\ UNCHANGED threadOnly

EmitEnd(t) ==
  /\ Works(t, "closing", "returned")
  /\ Emit(t, "_end")
  /\ UNCHANGED threadOnly

\* Mutant of Release: the permit comes back when the response has ended.
ReleaseAfterResponse(t) ==
  /\ response[t] = "closed"
  /\ Works(t, "returned", "over")
  /\ permits' = permits + 1
  /\ UNCHANGED <<emitted, forwarded, response, cancel, turnVars>>

\* The callback of the future runs in the event loop.
Release(t) ==
  /\ Works(t, "returned", "over")
  /\ permits' = permits + 1
  /\ UNCHANGED <<emitted, forwarded, response, cancel, turnVars>>

-----------------------------------------------------------------------------
(* Between the servers: event_stream, HttpRagStreamAdapter and the loop of   *)
(* the runner.  A response that was never opened has no finally to run.      *)

Open(t) ==
  /\ response[t] = "made" /\ turn[t] = "reading"
  /\ response' = [response EXCEPT ![t] = "open"]
  /\ UNCHANGED <<permits, worker, emitted, forwarded, cancel, turnVars>>

Close(t) ==
  /\ response' = [response EXCEPT ![t] = "closed"]
  /\ cancel' = [cancel EXCEPT ![t] = response[t] = "open"]

TurnGoesTo(t, step) ==
  /\ turn' = [turn EXCEPT ![t] = step]
  /\ UNCHANGED <<doneSeen, chatRow>>

EndTurn(t) == TurnGoesTo(t, "ended")

NextEvent(t) == emitted[t][forwarded[t] + 1]

Pending(t) == response[t] = "open" /\ turn[t] = "reading" /\ forwarded[t] < Len(emitted[t])

Take(t) == forwarded' = [forwarded EXCEPT ![t] = @ + 1]

\* Tokens are handed on, metadata of a comprehensive search too; candidates for citations
\* and other metadata are kept.
ReadToken(t) ==
  /\ Pending(t) /\ NextEvent(t) = "token"
  /\ Take(t)
  /\ \E step \in {"handing", "reading"} : TurnGoesTo(t, step)
  /\ UNCHANGED <<permits, worker, emitted, response, cancel>>

ReadDone(t) ==
  /\ Pending(t) /\ NextEvent(t) = "done"
  /\ Take(t)
  /\ doneSeen' = [doneSeen EXCEPT ![t] = TRUE]
  /\ UNCHANGED <<permits, worker, emitted, response, cancel, turn, chatRow>>

\* An error ends the turn, and nothing is saved.
ReadError(t) ==
  /\ Pending(t) /\ NextEvent(t) \in {"error", "cancelled"}
  /\ Take(t)
  /\ EndTurn(t)
  /\ UNCHANGED <<permits, worker, emitted, response, cancel>>

\* The stream has ended: rag_incomplete_stream, unless "done" was read.  An answer may
\* have citations, which the browser gets before the turn is saved.
ReadEnd(t) ==
  /\ Pending(t) /\ NextEvent(t) = "_end"
  /\ Take(t)
  /\ Close(t)
  /\ IF doneSeen[t]
       THEN \E step \in {"citing", "persist"} : TurnGoesTo(t, step)
       ELSE EndTurn(t)
  /\ UNCHANGED <<permits, worker, emitted>>

\* Mutant of ReadFails: a stream that breaks off is taken for the end of the answer.
ReadFailsSaving(t) ==
  /\ turn[t] = "reading"
  /\ TurnGoesTo(t, "persist")
  /\ UNCHANGED ragVars

\* Connection refused or broken, or 503.
ReadFails(t) ==
  /\ turn[t] = "reading"
  /\ EndTurn(t)
  /\ UNCHANGED ragVars

\* Mutant of ReadTimesOut: only the connection has a time limit, the open stream has none.
ReadTimesOutConnecting(t) ==
  /\ turn[t] = "reading" /\ response[t] \in {"none", "made"}
  /\ EndTurn(t)
  /\ UNCHANGED ragVars

\* 300 seconds of reading in which nothing came.
ReadTimesOut(t) ==
  /\ turn[t] = "reading" /\ ~Pending(t)
  /\ EndTurn(t)
  /\ UNCHANGED ragVars

\* Mutant of NoticeLeft: the end of the response returns the permit, too.
NoticeLeftReleasing(t) ==
  /\ response[t] \in {"made", "open"} /\ turn[t] = "ended"
  /\ Close(t)
  /\ permits' = permits + 1
  /\ UNCHANGED <<worker, emitted, forwarded, turnVars>>

\* The RAG server learns that nobody reads any more.
NoticeLeft(t) ==
  /\ response[t] \in {"made", "open"} /\ turn[t] = "ended"
  /\ Close(t)
  /\ UNCHANGED <<permits, worker, emitted, forwarded, turnVars>>

\* A restarted RAG server has no requests.
RestartRag ==
  /\ permits' = MaxConcurrent
  /\ worker' = [t \in Turns |-> IF worker[t] = "none" THEN "none" ELSE "over"]
  /\ response' = [t \in Turns |-> IF worker[t] = "none" THEN "none" ELSE "closed"]
  /\ UNCHANGED <<emitted, forwarded, cancel, turnVars>>

-----------------------------------------------------------------------------
(* Application server: the browser, and the end of ChatTurnRunner.stream *)

\* The runner tells the browser that it is thinking before it asks the RAG server.
BeginTurn(t) ==
  /\ turn[t] = "idle"
  /\ TurnGoesTo(t, "handing")
  /\ UNCHANGED ragVars

\* The browser takes what it was told.
BrowserTakes(t) ==
  /\ \/ turn[t] = "handing" /\ TurnGoesTo(t, "reading")
     \/ turn[t] = "citing" /\ TurnGoesTo(t, "persist")
  /\ UNCHANGED ragVars

\* The browser has left: the generator is closed where it is suspended, and only there.
Leave(t) ==
  /\ turn[t] \in WithBrowser
  /\ EndTurn(t)
  /\ UNCHANGED ragVars

Persists(t, step, row) ==
  /\ turn' = [turn EXCEPT ![t] = step]
  /\ chatRow' = [chatRow EXCEPT ![t] = row]
  /\ UNCHANGED <<ragVars, doneSeen>>

\* save_chat_history
SaveRow(t) ==
  /\ turn[t] = "persist"
  /\ Persists(t, "evidence", "row")

\* It answers None when SQL fails: the turn is done, without a row or a warning.
SaveRowFails(t) ==
  /\ turn[t] = "persist"
  /\ EndTurn(t)
  /\ UNCHANGED ragVars

\* save_answer_evidence and save_answer_sources
SaveEvidence(t) ==
  /\ turn[t] = "evidence"
  /\ Persists(t, "ended", "complete")

\* False, because SQL fails or a source may no longer be read: a warning, no chat_id.
SaveEvidenceFails(t) ==
  /\ turn[t] = "evidence"
  /\ EndTurn(t)
  /\ UNCHANGED ragVars

\* A restarted application server has no turns.
RestartApp ==
  /\ turn' = [t \in Turns |-> IF turn[t] = "idle" THEN "idle" ELSE "ended"]
  /\ UNCHANGED <<ragVars, doneSeen, chatRow>>

-----------------------------------------------------------------------------
Thread(t) == \/ StartWorker(t) \/ EmitToken(t) \/ Complete(t) \/ EmitDone(t)
             \/ EmitCancelled(t) \/ EmitError(t) \/ EmitEnd(t)
Admission(t) == Acquire(t) \/ RefuseBusy(t)
Reading(t) == ReadToken(t) \/ ReadDone(t) \/ ReadError(t) \/ ReadEnd(t)
Saving(t) == SaveRow(t) \/ SaveRowFails(t) \/ SaveEvidence(t) \/ SaveEvidenceFails(t)

ChatNext ==
  \/ \E t \in Turns :
       \/ Arrive(t) \/ Admission(t) \/ Thread(t) \/ BindFails(t) \/ Release(t)
       \/ Open(t) \/ Reading(t) \/ ReadTimesOut(t) \/ ReadFails(t) \/ NoticeLeft(t)
       \/ BeginTurn(t) \/ BrowserTakes(t) \/ Leave(t) \/ Saving(t)
  \/ RestartRag
  \/ RestartApp

ChatSpec == ChatInit /\ [][ChatNext]_chatVars

\* Threads run and meet their deadline, the event loop runs callbacks, waiting for a
\* permit and reading have a time limit, and the runner reads what has come and saves it.
\* Nothing is asked of browsers, and no response has to be opened or its end noticed.
ChatFairness ==
  \A t \in Turns : /\ WF_chatVars(Admission(t)) /\ WF_chatVars(Thread(t))
                   /\ WF_chatVars(Release(t)) /\ WF_chatVars(Reading(t))
                   /\ WF_chatVars(ReadTimesOut(t)) /\ WF_chatVars(Saving(t))

ChatFairSpec == ChatSpec /\ ChatFairness

-----------------------------------------------------------------------------
(* Properties *)

\* Types of the variables.
ChatTypeOK ==
  /\ permits \in 0..MaxConcurrent
  /\ worker \in [Turns -> WorkerStep]
  /\ emitted \in [Turns -> Seq(ChatEvent)]
  /\ forwarded \in [Turns -> Nat]
  /\ response \in [Turns -> {"none", "made", "open", "closed", "refused"}]
  /\ cancel \in [Turns -> BOOLEAN]
  /\ turn \in [Turns -> TurnStep]
  /\ doneSeen \in [Turns -> BOOLEAN]
  /\ chatRow \in [Turns -> {"none", "row", "complete"}]

\* However requests end, no permit is lost and none is returned twice: at most
\* MaxConcurrent threads run, those included whose client has gone.
PermitsAreKept == permits + Cardinality({t \in Turns : worker[t] \in Admitted}) = MaxConcurrent

Occurs(event, t) == \E i \in 1..Len(emitted[t]) : emitted[t][i] = event

\* An answer is saved only if the pipeline completed it and reported nothing else: no
\* cut stream, failed pipeline or vanished browser leaves part of an answer in the
\* history.
SavedIsComplete ==
  \A t \in Turns : chatRow[t] # "none" =>
    Occurs("done", t) /\ ~Occurs("error", t) /\ ~Occurs("cancelled", t)

\* The servers together implement TurnContract: whatever is lost, refused, cut off,
\* abandoned or restarted, no more turns are worked on than there are permits, and the
\* history gets the reported answer of a turn that has not ended, the row first, or
\* nothing.
TurnWork ==
  [t \in Turns |-> IF worker[t] \in {"none", "waiting"} THEN "none"
                   ELSE IF worker[t] \in Admitted THEN "going" ELSE "over"]
TurnOutcome ==
  [t \in Turns |-> IF Occurs("done", t) THEN "answer"
                   ELSE IF Occurs("error", t) \/ Occurs("cancelled", t) THEN "failure"
                   ELSE "nothing"]
TurnsEnded == {t \in Turns : turn[t] = "ended"}

Promise == INSTANCE TurnContract WITH
  work <- TurnWork, outcome <- TurnOutcome, saved <- chatRow, ended <- TurnsEnded
ImplementsTurns == Promise!TurnSpec

\* Every turn comes to an end, whatever the RAG server does or fails to send, unless its
\* browser stays connected and never takes what it was told.
TurnsEnd ==
  \A t \in Turns : <>[](turn[t] \in WithBrowser) \/ (turn[t] # "idle" ~> turn[t] = "ended")

\* Every permit comes back, also when the client left before the response was opened
\* and nobody sets the flag.
PermitsReturn == \A t \in Turns : worker[t] \in Admitted ~> worker[t] = "over"
=============================================================================
